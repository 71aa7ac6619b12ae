---- MODULE MCControlPlane ----
(* Two workflows; a conductor that retires old work and deletes, an admin client that recovers and resumes. *)
EXTENDS ControlPlane, TLC

Request(type, ids, executors, gc_cutoff, gc_rows, timeout_cutoff) ==
    [type |-> type, ids |-> ids, executors |-> executors, gc_cutoff |-> gc_cutoff, gc_rows |-> gc_rows,
     timeout_cutoff |-> timeout_cutoff]

MCConductorRequests ==
    {Request("retention", {}, {}, {2}, {1}, {1}), Request("delete", {"w1"}, {}, {}, {}, {})}
MCAdminRequests ==
    {Request("recovery", {}, {"dead"}, {}, {}, {}), Request("resume", {"w1"}, {}, {}, {}, {}),
     Request("cancel", {"w1", "w2"}, {}, {}, {}, {})}
====
