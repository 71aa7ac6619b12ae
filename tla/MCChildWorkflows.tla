---- MODULE MCChildWorkflows ----
(* A parent without a retry limit and its two children with one, the first asked for twice, on two executors. *)
EXTENDS ChildWorkflows, TLC

MCChildOf == [p \in Parents |-> <<"c1", "c2", "c1">>]
MCMaxRetries == [w \in Workflows |-> IF w \in Parents THEN 0 ELSE 1]
MCSites == [p \in Parents |-> {"e1"}]
MCRegistered == [e \in Executors |-> IF e = "e1" THEN Workflows ELSE Workflows \ {"c2"}]
====
