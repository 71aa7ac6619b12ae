---- MODULE MCLifecycle ----
(*
 * A fleet of two processes with patching, so that its version outlives a binary; one has its executor id from
 * its configuration, the other from its environment.
 *)
EXTENDS Lifecycle, TLC

Base == [url |-> "postgres", pool |-> FALSE, app_name |-> "app", application_version |-> "", patching |-> TRUE,
         executor_id |-> ""]
MCConfig == "p1" :> [Base EXCEPT !.executor_id = "e1"] @@ "p2" :> [Base EXCEPT !.pool = TRUE, !.url = ""]
MCEnv == "p1" :> [version |-> "", vmid |-> ""] @@ "p2" :> [version |-> "", vmid |-> "e2"]
====
