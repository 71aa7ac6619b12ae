---- MODULE MCDurableQueue ----
(* Instances of DurableQueue for TLC. *)
EXTENDS DurableQueue

\* FIFO: every workflow has the default priority.
SamePriority == [w \in Workflows |-> 0]

\* Every executor has every handler.
AllRegistered == [e \in Executors |-> Workflows]

====
