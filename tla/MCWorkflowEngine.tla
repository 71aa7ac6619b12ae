---- MODULE MCWorkflowEngine ----
(* Instances of WorkflowEngine for TLC. *)
EXTENDS WorkflowEngine, TLC

CONSTANTS e1, e2, w1, w2

\* Tasks differ in nothing but their slot.
TaskSymmetry == Permutations(Tasks)

\* Every executor has every handler.
AllRegistered == [e \in Executors |-> Workflows]

\* Where the application starts or enqueues workflows: on e1, on both executors, nowhere.
FirstSite == [w \in Workflows |-> {e1}]
BothSites == [w \in Workflows |-> {e1, e2}]
NoSites == [w \in Workflows |-> {}]

\* One owner: w1 is run by e1, w2 is enqueued by e2 and claimed by either.
OwnerSites == [w \in Workflows |-> IF w = w1 THEN {e1} ELSE {}]
OwnerQueueSites == [w \in Workflows |-> IF w = w1 THEN {} ELSE {e2}]

====
