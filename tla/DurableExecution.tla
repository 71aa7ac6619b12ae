---- MODULE DurableExecution ----
(*
 * What the workflow engine promises, with executors, tasks, crashes, queues and recovery
 * abstracted away.
 *
 * A workflow owns a log of step results and a phase. The log is a prefix: step n is recorded
 * only after every step before it, and never once an earlier step recorded a failure (the body
 * stops there). A recorded result is never changed. The phase may become "succeeded" only when
 * the log is complete and free of failures, and "cancelled" is left only by reopening (a resume).
 *
 * Nothing is promised about how many executions append to the log, and a failed or succeeded
 * phase is not final here: the engine overwrites one by the other when two executions of one
 * workflow overlap. The stronger promises for one owner are invariants of WorkflowEngine.
 *)
EXTENDS Integers

CONSTANTS
    Workflows,      \* workflow ids
    NumSteps,       \* number of steps of a body
    Results,        \* what a step can return
    Failures,       \* the results that are errors, which end the body
    None            \* "not recorded"

VARIABLES
    log,            \* log[w][n]: the recorded result of step n of w, or None
    phase           \* phase[w]: "open", "succeeded", "failed" or "cancelled"

vars == <<log, phase>>

Steps == 0 .. NumSteps - 1

Phases == {"open", "succeeded", "failed", "cancelled"}

\* The log holds results and the phase is one of the four.
TypeOK ==
    /\ log \in [Workflows -> [Steps -> Results \cup {None}]]
    /\ phase \in [Workflows -> Phases]

\* Step n is the next one the body of w reaches: all before it are recorded and none failed.
Reached(w, n) == \A m \in Steps : m < n => log[w][m] \in Results \ Failures

\* The body of w ran to its end without a failure.
Complete(w) == Reached(w, NumSteps)

Init ==
    /\ log = [w \in Workflows |-> [n \in Steps |-> None]]
    /\ phase = [w \in Workflows |-> "open"]

\* An execution checkpoints the next step. It may do so in any phase: one that passed its
\* status check before a cancellation still records the step it was running.
Append(w) ==
    /\ \E n \in Steps, r \in Results :
        /\ Reached(w, n)
        /\ log[w][n] = None
        /\ log' = [log EXCEPT ![w][n] = r]
    /\ UNCHANGED phase

Succeed(w) ==
    /\ phase[w] # "cancelled"
    /\ Complete(w)
    /\ phase' = [phase EXCEPT ![w] = "succeeded"]
    /\ UNCHANGED log

Fail(w) ==
    /\ phase[w] # "cancelled"
    /\ phase' = [phase EXCEPT ![w] = "failed"]
    /\ UNCHANGED log

Cancel(w) ==
    /\ phase[w] = "open"
    /\ phase' = [phase EXCEPT ![w] = "cancelled"]
    /\ UNCHANGED log

Reopen(w) ==
    /\ phase[w] = "cancelled"
    /\ phase' = [phase EXCEPT ![w] = "open"]
    /\ UNCHANGED log

Next ==
    \E w \in Workflows :
        Append(w) \/ Succeed(w) \/ Fail(w) \/ Cancel(w) \/ Reopen(w)

Spec == Init /\ [][Next]_vars

====
