---- MODULE WorkflowEngine ----
(*
 * The durable-execution core of dbos-transact-rs: executors that start, queue, run, recover,
 * cancel and resume workflows over the shared tables workflow_status and operation_outputs.
 *
 * Each transaction or autocommit statement against the database is one action; everything a
 * task keeps between two of them lives in task[t]. Executors crash between any two actions.
 *
 * Abstractions: a workflow body is a deterministic sequence of NumSteps steps whose results it
 * folds into its output, so an output is represented by the results the body saw (its view); a
 * body either propagates an error with `?` (the usual case) or tolerates it and goes on (the
 * workflows in Tolerant). All executors run the same application version. Deletion, forking,
 * child workflows, delays and queue limits are not part of this module.
 *)
EXTENDS Integers, FiniteSets

CONSTANTS
    Executors,      \* executor ids
    Workflows,      \* workflow ids
    Tasks,          \* slots for spawned workflow tasks (bounds concurrent executions)
    NumSteps,       \* steps of a body
    Results,        \* what a step closure can return
    Failures,       \* those results that are Err
    None,           \* NULL
    LibError,       \* an Err made by the library (cancelled, conflicting id, database error)
    Tolerant,       \* workflows whose body swallows errors and continues
    MaxRetries,     \* max_retries of the registry entry, 0 disables the dead-letter queue
    Sites,          \* Sites[w]: executors where the application calls run_workflow for w
    QueueSites,     \* QueueSites[w]: executors where the application enqueues w
    Registered,     \* Registered[e]: workflows that executor e has a handler for
    MaxCrashes,     \* bound on executor crashes
    MaxCancels,     \* bound on cancel requests
    MaxResumes,     \* bound on resume requests
    MaxRecoveries,  \* bound on recovery requests to a running executor
    MaxFaults       \* bound on database errors seen by tasks

ASSUME EngineAssumption ==
    /\ NumSteps \in Nat \ {0}
    /\ Failures \subseteq Results
    /\ None \notin Results
    /\ LibError \notin Results
    /\ LibError # None
    /\ Tolerant \subseteq Workflows
    /\ MaxRetries \in Nat
    /\ Sites \in [Workflows -> SUBSET Executors]
    /\ QueueSites \in [Workflows -> SUBSET Executors]
    /\ Registered \in [Executors -> SUBSET Workflows]
    /\ {MaxCrashes, MaxCancels, MaxResumes, MaxRecoveries, MaxFaults} \subseteq Nat

VARIABLES
    workflow_status,    \* the table, by workflow id
    operation_outputs,  \* the table: [w][n] is the recorded result of step n of w, or None
    executor,           \* "down", "launching" (recovery awaited) or "up"
    recovering,         \* the listed workflows recover_pending_workflows has still to handle
    task,               \* the spawned workflow tasks
    starts,             \* history: executions begun since recovery_attempts was last reset
    used                \* history: crashes, operator requests and faults so far, for the bounds

dbVars == <<workflow_status, operation_outputs>>
vars == <<workflow_status, operation_outputs, executor, recovering, task, starts, used>>

Steps == 0 .. NumSteps - 1

Statuses == {"ABSENT", "PENDING", "ENQUEUED", "SUCCESS", "ERROR", "CANCELLED",
             "MAX_RECOVERY_ATTEMPTS_EXCEEDED"}

NoQueue == "NULL"
AppQueue == "app_queue"
INTERNAL_QUEUE_NAME == "_dbos_internal_queue"

Budgets == {"crashes", "cancels", "resumes", "recoveries", "faults"}

\* One more use of budget b.
Spend(b, max) ==
    /\ used[b] < max
    /\ used' = [used EXCEPT ![b] = @ + 1]

Views == [Steps -> Results \cup {None, LibError}]

NoView == [n \in Steps |-> None]

Row == [status : Statuses,
        recovery_attempts : Nat,
        executor_id : Executors \cup {None},
        queue_name : {NoQueue, AppQueue, INTERNAL_QUEUE_NAME},
        output : Views]

\* No row in workflow_status.
AbsentRow == [status |-> "ABSENT", recovery_attempts |-> 0, executor_id |-> None,
              queue_name |-> NoQueue, output |-> NoView]

\* Where a task stands: about to read the workflow's status, about to read the step's row, in
\* the step's closure, about to record the closure's result, about to write the outcome.
Places == {"idle", "check_status", "check_output", "closure", "record", "outcome"}

Task == [at : Places,
         wf : Workflows \cup {None},
         on : Executors \cup {None},
         step_id : 0 .. NumSteps,
         result : Results \cup {None},
         view : Views,
         ok : BOOLEAN]

IdleTask == [at |-> "idle", wf |-> None, on |-> None, step_id |-> 0, result |-> None,
             view |-> NoView, ok |-> FALSE]

\* Mutant.
FreshTaskOffByOne(w, e) ==
    [IdleTask EXCEPT !.at = "check_status", !.wf = w, !.on = e, !.step_id = -1]

\* A spawned task before its first step, whose id is 0.
FreshTask(w, e) == [IdleTask EXCEPT !.at = "check_status", !.wf = w, !.on = e]

\* An entry of list_pending_for_recovery: what the loop still knows of the row it read.
Listed == [wf : Workflows, queued : BOOLEAN]

\* The tables, tasks and recovery lists are well formed; a task's step id stays within the body and
\* its result is one a closure returned.
TypeOK ==
    /\ workflow_status \in [Workflows -> Row]
    /\ operation_outputs \in [Workflows -> [Steps -> Results \cup {None}]]
    /\ executor \in [Executors -> {"down", "launching", "up"}]
    /\ recovering \in [Executors -> SUBSET Listed]
    /\ task \in [Tasks -> Task]
    /\ starts \in [Workflows -> Nat]
    /\ used \in [Budgets -> Nat]

Live(t) == task[t].at # "idle"

Exists(w) == workflow_status[w].status # "ABSENT"

Init ==
    /\ workflow_status = [w \in Workflows |-> AbsentRow]
    /\ operation_outputs = [w \in Workflows |-> NoView]
    /\ executor = [e \in Executors |-> "down"]
    /\ recovering = [e \in Executors |-> {}]
    /\ task = [t \in Tasks |-> IdleTask]
    /\ starts = [w \in Workflows |-> 0]
    /\ used = [b \in Budgets |-> 0]

----
(* insert_workflow_status and start_workflow *)

\* The row after INSERT ... ON CONFLICT DO UPDATE. The upsert takes the row over for the calling
\* executor whenever it inserts PENDING, whether or not the call goes on to run the workflow.
Upsert(r, e, status, queue, increment) ==
    IF r.status = "ABSENT"
    THEN [status |-> status,
          recovery_attempts |-> IF status = "ENQUEUED" THEN 0 ELSE 1,
          executor_id |-> e,
          queue_name |-> queue,
          output |-> NoView]
    ELSE IF status = "ENQUEUED"
         THEN r
         ELSE [r EXCEPT !.recovery_attempts = @ + increment, !.executor_id = e]

\* Mutant.
DeadLetteredLate(r) ==
    /\ r.status \notin {"SUCCESS", "ERROR"}
    /\ MaxRetries > 0
    /\ r.recovery_attempts > MaxRetries + 2

\* The dead-letter check on the row the upsert returned.
DeadLettered(r) ==
    /\ r.status \notin {"SUCCESS", "ERROR"}
    /\ MaxRetries > 0
    /\ r.recovery_attempts > MaxRetries + 1

\* The dead-letter UPDATE, guarded by status = PENDING.
Bury(r) ==
    IF r.status = "PENDING"
    THEN [r EXCEPT !.status = "MAX_RECOVERY_ATTEMPTS_EXCEEDED", !.queue_name = NoQueue]
    ELSE r

\* Mutant.
ShouldSkipExisting(w, r, is_recovery) ==
    \/ r.status \in {"SUCCESS", "ERROR"}
    \/ Exists(w)

\* The row is not run by this call: it is terminal, or (its owner_xid is not the caller's fresh
\* one) it existed before and the call is not a recovery.
ShouldSkip(w, r, is_recovery) ==
    \/ r.status \in {"SUCCESS", "ERROR"}
    \/ ~is_recovery /\ Exists(w)

\* workflow_tasks.spawn.
Spawn(w, e) ==
    /\ \E t \in Tasks :
        /\ ~Live(t)
        /\ task' = [task EXCEPT ![t] = FreshTask(w, e)]
    /\ starts' = [starts EXCEPT ![w] = @ + 1]

\* The whole of start_workflow for a top-level workflow that e has registered.
start_workflow(w, e, is_recovery) ==
    LET r == Upsert(workflow_status[w], e, "PENDING", NoQueue, IF is_recovery THEN 1 ELSE 0)
    IN  \/ /\ DeadLettered(r)
           /\ workflow_status' = [workflow_status EXCEPT ![w] = Bury(r)]
           /\ UNCHANGED <<task, starts>>
        \/ /\ ~DeadLettered(r)
           /\ ShouldSkip(w, r, is_recovery)
           /\ workflow_status' = [workflow_status EXCEPT ![w] = r]
           /\ UNCHANGED <<task, starts>>
        \/ /\ ~DeadLettered(r)
           /\ ~ShouldSkip(w, r, is_recovery)
           /\ workflow_status' = [workflow_status EXCEPT ![w] = r]
           /\ Spawn(w, e)

\* The application calls run_workflow with an explicit workflow id (a scheduler does the same).
RunWorkflow(e, w) ==
    /\ executor[e] = "up"
    /\ e \in Sites[w]
    /\ w \in Registered[e]
    /\ start_workflow(w, e, FALSE)
    /\ UNCHANGED <<operation_outputs, executor, recovering, used>>

\* The application enqueues w. A row on another queue rolls the transaction back.
EnqueueWorkflow(e, w) ==
    LET old == workflow_status[w]
        r == Upsert(old, e, "ENQUEUED", AppQueue, 0)
    IN  /\ executor[e] = "up"
        /\ e \in QueueSites[w]
        /\ w \in Registered[e]
        /\ r.queue_name \in {NoQueue, AppQueue}
        /\ workflow_status' = [workflow_status EXCEPT ![w] = IF DeadLettered(r) THEN Bury(r) ELSE r]
        /\ UNCHANGED <<operation_outputs, executor, recovering, task, starts, used>>

----
(* Queue runners *)

\* A runner claims an ENQUEUED row and dispatches it. A claimed workflow that e has no handler
\* for is left PENDING. recovery_attempts is not touched.
Dequeue(e, w) ==
    /\ executor[e] = "up"
    /\ workflow_status[w].status = "ENQUEUED"
    /\ workflow_status' = [workflow_status EXCEPT ![w] =
            [@ EXCEPT !.status = "PENDING", !.executor_id = e]]
    /\ IF w \in Registered[e] THEN Spawn(w, e) ELSE UNCHANGED <<task, starts>>
    /\ UNCHANGED <<operation_outputs, executor, recovering, used>>

----
(* A workflow task *)

Failed(r) == r \in Failures \cup {LibError}

\* The body sees r as the outcome of its current step: it goes on to the next step, or returns
\* Ok after the last one, or (unless it tolerates errors) returns Err at once.
Observe(tk, r) ==
    IF Failed(r) /\ tk.wf \notin Tolerant
    THEN [tk EXCEPT !.at = "outcome", !.ok = FALSE, !.result = None]
    ELSE [tk EXCEPT !.at = IF tk.step_id + 1 = NumSteps THEN "outcome" ELSE "check_status",
                    !.ok = tk.step_id + 1 = NumSteps,
                    !.step_id = @ + 1,
                    !.result = None,
                    !.view[tk.step_id] = r]

\* First query of check_operation_execution.
CheckStatus(t) ==
    /\ task[t].at = "check_status"
    /\ task' = [task EXCEPT ![t] =
            IF workflow_status[task[t].wf].status \in {"ABSENT", "CANCELLED"}
            THEN Observe(@, LibError)
            ELSE [@ EXCEPT !.at = "check_output"]]
    /\ UNCHANGED <<workflow_status, operation_outputs, executor, recovering, starts, used>>

\* Mutant.
NeverRecorded(w, n) == FALSE

Recorded(w, n) == operation_outputs[w][n] # None

\* Second query: replay the recorded result, or go and run the closure.
CheckOutput(t) ==
    LET w == task[t].wf
        n == task[t].step_id
    IN  /\ task[t].at = "check_output"
        /\ task' = [task EXCEPT ![t] =
                IF Recorded(w, n)
                THEN Observe(@, operation_outputs[w][n])
                ELSE [@ EXCEPT !.at = "closure"]]
        /\ UNCHANGED <<workflow_status, operation_outputs, executor, recovering, starts, used>>

\* The closure runs, with whatever side effects it has.
RunClosure(t) ==
    /\ task[t].at = "closure"
    /\ \E r \in Results :
        task' = [task EXCEPT ![t] = [@ EXCEPT !.at = "record", !.result = r]]
    /\ UNCHANGED <<workflow_status, operation_outputs, executor, recovering, starts, used>>

\* Mutant.
AlwaysFree(w, n) == TRUE

\* (workflow_uuid, function_id) is not in operation_outputs, so the INSERT does not conflict.
PrimaryKeyFree(w, n) == operation_outputs[w][n] = None

\* Mutant.
RecordStepOrIgnore(t) ==
    LET w == task[t].wf
        n == task[t].step_id
    IN  /\ task[t].at = "record"
        /\ operation_outputs' = [operation_outputs EXCEPT ![w][n] =
                IF PrimaryKeyFree(w, n) THEN task[t].result ELSE @]
        /\ task' = [task EXCEPT ![t] = Observe(@, @.result)]
        /\ UNCHANGED <<workflow_status, executor, recovering, starts, used>>

\* record_step: the result is inserted before the step returns it; a conflict is an error.
RecordStep(t) ==
    LET w == task[t].wf
        n == task[t].step_id
    IN  /\ task[t].at = "record"
        /\ \/ /\ PrimaryKeyFree(w, n)
              /\ operation_outputs' = [operation_outputs EXCEPT ![w][n] = task[t].result]
              /\ task' = [task EXCEPT ![t] = Observe(@, @.result)]
           \/ /\ ~PrimaryKeyFree(w, n)
              /\ task' = [task EXCEPT ![t] = Observe(@, LibError)]
              /\ UNCHANGED operation_outputs
        /\ UNCHANGED <<workflow_status, executor, recovering, starts, used>>

\* Mutant.
OutcomeAlwaysApplies(r) == r.status # "ABSENT"

\* WHERE clause of update_workflow_outcome.
OutcomeApplies(r) == r.status \notin {"ABSENT", "CANCELLED"}

\* update_workflow_outcome for the task's result.
WithOutcome(r, tk) ==
    IF OutcomeApplies(r)
    THEN [r EXCEPT !.status = IF tk.ok THEN "SUCCESS" ELSE "ERROR",
                   !.output = IF tk.ok THEN tk.view ELSE NoView]
    ELSE r

WriteOutcome(t) ==
    LET w == task[t].wf
    IN  /\ task[t].at = "outcome"
        /\ workflow_status' = [workflow_status EXCEPT ![w] = WithOutcome(@, task[t])]
        /\ task' = [task EXCEPT ![t] = IdleTask]
        /\ UNCHANGED <<operation_outputs, executor, recovering, starts, used>>

----
(* Database errors. A failing statement is an Err to the body; one whose reply is lost has taken
   effect as well. The task ignores the error of its last statement. *)

CheckFault(t) ==
    /\ task[t].at \in {"check_status", "check_output"}
    /\ Spend("faults", MaxFaults)
    /\ task' = [task EXCEPT ![t] = Observe(@, LibError)]
    /\ UNCHANGED <<workflow_status, operation_outputs, executor, recovering, starts>>

RecordFault(t) ==
    LET w == task[t].wf
        n == task[t].step_id
    IN  /\ task[t].at = "record"
        /\ Spend("faults", MaxFaults)
        /\ \/ /\ PrimaryKeyFree(w, n)
              /\ operation_outputs' = [operation_outputs EXCEPT ![w][n] = task[t].result]
           \/ UNCHANGED operation_outputs
        /\ task' = [task EXCEPT ![t] = Observe(@, LibError)]
        /\ UNCHANGED <<workflow_status, executor, recovering, starts>>

OutcomeFault(t) ==
    LET w == task[t].wf
    IN  /\ task[t].at = "outcome"
        /\ Spend("faults", MaxFaults)
        /\ \/ workflow_status' = [workflow_status EXCEPT ![w] = WithOutcome(@, task[t])]
           \/ UNCHANGED workflow_status
        /\ task' = [task EXCEPT ![t] = IdleTask]
        /\ UNCHANGED <<operation_outputs, executor, recovering, starts>>

----
(* Crash, launch and recovery *)

\* The process dies: its tasks and its recovery loop are gone, the tables stay.
Crash(e) ==
    /\ executor[e] # "down"
    /\ Spend("crashes", MaxCrashes)
    /\ executor' = [executor EXCEPT ![e] = "down"]
    /\ recovering' = [recovering EXCEPT ![e] = {}]
    /\ task' = [t \in Tasks |-> IF task[t].on = e THEN IdleTask ELSE task[t]]
    /\ UNCHANGED <<workflow_status, operation_outputs, starts>>

\* Mutant.
ListAllPending(ids) ==
    {[wf |-> w, queued |-> workflow_status[w].queue_name # NoQueue] :
        w \in {x \in Workflows : workflow_status[x].status = "PENDING"}}

\* Mutant.
ListDirectPending(ids) ==
    {[wf |-> w, queued |-> FALSE] :
        w \in {x \in Workflows : /\ workflow_status[x].status = "PENDING"
                                 /\ workflow_status[x].executor_id \in ids
                                 /\ workflow_status[x].queue_name = NoQueue}}

list_pending_for_recovery(ids) ==
    {[wf |-> w, queued |-> workflow_status[w].queue_name # NoQueue] :
        w \in {x \in Workflows : /\ workflow_status[x].status = "PENDING"
                                 /\ workflow_status[x].executor_id \in ids}}

\* launch up to the listing of this executor's PENDING workflows.
Launch(e) ==
    /\ executor[e] = "down"
    /\ executor' = [executor EXCEPT ![e] = "launching"]
    /\ recovering' = [recovering EXCEPT ![e] = list_pending_for_recovery({e})]
    /\ UNCHANGED <<workflow_status, operation_outputs, task, starts, used>>

\* UPDATE of clear_queue_assignment.
ClearQueueAssignment(w) ==
    /\ workflow_status' = [workflow_status EXCEPT ![w] =
            IF @.queue_name # NoQueue /\ @.status = "PENDING"
            THEN [@ EXCEPT !.status = "ENQUEUED"]
            ELSE @]
    /\ UNCHANGED <<task, starts>>

\* One round of the loop of recover_pending_workflows.
RecoverOne(e) ==
    \E item \in recovering[e] :
        /\ recovering' = [recovering EXCEPT ![e] = @ \ {item}]
        /\ \/ item.queued /\ ClearQueueAssignment(item.wf)
           \/ /\ ~item.queued
              /\ item.wf \notin Registered[e]
              /\ UNCHANGED <<workflow_status, task, starts>>
           \/ /\ ~item.queued
              /\ item.wf \in Registered[e]
              /\ start_workflow(item.wf, e, TRUE)
        /\ UNCHANGED <<operation_outputs, executor, used>>

\* The rest of launch: queue runners, schedulers and the admin server start.
FinishLaunch(e) ==
    /\ executor[e] = "launching"
    /\ recovering[e] = {}
    /\ executor' = [executor EXCEPT ![e] = "up"]
    /\ UNCHANGED <<workflow_status, operation_outputs, recovering, task, starts, used>>

----
(* Operator requests *)

\* The admin or conductor recovery request, served by e for any set of executor ids.
RequestRecovery(e) ==
    /\ executor[e] = "up"
    /\ Spend("recoveries", MaxRecoveries)
    /\ \E ids \in SUBSET Executors :
        recovering' = [recovering EXCEPT ![e] = @ \cup list_pending_for_recovery(ids)]
    /\ UNCHANGED <<workflow_status, operation_outputs, executor, task, starts>>

\* UPDATE of cancel_workflows for w.
cancel_workflows(w) ==
    /\ workflow_status[w].status \notin {"ABSENT", "SUCCESS", "ERROR", "CANCELLED"}
    /\ workflow_status' = [workflow_status EXCEPT ![w] =
            [@ EXCEPT !.status = "CANCELLED", !.queue_name = NoQueue]]

CancelWorkflow(w) ==
    /\ Spend("cancels", MaxCancels)
    /\ cancel_workflows(w)
    /\ UNCHANGED <<operation_outputs, executor, recovering, task, starts>>

\* UPDATE of resume_workflows: any row that is not finished, a running one too, goes back to a
\* queue.
resume_workflows(w, queue) ==
    /\ workflow_status[w].status \notin {"ABSENT", "SUCCESS", "ERROR"}
    /\ workflow_status' = [workflow_status EXCEPT ![w] =
            [@ EXCEPT !.status = "ENQUEUED", !.queue_name = queue, !.recovery_attempts = 0]]

ResumeWorkflow(w) ==
    /\ Spend("resumes", MaxResumes)
    /\ resume_workflows(w, INTERNAL_QUEUE_NAME)
    /\ starts' = [starts EXCEPT ![w] = 0]
    /\ UNCHANGED <<operation_outputs, executor, recovering, task>>

----
(* The specification *)

TaskStep(t) ==
    \/ CheckStatus(t)
    \/ CheckOutput(t)
    \/ RunClosure(t)
    \/ RecordStep(t)
    \/ WriteOutcome(t)

TaskFault(t) ==
    \/ CheckFault(t)
    \/ RecordFault(t)
    \/ OutcomeFault(t)

Next ==
    \/ \E e \in Executors, w \in Workflows :
        RunWorkflow(e, w) \/ EnqueueWorkflow(e, w) \/ Dequeue(e, w)
    \/ \E t \in Tasks : TaskStep(t) \/ TaskFault(t)
    \/ \E e \in Executors :
        Crash(e) \/ Launch(e) \/ RecoverOne(e) \/ FinishLaunch(e) \/ RequestRecovery(e)
    \/ \E w \in Workflows : CancelWorkflow(w) \/ ResumeWorkflow(w)

Spec == Init /\ [][Next]_vars

\* Tokio keeps polling runnable tasks, the launch sequence and the queue runners; a crashed
\* executor is restarted. Nothing obliges the application or an operator to call anything.
Fairness ==
    /\ \A t \in Tasks : WF_vars(TaskStep(t))
    /\ \A e \in Executors : WF_vars(Launch(e)) /\ WF_vars(RecoverOne(e)) /\ WF_vars(FinishLaunch(e))
    /\ \A w \in Workflows : WF_vars(\E e \in Executors : Dequeue(e, w))

FairSpec == Spec /\ Fairness

----
(* Properties that hold however executions of one workflow overlap *)

\* Every step a running body has passed gave it exactly what the checkpoint table holds.
ViewAgrees(t) ==
    \A n \in Steps :
        n < task[t].step_id => task[t].view[n] = operation_outputs[task[t].wf][n]

\* Replay determinism: however many executions of a workflow overlap, crash and replay, all of
\* them have seen the same results, the recorded ones (run_step records a result before it
\* returns it and never returns one that lost the race for the primary key).
ReplayAgreement ==
    \A t \in Tasks : Live(t) /\ task[t].wf \notin Tolerant => ViewAgrees(t)

\* A SUCCESS row holds an output computed from the recorded steps alone, all of them present
\* and none failed: a reader of the row and a replay of the workflow get the same answer.
SuccessIsReplayable ==
    \A w \in Workflows \ Tolerant :
        workflow_status[w].status = "SUCCESS" =>
            /\ workflow_status[w].output = operation_outputs[w]
            /\ \A n \in Steps : operation_outputs[w][n] \in Results \ Failures

\* The abstract specification, on the workflows whose bodies propagate errors.
Phase(status) ==
    CASE status = "SUCCESS" -> "succeeded"
      [] status = "ERROR" -> "failed"
      [] status = "CANCELLED" -> "cancelled"
      [] OTHER -> "open"

Durable == INSTANCE DurableExecution WITH
    Workflows <- Workflows \ Tolerant,
    log <- [w \in Workflows \ Tolerant |-> operation_outputs[w]],
    phase <- [w \in Workflows \ Tolerant |-> Phase(workflow_status[w].status)]

\* The engine implements DurableExecution: checkpoints are append-only and in step order, success
\* needs a complete log, and cancellation is undone by a resume only.
ImplementsDurableExecution == Durable!Spec

\* What a task knows, against the checkpoint table outs: the strengthening that makes
\* ReplayAgreement and SuccessIsReplayable inductive.
Sound(tk, outs) ==
    tk.at # "idle" =>
        /\ tk.wf \in Workflows
        /\ tk.at # "outcome" => tk.step_id \in Steps
        /\ tk.at = "record" => tk.result \in Results
        /\ tk.at = "outcome" /\ tk.ok => tk.step_id = NumSteps
        /\ tk.wf \notin Tolerant =>
            \A n \in Steps : n < tk.step_id =>
                /\ outs[tk.wf][n] \in Results \ Failures
                /\ tk.view[n] = outs[tk.wf][n]

Inv ==
    /\ TypeOK
    /\ \A t \in Tasks : Sound(task[t], operation_outputs)
    /\ SuccessIsReplayable

----
(* Properties of a workflow with one owner: started from one executor or from a queue, recovered
   only by the launch of its executor, never resumed. *)

OneOwner ==
    /\ MaxResumes = 0 /\ MaxRecoveries = 0
    /\ \A w \in Workflows :
          \/ Sites[w] = {}
          \/ QueueSites[w] = {} /\ \E e \in Executors : Sites[w] = {e}

\* At most one execution of a workflow is running anywhere.
SingleExecution ==
    \A t, u \in Tasks : Live(t) /\ Live(u) /\ task[t].wf = task[u].wf => t = u

\* Somebody is responsible for every PENDING workflow: a running task, its executor's recovery
\* loop, or its executor's next launch. (It takes every handler on every executor, and no
\* database error: the one of a task's last statement leaves its row PENDING.)
PendingIsCovered ==
    \A w \in Workflows :
        workflow_status[w].status = "PENDING" =>
            \/ \E t \in Tasks : Live(t) /\ task[t].wf = w
            \/ \E e \in Executors :
                /\ workflow_status[w].executor_id = e
                /\ executor[e] = "down" \/ \E item \in recovering[e] : item.wf = w

\* The dead-letter limit bounds executions: a workflow is begun at most 1 + max_retries times
\* (recovery number max_retries + 1 moves it to the dead-letter state instead). It does not hold for
\* queued workflows, whose claims are not counted.
StartsBounded ==
    MaxRetries > 0 => \A w \in Workflows : starts[w] <= MaxRetries + 1

\* The same for the workflows that never go through a queue.
DirectStartsBounded ==
    MaxRetries > 0 =>
        \A w \in Workflows : QueueSites[w] = {} => starts[w] <= MaxRetries + 1

\* A finished workflow stays as it finished: neither a later recovery nor a late task rewrites
\* its status or its output.
FinishedIsFinal ==
    [][\A w \in Workflows :
        workflow_status[w].status \in {"SUCCESS", "ERROR"} =>
            /\ workflow_status'[w].status = workflow_status[w].status
            /\ workflow_status'[w].output = workflow_status[w].output]_vars

\* A step's closure is never run again once its result is recorded (it may run again after a
\* crash that hit before the INSERT).
RecordedStepNotRerun ==
    [][\A t \in Tasks :
        task[t].at = "closure" /\ task'[t].at = "record" =>
            operation_outputs[task[t].wf][task[t].step_id] = None]_vars

\* A workflow that was accepted finishes, is cancelled or is dead-lettered, whatever crashes
\* happen on the way.
AcceptedFinishes ==
    \A w \in Workflows :
        Exists(w) ~> workflow_status[w].status \in
            {"SUCCESS", "ERROR", "CANCELLED", "MAX_RECOVERY_ATTEMPTS_EXCEEDED"}

====
