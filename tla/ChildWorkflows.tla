---- MODULE ChildWorkflows ----
(*
 * Parents that start child workflows and await their handles: run_workflow of a WorkflowContext
 * (replay lookup, then the row and the parent's mapping in one transaction), the owned handle fed
 * by the child's task, the polling handle, and both under crashes, recovery, cancellation,
 * dead-lettering and panics.
 *
 * A parent's body starts the children ChildOf[p] one after the other, each at the step id of its
 * position, and awaits each before the next; an error is propagated with `?`. A child's body is one
 * step. What races the two queries and the closure of a step meet is the subject of WorkflowEngine;
 * a step here is a check and a record. resume, queues and deletion are left to other modules.
 *)
EXTENDS Naturals, Sequences, FiniteSets

CONSTANTS
    Executors,      \* executor ids
    Parents,        \* parent workflow ids
    Children,       \* child workflow ids
    ChildOf,        \* ChildOf[p]: the child ids that the body of p starts, in order
    Tasks,          \* slots for spawned workflow tasks
    MaxRetries,     \* MaxRetries[w]: max_retries of the registry entry, 0 disables the dead-letter queue
    Sites,          \* Sites[p]: executors where the application calls run_workflow for p
    Registered,     \* Registered[e]: workflows that executor e has a handler for
    MaxCrashes,     \* bound on executor crashes
    MaxRecoveries,  \* bound on recovery requests to a running executor
    MaxCancels,     \* bound on cancel requests
    MaxPanics,      \* bound on panicking bodies
    MaxDisruptions  \* bound on all of these together

Workflows == Parents \cup Children

ASSUME ChildAssumption ==
    /\ Parents \cap Children = {}
    /\ "none" \notin Workflows \cup Executors
    /\ \A p \in Parents : ChildOf[p] \in Seq(Children) /\ ChildOf[p] # <<>>
    /\ Tasks \subseteq Nat \ {0}
    /\ MaxRetries \in [Workflows -> Nat]
    /\ \A e \in Executors : Registered[e] \subseteq Workflows
    /\ {MaxCrashes, MaxRecoveries, MaxCancels, MaxPanics, MaxDisruptions} \subseteq Nat

VARIABLES
    workflow_status,    \* the table, by workflow id
    child_workflow_id,  \* [p][n]: the child recorded at position n of p, or "none"
    step_output,        \* [c]: the recorded result of the step of child c, or "none"
    executor,           \* "down", "launching" (recovery awaited) or "up"
    recovering,         \* listed workflows that a recovery has still to handle
    task,               \* the spawned workflow tasks
    observed,           \* history: [p][n]: what get_result returned for the n-th child of p
    disturbed,          \* history: workflows cancelled, or listed by a recovery request
    used                \* history: crashes, requests, panics so far, for the bounds

tables == <<workflow_status, child_workflow_id, step_output>>
vars == <<tables, executor, recovering, task, observed, disturbed, used>>

Positions(p) == 1..Len(ChildOf[p])

Statuses == {"ABSENT", "PENDING", "SUCCESS", "ERROR", "CANCELLED", "MAX_RECOVERY_ATTEMPTS_EXCEEDED"}
Terminal == Statuses \ {"ABSENT", "PENDING"}

AbsentRow == [status |-> "ABSENT", recovery_attempts |-> 0, executor_id |-> "none"]
IdleTask == [at |-> "idle", wf |-> "none", on |-> "none", n |-> 0, rx |-> 0, ok |-> FALSE]

\* What get_result can return: the child's success, its error, the cancellation, or the dead-letter
\* error with the retry limit it reports.
Outcomes == {<<"ok">>, <<"err">>, <<"cancelled">>} \cup ({"dead_letter"} \X Nat)

Row == [status : Statuses, recovery_attempts : Nat, executor_id : Executors \cup {"none"}]
Task == [at : {"idle", "check_child", "start", "await", "poll", "check", "record", "outcome"},
         wf : Workflows \cup {"none"}, on : Executors \cup {"none"}, n : Nat, rx : Tasks \cup {0}, ok : BOOLEAN]

\* Well-formed tables, tasks and lists; only an owned handle has a channel.
TypeOK ==
    /\ workflow_status \in [Workflows -> Row]
    /\ child_workflow_id = [p \in Parents |-> child_workflow_id[p]]
    /\ observed = [p \in Parents |-> observed[p]]
    /\ \A p \in Parents : /\ child_workflow_id[p] \in [Positions(p) -> Children \cup {"none"}]
                          /\ observed[p] \in [Positions(p) -> SUBSET Outcomes]
    /\ step_output \in [Children -> {"none", "ok", "err"}]
    /\ executor \in [Executors -> {"down", "launching", "up"}]
    /\ recovering \in [Executors -> SUBSET Workflows]
    /\ task \in [Tasks -> Task]
    /\ \A t \in Tasks : /\ task[t].at # "idle" => task[t].wf \in Workflows /\ task[t].on \in Executors
                        /\ task[t].at = "await" <=> task[t].rx \in Tasks
    /\ disturbed \subseteq Workflows
    /\ used \in [{"crashes", "recoveries", "cancels", "panics"} -> Nat]

Init ==
    /\ workflow_status = [w \in Workflows |-> AbsentRow]
    /\ child_workflow_id = [p \in Parents |-> [n \in Positions(p) |-> "none"]]
    /\ step_output = [c \in Children |-> "none"]
    /\ executor = [e \in Executors |-> "up"]
    /\ recovering = [e \in Executors |-> {}]
    /\ task = [t \in Tasks |-> IdleTask]
    /\ observed = [p \in Parents |-> [n \in Positions(p) |-> {}]]
    /\ disturbed = {}
    /\ used = [b \in {"crashes", "recoveries", "cancels", "panics"} |-> 0]

Spend(b, max) ==
    /\ used[b] < max
    /\ used["crashes"] + used["recoveries"] + used["cancels"] + used["panics"] < MaxDisruptions
    /\ used' = [used EXCEPT ![b] = @ + 1]

----
(* start_workflow, the parts that parents, recovery and the application share. *)

\* The upsert of insert_workflow_status: a conflict takes executor_id over and adds the increment.
Upsert(w, e, increment) ==
    IF workflow_status[w].status = "ABSENT"
    THEN [status |-> "PENDING", recovery_attempts |-> 1, executor_id |-> e]
    ELSE [workflow_status[w] EXCEPT !.executor_id = e, !.recovery_attempts = @ + increment]

DeadLettered(w, row) ==
    /\ row.status \notin {"SUCCESS", "ERROR"}
    /\ MaxRetries[w] > 0
    /\ row.recovery_attempts > MaxRetries[w] + 1

Bury(row) ==
    [row EXCEPT !.status = IF @ = "PENDING" THEN "MAX_RECOVERY_ATTEMPTS_EXCEEDED" ELSE @]

\* The row is terminal, or (unless recovering) its owner_xid is not this call's: it existed before.
ShouldSkip(w, is_recovery) ==
    \/ workflow_status[w].status \in {"SUCCESS", "ERROR"}
    \/ ~is_recovery /\ workflow_status[w].status # "ABSENT"

FreshTask(w, e) ==
    [IdleTask EXCEPT !.at = IF w \in Parents THEN "check_child" ELSE "check",
                     !.wf = w, !.on = e, !.n = 1]

\* The slot a spawned task gets: the lowest free one (slots are interchangeable).
FreeTasks == {t \in Tasks : task[t].at = "idle" /\ \A s \in Tasks : task[s].at = "idle" => t <= s}

\* start_workflow without a parent.
StartWorkflow(w, e, is_recovery) ==
    LET row == Upsert(w, e, IF is_recovery THEN 1 ELSE 0) IN
    IF DeadLettered(w, row)
    THEN /\ workflow_status' = [workflow_status EXCEPT ![w] = Bury(row)]
         /\ UNCHANGED task
    ELSE /\ workflow_status' = [workflow_status EXCEPT ![w] = row]
         /\ IF ShouldSkip(w, is_recovery) THEN UNCHANGED task
            ELSE \E t \in FreeTasks : task' = [task EXCEPT ![t] = FreshTask(w, e)]

\* The application calls run_workflow for a parent; a second call for the same id is the takeover
\* that WorkflowEngine studies and is not made here.
run_workflow(e, p) ==
    /\ executor[e] = "up" /\ e \in Sites[p] /\ p \in Registered[e]
    /\ workflow_status[p].status = "ABSENT"
    /\ StartWorkflow(p, e, FALSE)
    /\ UNCHANGED <<child_workflow_id, step_output, executor, recovering, observed, disturbed, used>>

----
(* The parent's body. *)

\* get_result has returned o to the parent: go on with the next child, finish, or propagate.
Observe(r, o) ==
    IF o # <<"ok">> THEN [r EXCEPT !.at = "outcome", !.rx = 0, !.ok = FALSE]
    ELSE IF r.n = Len(ChildOf[r.wf]) THEN [r EXCEPT !.at = "outcome", !.rx = 0, !.ok = TRUE]
    ELSE [r EXCEPT !.at = "check_child", !.rx = 0, !.n = @ + 1]

Saw(t, o) == observed' = [observed EXCEPT ![task[t].wf][task[t].n] = @ \cup {o}]

check_child_workflow(p, n) == child_workflow_id[p][n]

\* run_workflow of the context: a recorded child is not started again, the parent gets a polling handle.
CheckChild(t) ==
    /\ task[t].at = "check_child"
    /\ task' = [task EXCEPT ![t].at =
          IF check_child_workflow(task[t].wf, task[t].n) # "none" THEN "poll" ELSE "start"]
    /\ UNCHANGED <<tables, executor, recovering, observed, disturbed, used>>

\* The primary key of operation_outputs admits one record per position.
record_child_workflow(p, n, c) ==
    /\ child_workflow_id[p][n] = "none"
    /\ child_workflow_id' = [child_workflow_id EXCEPT ![p][n] = c]

Fail(t) == task' = [task EXCEPT ![t].at = "outcome", ![t].ok = FALSE]

\* Mutant.
StartChildInTwoTransactions(t) ==
    LET p == task[t].wf
        c == ChildOf[p][task[t].n]
        row == Upsert(c, task[t].on, 0)
    IN
    /\ task[t].at = "start"
    /\ workflow_status' = [workflow_status EXCEPT ![c] = row]
    /\ IF child_workflow_id[p][task[t].n] # "none"
       THEN Fail(t) /\ UNCHANGED child_workflow_id
       ELSE /\ record_child_workflow(p, task[t].n, c)
            /\ IF ShouldSkip(c, FALSE)
               THEN task' = [task EXCEPT ![t].at = "poll"]
               ELSE \E s \in FreeTasks :
                      task' = [task EXCEPT ![s] = FreshTask(c, task[t].on),
                                           ![t].at = "await", ![t].rx = s]
    /\ UNCHANGED <<step_output, executor, recovering, observed, disturbed, used>>

\* start_workflow with a parent. The transaction holds the upsert and the mapping: a mapping that is
\* there already (another execution of the parent was faster) rolls both back with ConflictingId. A
\* dead-lettered child commits without a mapping.
StartChild(t) ==
    LET p == task[t].wf
        n == task[t].n
        c == ChildOf[p][n]
        e == task[t].on
        row == Upsert(c, e, 0)
    IN
    /\ task[t].at = "start"
    /\ \/ /\ c \notin Registered[e]
          /\ Fail(t)
          /\ UNCHANGED <<workflow_status, child_workflow_id>>
       \/ /\ c \in Registered[e] /\ DeadLettered(c, row)
          /\ workflow_status' = [workflow_status EXCEPT ![c] = Bury(row)]
          /\ Fail(t)
          /\ UNCHANGED child_workflow_id
       \/ /\ c \in Registered[e] /\ ~DeadLettered(c, row)
          /\ child_workflow_id[p][n] # "none"
          /\ Fail(t)
          /\ UNCHANGED <<workflow_status, child_workflow_id>>
       \/ /\ c \in Registered[e] /\ ~DeadLettered(c, row)
          /\ record_child_workflow(p, n, c)
          /\ workflow_status' = [workflow_status EXCEPT ![c] = row]
          /\ IF ShouldSkip(c, FALSE)
             THEN task' = [task EXCEPT ![t].at = "poll"]
             ELSE \E s \in FreeTasks :
                    task' = [task EXCEPT ![s] = FreshTask(c, e), ![t].at = "await", ![t].rx = s]
    /\ UNCHANGED <<step_output, executor, recovering, observed, disturbed, used>>

\* Mutant.
AwaitOutcomeRawAttempts(row) ==
    CASE row.status = "SUCCESS" -> <<"ok">>
      [] row.status = "ERROR" -> <<"err">>
      [] row.status = "CANCELLED" -> <<"cancelled">>
      [] OTHER -> <<"dead_letter", row.recovery_attempts>>

\* What get_result makes of a terminal row; the dead-letter error reports recovery_attempts - 2.
AwaitOutcome(row) ==
    CASE row.status = "SUCCESS" -> <<"ok">>
      [] row.status = "ERROR" -> <<"err">>
      [] row.status = "CANCELLED" -> <<"cancelled">>
      [] OTHER -> <<"dead_letter", row.recovery_attempts - 2>>

\* Mutant.
PollIgnoresDeadLetter(t) ==
    LET row == workflow_status[child_workflow_id[task[t].wf][task[t].n]] IN
    /\ task[t].at = "poll"
    /\ row.status \in {"SUCCESS", "ERROR", "CANCELLED"}
    /\ task' = [task EXCEPT ![t] = Observe(task[t], AwaitOutcome(row))]
    /\ Saw(t, AwaitOutcome(row))
    /\ UNCHANGED <<tables, executor, recovering, disturbed, used>>

\* await_workflow_result: the polling loop returns at the first terminal status and waits on any
\* other, an absent row included.
Poll(t) ==
    LET row == workflow_status[child_workflow_id[task[t].wf][task[t].n]] IN
    /\ task[t].at = "poll"
    /\ row.status \in Terminal
    /\ task' = [task EXCEPT ![t] = Observe(task[t], AwaitOutcome(row))]
    /\ Saw(t, AwaitOutcome(row))
    /\ UNCHANGED <<tables, executor, recovering, disturbed, used>>

----
(* The child's body, and the end of every task. *)

\* check_operation_execution: a cancelled workflow stops here, a recorded step is replayed.
CheckStep(t) ==
    LET c == task[t].wf IN
    /\ task[t].at = "check"
    /\ task' = [task EXCEPT ![t] =
          IF workflow_status[c].status = "CANCELLED" THEN [task[t] EXCEPT !.at = "outcome"]
          ELSE IF step_output[c] # "none"
          THEN [task[t] EXCEPT !.at = "outcome", !.ok = (step_output[c] = "ok")]
          ELSE [task[t] EXCEPT !.at = "record"]]
    /\ UNCHANGED <<tables, executor, recovering, observed, disturbed, used>>

\* The closure returns and its result is recorded, unless another execution has recorded first.
RecordStep(t) ==
    LET c == task[t].wf IN
    /\ task[t].at = "record"
    /\ \/ /\ step_output[c] = "none"
          /\ \E r \in {"ok", "err"} :
                /\ step_output' = [step_output EXCEPT ![c] = r]
                /\ task' = [task EXCEPT ![t].at = "outcome", ![t].ok = (r = "ok")]
       \/ /\ step_output[c] # "none"
          /\ Fail(t)
          /\ UNCHANGED step_output
    /\ UNCHANGED <<workflow_status, child_workflow_id, executor, recovering, observed, disturbed, used>>

\* The parents' tasks that hold the receiving end of task t.
Receivers(t) == {s \in Tasks : task[s].rx = t}

\* update_workflow_outcome (a cancellation is kept), then the result goes to the owned handle.
Outcome(t) ==
    LET w == task[t].wf
        o == IF task[t].ok THEN <<"ok">> ELSE <<"err">>
    IN
    /\ task[t].at = "outcome"
    /\ workflow_status' = [workflow_status EXCEPT ![w].status =
          IF @ = "CANCELLED" THEN @ ELSE IF task[t].ok THEN "SUCCESS" ELSE "ERROR"]
    /\ task' = [s \in Tasks |-> IF s = t THEN IdleTask
                                ELSE IF s \in Receivers(t) THEN Observe(task[s], o) ELSE task[s]]
    /\ IF Receivers(t) = {} THEN UNCHANGED observed
       ELSE \E s \in Receivers(t) : Saw(s, o)
    /\ UNCHANGED <<child_workflow_id, step_output, executor, recovering, disturbed, used>>

\* A body panics: no outcome is written, the channel closes and the owned handle falls back to polling.
Panic(t) ==
    /\ task[t].at \in {"check_child", "check", "record", "start", "await", "poll"}
    /\ Spend("panics", MaxPanics)
    /\ task' = [s \in Tasks |-> IF s = t THEN IdleTask
                                ELSE IF s \in Receivers(t) THEN [task[s] EXCEPT !.at = "poll", !.rx = 0]
                                ELSE task[s]]
    /\ UNCHANGED <<tables, executor, recovering, observed, disturbed>>

TaskStep(t) ==
    \/ CheckChild(t) \/ StartChild(t) \/ Poll(t) \/ CheckStep(t) \/ RecordStep(t) \/ Outcome(t)

----
(* Crashes, recovery and operator requests. *)

list_pending_for_recovery(e) ==
    {w \in Workflows : workflow_status[w].status = "PENDING" /\ workflow_status[w].executor_id = e}

Crash(e) ==
    /\ executor[e] # "down"
    /\ Spend("crashes", MaxCrashes)
    /\ executor' = [executor EXCEPT ![e] = "down"]
    /\ recovering' = [recovering EXCEPT ![e] = {}]
    /\ task' = [t \in Tasks |-> IF task[t].on = e THEN IdleTask ELSE task[t]]
    /\ UNCHANGED <<tables, observed, disturbed>>

Launch(e) ==
    /\ executor[e] = "down"
    /\ executor' = [executor EXCEPT ![e] = "launching"]
    /\ recovering' = [recovering EXCEPT ![e] = list_pending_for_recovery(e)]
    /\ UNCHANGED <<tables, task, observed, disturbed, used>>

\* One turn of the loop of recover_pending_workflows, in the order the rows happened to come.
RecoverOne(e) ==
    \E w \in recovering[e] :
        /\ recovering' = [recovering EXCEPT ![e] = @ \ {w}]
        /\ IF w \in Registered[e] THEN StartWorkflow(w, e, TRUE)
           ELSE UNCHANGED <<workflow_status, task>>
        /\ UNCHANGED <<child_workflow_id, step_output, executor, observed, disturbed, used>>

FinishLaunch(e) ==
    /\ executor[e] = "launching" /\ recovering[e] = {}
    /\ executor' = [executor EXCEPT ![e] = "up"]
    /\ UNCHANGED <<tables, recovering, task, observed, disturbed, used>>

\* A conductor or admin request: executor e recovers the workflows of executor d, dead or alive.
RecoverRequest(e, d) ==
    /\ executor[e] = "up" /\ recovering[e] = {}
    /\ Spend("recoveries", MaxRecoveries)
    /\ recovering' = [recovering EXCEPT ![e] = list_pending_for_recovery(d)]
    /\ disturbed' = disturbed \cup list_pending_for_recovery(d)
    /\ UNCHANGED <<tables, executor, task, observed>>

cancel_workflows(w) ==
    /\ workflow_status[w].status \notin {"ABSENT", "SUCCESS", "ERROR", "CANCELLED"}
    /\ Spend("cancels", MaxCancels)
    /\ workflow_status' = [workflow_status EXCEPT ![w].status = "CANCELLED"]
    /\ disturbed' = disturbed \cup {w}
    /\ UNCHANGED <<child_workflow_id, step_output, executor, recovering, task, observed>>

Next ==
    \/ \E e \in Executors :
          \/ \E p \in Parents : run_workflow(e, p)
          \/ Crash(e) \/ Launch(e) \/ RecoverOne(e) \/ FinishLaunch(e)
          \/ \E d \in Executors : RecoverRequest(e, d)
    \/ \E t \in Tasks : TaskStep(t) \/ Panic(t)
    \/ \E w \in Workflows : cancel_workflows(w)

\* tokio polls tasks and the recovery loop while the process lives; a crashed executor is relaunched.
Fairness ==
    /\ \A t \in Tasks : WF_vars(TaskStep(t))
    /\ \A e \in Executors : WF_vars(Launch(e)) /\ WF_vars(RecoverOne(e)) /\ WF_vars(FinishLaunch(e))

Spec == Init /\ [][Next]_vars /\ Fairness

----
(* Properties. *)

\* A PENDING workflow is never out of reach: a task runs it, or a recovery that is due or under way on
\* the executor of its row will pick it up. An execution of the parent that loses the race for a child
\* must not move the child's executor_id. A panic is the one exception, and only while its executor lives.
PendingIsReachable ==
    used["panics"] = 0 =>
        \A w \in Workflows : workflow_status[w].status = "PENDING" =>
            \/ \E t \in Tasks : task[t].wf = w
            \/ executor[workflow_status[w].executor_id] = "down"
            \/ \E e \in Executors : w \in recovering[e] /\ executor[e] = "launching"

\* All executions of a parent, replayed after a crash or overlapping through a recovery request, are told
\* the same outcome of a child, although get_result is not a recorded step and one answer may come from
\* the channel of the child's task and another from the row; and a dead-lettered child is reported with
\* the limit it exceeded. Only a child that was itself cancelled or taken on by a recovery request is excepted.
ReplayedResultAgrees ==
    \A p \in Parents : \A n \in DOMAIN observed[p] : ChildOf[p][n] \notin disturbed =>
        /\ Cardinality(observed[p][n]) <= 1
        /\ \A o \in observed[p][n] : o[1] = "dead_letter" => o[2] = MaxRetries[ChildOf[p][n]]

\* DESIGN.md, 6.4: get_result in a workflow is a recorded step "so the parent's replay is deterministic".
\* It is not recorded, and this does not hold: see the README.
GetResultIsDeterministic == \A p \in Parents : \A n \in DOMAIN observed[p] : Cardinality(observed[p][n]) <= 1

\* Every started workflow ends, through crashes, replays and lost races, unless a body panicked in an
\* executor that lives on.
StartedFinishes ==
    \A w \in Workflows :
        (workflow_status[w].status = "PENDING") ~> (workflow_status[w].status \in Terminal
                                                     \/ used["panics"] > 0)
====
