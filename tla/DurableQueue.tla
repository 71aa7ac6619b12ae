---- MODULE DurableQueue ----
(*
 * One durable queue (one partition of it) and the queue runner of every executor: the poll loop
 * of runtime/queue.rs over the dequeue transaction of db/queue.rs.
 *
 * A dequeue iteration is four actions, one per point where other sessions can interleave:
 * Promote (autocommit UPDATE, then the in-memory worker count is read), Count (the counting
 * queries, which fix the transaction's snapshot), Select (SELECT ... FOR UPDATE, which takes row
 * locks) and Claim (the UPDATEs, COMMIT and the dispatch of the claimed workflows). With a global
 * concurrency or a rate limit the transaction is REPEATABLE READ: it sees the rows of its
 * snapshot and fails when it locks one that was changed since.
 *
 * Workflows are numbered in the order in which they were enqueued, so created_at is the number.
 * Time is abstract: a delay elapses, and a start leaves the rate limiter's trailing window, at
 * any moment. Priorities, delays and the queue's limits are constants. A workflow's body is
 * opaque (WorkflowEngine models it), and all executors run one application version.
 *)
EXTENDS Integers, FiniteSets

CONSTANTS
    Executors,                  \* executor ids
    NumWorkflows,               \* bound on enqueued workflows
    Priority,                   \* Priority[w]: smaller is served first, 0 by default
    Delayed,                    \* workflows enqueued with a delay
    Registered,                 \* Registered[e]: workflows that executor e has a handler for
    None,                       \* no limit, no executor
    WorkerConcurrency,          \* worker_concurrency, or None
    GlobalConcurrency,          \* global_concurrency, or None
    RateLimit,                  \* rate_limit.limit, or None
    MaxTasksPerIteration,       \* max_tasks_per_iteration
    MaxDisruptions              \* bound on crashes and cancel requests together

Workflows == 1 .. NumWorkflows

ASSUME QueueAssumption ==
    /\ NumWorkflows \in Nat
    /\ Priority \in [Workflows -> Nat]
    /\ Delayed \subseteq Workflows
    /\ Registered \in [Executors -> SUBSET Workflows]
    /\ None \notin Executors \cup Nat
    /\ {WorkerConcurrency, GlobalConcurrency, RateLimit} \subseteq Nat \cup {None}
    /\ MaxTasksPerIteration \in Nat
    /\ MaxDisruptions \in Nat

VARIABLES
    row,            \* the rows of this queue in workflow_status
    elapsed,        \* workflows whose delay_until_epoch_ms is past
    runner,         \* runner[e]: where executor e's poll loop stands and what it holds
    tasks,          \* tasks[e][w]: the spawned task of w on e, if any
    worker_counts,  \* worker_counts[e]: the in-memory count of running workflows
    overtaken,      \* history: a row joined the queue ahead of rows being claimed
    disruptions     \* crashes and cancel requests so far, for the bound

vars == <<row, elapsed, runner, tasks, worker_counts, overtaken, disruptions>>

\* "FINISHED" stands for SUCCESS and ERROR, which the queue does not tell apart.
Statuses == {"ABSENT", "DELAYED", "ENQUEUED", "PENDING", "FINISHED", "CANCELLED"}

\* recent: started_at_epoch_ms lies in the rate limiter's window.
Row == [status : Statuses, executor_id : Executors \cup {None}, recent : BOOLEAN]

Places == {"down", "launch", "sleep", "count", "select", "claim"}

\* local, quota and num_recent are the locals of the same names (quota: max_tasks); snap is the
\* set of ENQUEUED rows the transaction sees, stale the rows changed since, locked the rows it
\* holds; todo are the rows recovery has still to put back.
Runner == [at : Places, local : Nat, quota : Nat, num_recent : Nat,
           snap : SUBSET Workflows, stale : SUBSET Workflows, locked : SUBSET Workflows,
           todo : SUBSET Workflows]

Resting(place) == [at |-> place, local |-> 0, quota |-> 0, num_recent |-> 0, snap |-> {},
                   stale |-> {}, locked |-> {}, todo |-> {}]

\* Rows, runners and tasks are well formed, and the worker counts never go below zero (dec_worker
\* is called only for a workflow that inc_worker counted).
TypeOK ==
    /\ row \in [Workflows -> Row]
    /\ elapsed \subseteq Workflows
    /\ runner \in [Executors -> Runner]
    /\ tasks \in [Executors -> [Workflows -> {"none", "running", "written"}]]
    /\ worker_counts \in [Executors -> Nat]
    /\ overtaken \in BOOLEAN
    /\ disruptions \in Nat

WithStatus(S) == {w \in Workflows : row[w].status \in S}

Locked(w) == \E e \in Executors : w \in runner[e].locked

\* ORDER BY priority ASC, created_at ASC.
Before(v, w) ==
    \/ Priority[v] < Priority[w]
    \/ Priority[v] = Priority[w] /\ v < w

\* The first k rows of S in that order (LIMIT k).
First(k, S) == {w \in S : Cardinality({v \in S : Before(v, w)}) < k}

\* Every open transaction notes that the rows in S have changed under it.
Touch(runners, S) ==
    [e \in Executors |->
        IF runners[e].at \in {"select", "claim"}
        THEN [runners[e] EXCEPT !.stale = @ \cup S]
        ELSE runners[e]]

\* A row joins the queue ahead of one that an open transaction may be claiming.
Overtakes(S) ==
    \E e \in Executors, v \in S, w \in Workflows :
        /\ runner[e].at \in {"select", "claim"}
        /\ w \in runner[e].snap
        /\ Before(v, w)

Init ==
    /\ row = [w \in Workflows |-> [status |-> "ABSENT", executor_id |-> None, recent |-> FALSE]]
    /\ elapsed = {}
    /\ runner = [e \in Executors |-> Resting("down")]
    /\ tasks = [e \in Executors |-> [w \in Workflows |-> "none"]]
    /\ worker_counts = [e \in Executors |-> 0]
    /\ overtaken = FALSE
    /\ disruptions = 0

----
(* Clients *)

\* enqueue_workflow of the runtime or of a client: the next row.
Enqueue ==
    \E w \in WithStatus({"ABSENT"}) :
        /\ \A v \in Workflows : v < w => row[v].status # "ABSENT"
        /\ row' = [row EXCEPT ![w].status = IF w \in Delayed THEN "DELAYED" ELSE "ENQUEUED"]
        /\ overtaken' = (overtaken \/ (w \notin Delayed /\ Overtakes({w})))
        /\ UNCHANGED <<elapsed, runner, tasks, worker_counts, disruptions>>

\* delay_until_epoch_ms of w passes.
DelayElapses(w) ==
    /\ row[w].status = "DELAYED"
    /\ w \notin elapsed
    /\ elapsed' = elapsed \cup {w}
    /\ UNCHANGED <<row, runner, tasks, worker_counts, overtaken, disruptions>>

\* The start of w leaves the rate limiter's trailing window.
WindowPasses(w) ==
    /\ row[w].recent
    /\ row' = [row EXCEPT ![w].recent = FALSE]
    /\ UNCHANGED <<elapsed, runner, tasks, worker_counts, overtaken, disruptions>>

\* cancel_workflow. Its UPDATE waits for a row lock.
Cancel(w) ==
    /\ disruptions < MaxDisruptions
    /\ disruptions' = disruptions + 1
    /\ row[w].status \in {"DELAYED", "ENQUEUED", "PENDING"}
    /\ ~Locked(w)
    /\ row' = [row EXCEPT ![w] = [@ EXCEPT !.status = "CANCELLED", !.recent = FALSE]]
    /\ runner' = Touch(runner, {w})
    /\ UNCHANGED <<elapsed, tasks, worker_counts, overtaken>>

----
(* The poll loop *)

\* transition_delayed_workflows for the whole table, then worker_count.
Promote(e) ==
    LET due == {w \in elapsed : row[w].status = "DELAYED"}
    IN  /\ runner[e].at = "sleep"
        /\ row' = [w \in Workflows |->
                IF w \in due THEN [row[w] EXCEPT !.status = "ENQUEUED"] ELSE row[w]]
        /\ runner' = [Touch(runner, due) EXCEPT ![e] =
                [@ EXCEPT !.at = "count", !.local = worker_counts[e]]]
        /\ overtaken' = (overtaken \/ Overtakes(due))
        /\ UNCHANGED <<elapsed, tasks, worker_counts, disruptions>>

MinOf(a, b) == IF a < b THEN a ELSE b

\* At least 0.
Positive(n) == IF n < 0 THEN 0 ELSE n

\* Mutant.
MaxTasksUncounted(local, pending) ==
    LET base == IF WorkerConcurrency = None THEN MaxTasksPerIteration ELSE WorkerConcurrency
    IN  IF GlobalConcurrency = None
        THEN base
        ELSE MinOf(base, Positive(GlobalConcurrency - pending))

\* max_tasks: the worker limit replaces max_tasks_per_iteration, the global limit caps it.
MaxTasks(local, pending) ==
    LET base == IF WorkerConcurrency = None
                THEN MaxTasksPerIteration
                ELSE Positive(WorkerConcurrency - local)
    IN  IF GlobalConcurrency = None
        THEN base
        ELSE MinOf(base, Positive(GlobalConcurrency - pending))

\* The rows whose start counts against the rate limit.
Recent == {w \in Workflows : row[w].recent /\ row[w].status \notin {"ENQUEUED", "DELAYED"}}

RateOpen(num_recent) == RateLimit = None \/ num_recent < RateLimit

\* The rate gate and max_tasks. The iteration ends here when it may claim nothing.
Count(e) ==
    LET num_recent == IF RateLimit = None THEN 0 ELSE Cardinality(Recent)
        quota == MaxTasks(runner[e].local, Cardinality(WithStatus({"PENDING"})))
    IN  /\ runner[e].at = "count"
        /\ runner' = [runner EXCEPT ![e] =
                IF RateOpen(num_recent) /\ quota > 0
                THEN [@ EXCEPT !.at = "select", !.quota = quota, !.num_recent = num_recent,
                               !.snap = WithStatus({"ENQUEUED"})]
                ELSE Resting("sleep")]
        /\ UNCHANGED <<row, elapsed, tasks, worker_counts, overtaken, disruptions>>

Snapshot == GlobalConcurrency # None \/ RateLimit # None

\* Mutant.
SkipsLockedAlways == TRUE

\* FOR UPDATE SKIP LOCKED, or NOWAIT under a global limit.
SkipsLocked == GlobalConcurrency = None

\* The SELECT. A row changed since the snapshot (serialization failure), or under NOWAIT one that
\* is locked (lock not available), is contention: the transaction is rolled back and the loop
\* sleeps. An iteration that finds nothing is rolled back too.
Select(e) ==
    LET mine == runner[e]
        seen == IF Snapshot THEN mine.snap ELSE WithStatus({"ENQUEUED"})
        changed == IF Snapshot THEN mine.stale ELSE {}
        free == {w \in seen : ~Locked(w)}
        wanted == First(mine.quota, IF SkipsLocked THEN free ELSE seen)
        granted == wanted # {} /\ wanted \subseteq free \ changed
    IN  /\ mine.at = "select"
        /\ runner' = [runner EXCEPT ![e] =
                IF granted THEN [@ EXCEPT !.at = "claim", !.locked = wanted] ELSE Resting("sleep")]
        /\ UNCHANGED <<row, elapsed, tasks, worker_counts, overtaken, disruptions>>

\* The claim loop stops when the window is full.
Claimable(r) ==
    IF RateLimit = None THEN r.locked ELSE First(RateLimit - r.num_recent, r.locked)

\* inc_worker for every workflow of S.
inc_worker(e, S) == worker_counts' = [worker_counts EXCEPT ![e] = @ + Cardinality(S)]

\* The claims, COMMIT, and dispatch_dequeued for each workflow claimed: a registered one gets a
\* task and a worker slot, another one is left PENDING.
Claim(e) ==
    LET claimed == Claimable(runner[e])
        started == claimed \cap Registered[e]
    IN  /\ runner[e].at = "claim"
        /\ row' = [w \in Workflows |->
                IF w \in claimed
                THEN [status |-> "PENDING", executor_id |-> e, recent |-> RateLimit # None]
                ELSE row[w]]
        /\ runner' = [Touch(runner, claimed) EXCEPT ![e] = Resting("sleep")]
        /\ tasks' = [tasks EXCEPT ![e] =
                [w \in Workflows |-> IF w \in started THEN "running" ELSE @[w]]]
        /\ inc_worker(e, started)
        /\ UNCHANGED <<elapsed, overtaken, disruptions>>

----
(* Workflow tasks *)

\* The body ended and update_workflow_outcome ran; a cancellation is kept.
WriteOutcome(e, w) ==
    /\ tasks[e][w] = "running"
    /\ ~Locked(w)
    /\ row' = [row EXCEPT ![w].status = IF @ = "CANCELLED" THEN @ ELSE "FINISHED"]
    /\ runner' = Touch(runner, {w})
    /\ tasks' = [tasks EXCEPT ![e][w] = "written"]
    /\ UNCHANGED <<elapsed, worker_counts, overtaken, disruptions>>

\* Mutant.
DecWorkerForgotten(e, w) ==
    /\ tasks[e][w] = "written"
    /\ tasks' = [tasks EXCEPT ![e][w] = "none"]
    /\ UNCHANGED <<row, elapsed, runner, worker_counts, overtaken, disruptions>>

\* dec_worker, the task's last statement.
DecWorker(e, w) ==
    /\ tasks[e][w] = "written"
    /\ tasks' = [tasks EXCEPT ![e][w] = "none"]
    /\ worker_counts' = [worker_counts EXCEPT ![e] = @ - 1]
    /\ UNCHANGED <<row, elapsed, runner, overtaken, disruptions>>

----
(* Crash and restart *)

\* The process dies; an open transaction is rolled back.
Crash(e) ==
    /\ disruptions < MaxDisruptions
    /\ disruptions' = disruptions + 1
    /\ runner[e].at # "down"
    /\ runner' = [runner EXCEPT ![e] = Resting("down")]
    /\ tasks' = [tasks EXCEPT ![e] = [w \in Workflows |-> "none"]]
    /\ worker_counts' = [worker_counts EXCEPT ![e] = 0]
    /\ UNCHANGED <<row, elapsed, overtaken>>

\* Mutant.
LaunchAnyOwner(e) ==
    /\ runner[e].at = "down"
    /\ runner' = [runner EXCEPT ![e] =
            [Resting("launch") EXCEPT !.todo = WithStatus({"PENDING"})]]
    /\ UNCHANGED <<row, elapsed, tasks, worker_counts, overtaken, disruptions>>

\* launch lists the PENDING rows of this executor.
Launch(e) ==
    /\ runner[e].at = "down"
    /\ runner' = [runner EXCEPT ![e] = [Resting("launch") EXCEPT !.todo =
            {w \in WithStatus({"PENDING"}) : row[w].executor_id = e}]]
    /\ UNCHANGED <<row, elapsed, tasks, worker_counts, overtaken, disruptions>>

\* clear_queue_assignment for one of them: back to ENQUEUED, started_at forgotten.
Requeue(e) ==
    \E w \in runner[e].todo :
        /\ row' = [row EXCEPT ![w] =
                IF @.status = "PENDING" THEN [@ EXCEPT !.status = "ENQUEUED", !.recent = FALSE]
                ELSE @]
        /\ runner' = [Touch(runner, {w}) EXCEPT ![e].todo = @ \ {w}]
        /\ UNCHANGED <<elapsed, tasks, worker_counts, overtaken, disruptions>>

\* Recovery done: launch spawns the queue runner.
StartRunner(e) ==
    /\ runner[e].at = "launch"
    /\ runner[e].todo = {}
    /\ runner' = [runner EXCEPT ![e] = Resting("sleep")]
    /\ UNCHANGED <<row, elapsed, tasks, worker_counts, overtaken, disruptions>>

----
(* The specification *)

RunnerStep(e) == Promote(e) \/ Count(e) \/ Select(e) \/ Claim(e)

LaunchStep(e) == Launch(e) \/ Requeue(e) \/ StartRunner(e)

TaskStep(e, w) == WriteOutcome(e, w) \/ DecWorker(e, w)

Next ==
    \/ Enqueue
    \/ \E w \in Workflows : DelayElapses(w) \/ WindowPasses(w) \/ Cancel(w)
    \/ \E e \in Executors : RunnerStep(e) \/ LaunchStep(e) \/ Crash(e)
    \/ \E e \in Executors, w \in Workflows : TaskStep(e, w)

Spec == Init /\ [][Next]_vars

\* The loops keep polling, bodies end, time passes and a crashed executor is restarted.
Fairness ==
    /\ \A e \in Executors : WF_vars(RunnerStep(e)) /\ WF_vars(LaunchStep(e))
    /\ \A e \in Executors, w \in Workflows : WF_vars(TaskStep(e, w))
    /\ \A w \in Workflows : WF_vars(DelayElapses(w)) /\ WF_vars(WindowPasses(w))

FairSpec == Spec /\ Fairness

----
(* Properties *)

\* Max concurrent (PENDING) workflows across all executors. It does not hold when a row joins the queue
\* ahead of the ones that a dequeue transaction is claiming.
GlobalLimitHolds ==
    GlobalConcurrency # None => Cardinality(WithStatus({"PENDING"})) <= GlobalConcurrency

\* The global limit holds as long as no row joins the queue ahead of rows an open dequeue
\* transaction sees: concurrent runners then want the same first row, and NOWAIT or the snapshot
\* makes all but one of them give up.
InOrderGlobalLimitHolds == ~overtaken => GlobalLimitHolds

\* worker_concurrency bounds the workflows running in one process, although the count is read
\* before the dequeue transaction and used after it.
WorkerLimitHolds ==
    WorkerConcurrency # None =>
        \A e \in Executors :
            Cardinality({w \in Workflows : tasks[e][w] # "none"}) <= WorkerConcurrency

\* At most RateLimit workflows start within one period, whichever executors start them. It does not hold
\* without a global limit: runners that count the same recent starts skip each other's locked rows.
RateLimitHolds ==
    RateLimit # None => Cardinality(Recent) <= RateLimit

\* A workflow is run by one executor at a time: a claim, a restart's requeue and a crash never
\* leave two tasks for it.
ClaimedOnce ==
    \A w \in Workflows, d, e \in Executors :
        tasks[d][w] = "running" /\ tasks[e][w] = "running" => d = e

\* Contention, limits, crashes and restarts delay a queued workflow but never strand it.
QueuedFinishes ==
    \A w \in Workflows :
        row[w].status \in {"DELAYED", "ENQUEUED"} ~> row[w].status \in {"FINISHED", "CANCELLED"}

====
