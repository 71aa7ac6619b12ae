# Verification of dbos-transact-rs

TLA+ models of the durable-execution library in `src/crates/dbos`, TLC runs that check them on small
instances, and TLAPS proofs of every safety property that a passing run checks, for every instance. `PROJECT.json` lists the runs, the
source lines behind every definition, the hazards the properties are for, and the disagreements
between documents and code that the runs show.

## The system

dbos-transact-rs runs async Rust functions as durable workflows. All durable state is in Postgres;
executors (processes) share the tables and coordinate through them alone.

| Component | State | Operations | Interacts with |
|---|---|---|---|
| workflow engine (`runtime/workflow.rs`, `db/status.rs`) | `workflow_status`; spawned tasks | `start_workflow`, `enqueue_workflow`, `insert_workflow_status` (upsert and dead-letter check), `update_workflow_outcome` | steps, recovery, queues, management |
| steps (`runtime/context.rs`, `runtime/step.rs`, `db/steps.rs`) | `operation_outputs`, the task's step counter | `run_step`, `run_step_with`, `check_operation_execution`, `record_operation_result` | engine |
| recovery (`runtime/recovery.rs`) | a list read once | `recover_pending_workflows` at launch and on request, `clear_queue_assignment` | engine, queues |
| queues (`runtime/queue.rs`, `db/queue.rs`) | queue columns of `workflow_status`, `worker_counts` in memory | `run_queue`, `dequeue_workflows`, `dispatch_dequeued` | engine |
| management (`db/management.rs`) | none of its own | cancel, resume, fork, delete, garbage collection, listing | engine, queues, events, streams |
| messages, events, sleep (`runtime/context.rs`, `db/notifications.rs`) | `notifications`, `workflow_events`, deadlines as steps | `send`, `recv`, `set_event`, `get_event`, `sleep` | listener |
| listener (`runtime/listener.rs`) | waiter registries | `run_listener`, `wake_all`, `WaiterGuard` | waiting operations |
| streams (`db/streams.rs`) | `streams` | `write_stream`, `close_stream`, the readers | engine (producer status) |
| handles, child workflows (`runtime/workflow.rs`, `db/steps.rs`) | `child_workflow_id` of a step, a channel per owned handle | `get_result`, `await_workflow_result`, `run_workflow` in a workflow | engine, recovery |
| control plane (`runtime/admin.rs`, `runtime/conductor.rs`) | one websocket session, HTTP handlers | recovery, cancel, resume, delete, retention, deactivate | management, recovery |
| launch, scheduler, shutdown, configuration (`runtime/mod.rs`, `runtime/scheduler.rs`, `config.rs`) | identity of a process, tokens, task tracker, last tick | `launch`, `run_scheduler`, `shutdown`, `process_config` | engine, recovery |
| migrations (`db/migrate.rs`) | `dbos_migrations`, the schema | `run_migrations`, `cleanup_invalid_indexes` | every launch |
| serialization, errors (`serialize.rs`, `error.rs`) | payload columns and their `serialization` name | encode and decode values, inputs, errors | engine, steps, messages, other SDKs |
| client, telemetry | connections | call the operations above | queues, management |

What is hard here: two executions of one workflow can overlap (a recovery request for a live
executor, a resume of a running workflow, a shared executor id); executors crash between any two
statements; lists, counts and snapshots are stale when they are used; cancels race outcomes;
notifications and connections get lost; limits are enforced from counts that another session changes;
schema changes run without a lock; rows of other SDKs and other versions share the tables. Correct
means:

- engine and steps: all executions agree on step results, success is backed by a complete log, a
  cancellation is kept, a finished workflow stays finished, an accepted one finishes, restarts are
  bounded;
- queues: limits hold, one claim per workflow, contention and crashes strand nothing;
- messages and events: exactly once, in order, the latest event wins, waiters are woken;
- streams: one entry per step, nothing after the close, readers see a gapless stream and end;
- children and handles: a child is started once and never stranded, a replayed parent is told the same;
- management: a fork is what its copied steps made it, a success answer is true, collection spares
  active and recent rows;
- lifecycle: a drained shutdown cuts no run short, no tick is skipped, what a crash interrupts is finished;
- migrations: the version row is backed by the schema, relaunching completes it;
- serialization: inputs arrive, outcomes can be read, replay returns what was seen.

## Modules

| Module | What it is |
|---|---|
| `DurableExecution` | abstract specification of the engine: per workflow an append-only, in-order log of step results and a phase |
| `WorkflowEngine` | executors, tasks, steps, crashes, recovery, queue claims, cancel and resume over the two tables; implements `DurableExecution` |
| `DurableQueue` | one queue and every executor's runner: the dequeue transaction split at its interleaving points |
| `Messaging` | `send`, `recv`, `set_event`, `get_event`, `sleep` and the listener |
| `Streams` | one stream, its producer's executions and its readers |
| `ChildWorkflows` | parents, children, mappings, owned and polling handles, panics, recovery |
| `Fork` | `fork_workflow` statement by statement against a running original |
| `ControlPlane` | the conductor session and the admin server over the management statements |
| `Lifecycle` | configuration, launch, one schedule, deactivation, shutdown and crashes of several processes |
| `SchemaHistory` | the table of the 40 embedded migrations: which are online, repeatable, which indexes they touch |
| `Migrations` | `run_migrations` of concurrent launches over such a table |
| `Serialization` | formats, envelopes and errors of payloads through a run, a replay and a reader |
| `WorkflowEngineProofs`, `DurableQueueProofs`, `MessagingProofs`, `StreamsProofs`, `ChildWorkflowsProofs`, `ForkProofs`, `LifecycleProofs`, `SerializationProofs` | theorems about the module of the same name; `LifecycleProofs` also about `Migrations`, which `launch` runs first, and `ForkProofs` about `ControlPlane` |
| `MC*` | constants for TLC |

Every transaction or autocommit statement is one action; what a task holds between two of them is
in its record. The operators keep the source's names (`start_workflow`, `list_pending_for_recovery`,
`inc_worker`, `consume_oldest_notification`, ...). `Migrations` and `ControlPlane` prefix the usual names
(`MigrationSpec`, `ControlSpec`), since a proof module extends each of them beside another component. Operators marked "Mutant" are deliberately wrong
versions of the definition that follows; nothing refers to them, they document which mistake each
property would catch (`PROJECT.json`, "mutants").

**WorkflowEngine.** `workflow_status[w]` holds the columns the control flow reads, `task[t]` a
spawned task. A task cycles through `check_status` and `check_output` (the two queries of
`check_operation_execution`), `closure` and `record`, and ends in `outcome`. `Upsert`, `DeadLettered`,
`Bury` and `ShouldSkip` are the pieces of `insert_workflow_status` and `start_workflow`; `Launch`,
`RecoverOne`, `FinishLaunch` are `launch` with its awaited recovery over a list that is stale when it
is used. `CheckFault`, `RecordFault`, `OutcomeFault` are database errors, including a committed
statement whose reply is lost. A body is `NumSteps` steps; its output is represented by the results
it saw. A body propagates errors with `?`, or (workflows in `Tolerant`) swallows them.

**DurableQueue.** An iteration is `Promote`, `Count`, `Select`, `Claim`. A row's `stale` membership
and `locked` sets model REPEATABLE READ, `SKIP LOCKED` and `NOWAIT`. Time is two free actions
(`DelayElapses`, `WindowPasses`).

**Messaging.** A workflow is a program of operations; executions of it start at any time in any
process. A waiter's `Notified` future exists from `probe` on and is set by `notify_waiters` only while
the task is attached to a registry entry.

**Streams.** Readers alternate between the two queries of their loop; the producer's executions
overlap, crash and are cancelled.

**ChildWorkflows.** A parent's task checks the mapping, then `StartChild` commits the child's row and
the mapping together, or neither. `rx` is the receiving end of the child's channel; a panic or a crash
closes it and the handle falls back to `Poll`. `observed` keeps what `get_result` told each position
of the parent, over all its executions; `disturbed` the workflows that were cancelled or listed by a
recovery request.

**Fork.** The call stages its copy between `InsertFork` and `CommitFork`; every copy statement reads
what is committed at its own time. `Locked` is the row lock of the `was_forked_from` update, which
holds back outcomes, cancels and deletions of the original, but not its steps. A stream is a set of rows
with their offsets; the copy keeps the offsets, and the next write takes the largest plus one.

**ControlPlane.** A handler is at one statement of one request. `due` records what the request was
about when it arrived and drops each workflow once it has been in the state asked for, so a success
reply with something left in `due` is a false one.

**Lifecycle.** Time counts the ticks of a schedule and the workflow of a tick is a row. A process has
an identity from `process_config`, a scheduler loop, runs, and a phase from launch to exit; `Binaries`
are builds with different hashes. `RecoverOneFails`, `FireTickFails` and `LoseOutcome` are the errors the
code logs or ignores: a recovery or a tick whose `start_workflow` fails (before its commit, or with the
reply to it lost), and a run whose outcome update fails or whose body panics. `orphans[p]` keeps the ticks
whose row such an error, or a tick that another process had fired first, leaves without a run to the
next launch. Attempts are not counted here: the dead-letter limit is `WorkflowEngine`'s.

**Migrations.** A runner is at a statement of `run_migrations`. An index is absent, invalid, or built by
a migration; `build` is the CREATE INDEX CONCURRENTLY in progress, with its file, which survives its client.
`SchemaHistory` holds what the 40 SQL files do; the run uses an excerpt of 12 of them with every kind of
neighbourhood.

**Serialization.** A stored text is a form (plain JSON, input envelope, SuperJSON, base64, error
envelope, raw, nil marker) and a content. `Written` is what each SDK puts into a row, `Begin` the handler that
decodes it, `Record`, `Replay` and `Finish` the places that choose a format.

How they fit together: `Messaging`, `Streams`, `Fork` and `Serialization` take from `WorkflowEngine` that
several executions of one body may run and replay recorded results; `DurableQueue` refines the claim
that `WorkflowEngine` has as one action (`Dequeue`); `ChildWorkflows` composes `start_workflow`, steps and
recovery of the engine with handles; `Lifecycle` and `ControlPlane` put the same recovery between
launches and beside operator requests.

## Runs

| Run | Result | Shows |
|---|---|---|
| `engine_overlap` | holds | replay determinism, success backed by the log, refinement of `DurableExecution`, with one crash, cancel, resume, recovery request and fault each |
| `engine_owner` | holds | one execution at a time, covered PENDING rows, bounded restarts, final outcomes, no rerun of a recorded step, and that every accepted workflow finishes, when each workflow has one owner |
| `queue_limits` | holds | worker limit, global limit while rows join in order, single claim, no starvation |
| `messaging` | holds | exactly-once in-order delivery, latest event, agreement of executions, no recv asleep on a message |
| `streams` | holds | written once, closed is closed, readers follow and end |
| `migrations` | holds | the version row is backed while launches do not overlap; overlapping launches without faults end complete; relaunching completes |
| `children` | holds | a lost race strands no child, `get_result` agrees over all executions of a parent for every child not itself cancelled or recovered on request, everything started ends |
| `fork` | holds | a fork's stream, event and history match its copied steps; it executes the rest and nothing else |
| `control_plane` | holds | success answers are true, collection spares the newest and the active, the session reconnects |
| `lifecycle` | holds | a drained shutdown cuts no run short, no tick is skipped, interrupted runs are finished by the next launch, with one lost outcome, failed recovery or failed start |
| `lifecycle_fleet` | violated | a tick runs twice: the second process to fire it owns the row and recovers it |
| `serialization` | holds | inputs of this crate and of Go arrive, outcomes read back, replay is faithful |

`lifecycle_fleet` checks one sentence of `runtime/scheduler.rs`; the finding in `PROJECT.json` quotes it.

### What does not hold

These stronger statements are defined in the modules (or are listed properties under other constants),
and TLC refutes them with the constants named; the passing runs check the strongest form that holds.

- `StartsBounded` (`WorkflowEngine`; `Sites <- NoSites`, `QueueSites <- FirstSite`, two crashes): the claim
  of a queued workflow does not count as a recovery attempt (db/queue.rs:194), although
  runtime/workflow.rs:372 says "incremented at dequeue/recovery". `DirectStartsBounded` holds.
- `AcceptedFinishes` with `Sites <- BothSites`, no queue and one crash: an idempotent second call takes
  `executor_id` over without running the workflow (db/status.rs:150), and the owner's recovery misses it.
- `FinishedIsFinal` with one recovery request: the loser of a step race writes ERROR over SUCCESS
  (db/status.rs:256), where DESIGN.md:304-305 has it await the recorded result.
- `GlobalLimitHolds` (`DurableQueue`; two workflows, `Delayed = {1}`, only a global limit of 1): a row
  that joins ahead of a claimed one is counted out. `InOrderGlobalLimitHolds` holds.
- `RateLimitHolds` (two workflows, only a rate limit of 1): `SKIP LOCKED` and equal snapshots give two
  executors a start each.
- `EventWaiterReachable` (`Messaging`; `SharedEvent`, one process, three tasks): the first `get_event` to
  return removes the registry entry the others wait on (runtime/listener.rs:34; DESIGN.md:442).
- `DrainsBeforeClosing` (`Streams`; `LeavesOpen`, one reader): entries written between the reader's two
  queries are not read although the producer has ended (db/streams.rs:142; DESIGN.md:445-446).
- `RecordsHighestApplied` (`Migrations`, two runners): a runner that is behind takes the version back; if
  the next file cannot be repeated, every later launch fails.
- `OverlapHeals` (`Migrations`) with three runners, an initial version of 3 (of the excerpt) and no fault: a
  launch that read the version row ahead of a slower run, and has not cleaned up yet, lists the index
  that the slower run is building as invalid and drops it once it is built; the files that build it are
  behind both, and nobody builds it again (`cleanup_invalid_indexes`, db/migrate.rs:442-470). With two
  launches the row cannot be ahead of a run without the other one being there.
- `DeletedStaysDeleted` (`ControlPlane`): a recovery that listed a workflow before it was deleted inserts
  its row again.
- `InputArrives` for every origin (`Serialization`): the handler decodes with the format it will write,
  so an input with a NULL or `js_superjson` serialization is read as portable and fails or becomes null,
  where DESIGN.md:621-624 describes best-effort decoding; error texts of such rows are read back as the envelope.
  Error codes are not stored: a replayed error has code 0.
- `OutcomeIsReadable` (`Serialization`) for an empty error text of a Go row: the raw text counts as none
  (serialize.rs:404-406), and `get_result` reports "workflow failed" (runtime/workflow.rs:151).
- `DrainedMeansDone` (`Lifecycle`) without its exception for `orphans`: `let _ = update_workflow_outcome`
  (runtime/workflow.rs:308) ignores a failed update, and a panic never gets there; the tracked task ends
  either way, the drain succeeds, and the row stays PENDING until the process is launched again.
- `InterruptedIsFinished` (`Lifecycle`) without its exception for `orphans`: launch logs a failing
  `start_workflow` of its recovery and goes on (runtime/recovery.rs:70), so the row is PENDING under a
  process that is up and does not run it; likewise after a lost outcome, a scheduled start whose commit
  got through with its reply lost (runtime/scheduler.rs:79-92), and a tick taken over from the process
  that runs it, should that one crash. Only the next launch of the owner picks such a row up.
- `GetResultIsDeterministic` (`ChildWorkflows`; constants of `children`): DESIGN.md:352-353 says that inside
  a workflow "GetResult is itself a recorded step" so that "the parent's replay is deterministic", but
  runtime/workflow.rs:121 records nothing. When a running child is cancelled, one execution of the parent
  gets the run's own result from the channel and another one `AwaitedWorkflowCancelled` from the row; a
  child that a recovery request runs twice can likewise have one result in the channel and the other in
  the row. `ReplayedResultAgrees` holds: for every other child all executions of its parents are told the
  same, even when the parents are cancelled, recovered on request or crash.
- `PendingIsReachable` (`ChildWorkflows`; two parents on different executors that name the same child, one
  crash): the second parent's idempotent upsert moves a PENDING child's `executor_id` to an executor that
  does not run it (db/status.rs:150).
- `ForkEffectsMatchLog` for a `start_step` that the original passes during the copy: the four copies
  are four snapshots.

**Bounds.** Two executors or processes are enough for every race between sessions; two task slots
let two executions of one workflow overlap, four let a parent, its child and a second execution of
each. Two steps give a prefix and a last step. Three queued workflows with limits of one keep one
waiting while another is claimed and a third is delayed. Crashes, cancels, resumes, requests, panics
and faults are bounded by constants (`MaxCrashes`, ..., `MaxDisruptions`, `MaxStarts`, `MaxStops`,
`MaxCuts`): one of each interleaves with everything else, and two crashes exceed the dead-letter limit
for `MaxRetries = 1`. `MaxErrors = 1` in `lifecycle` is one lost outcome, failed recovery or failed start,
anywhere. The migration excerpt starts from an empty, an old and a newer database, with two
faults, so that a failed clean-up of a failed build happens. The fork's body has two streams and two
events, so that every start step cuts between effects of one kind. Two workflows are the newest and an
older one for garbage collection. Two ticks let a loop be late by one. `serialization` takes rows of
five origins with a null and a non-null content, and steps with and without retries. In `children` one executor lacks the handler of one
child; the other runs register every workflow on every executor. Runs in which the system comes to rest
(all workflows ended, all bounds used up) allow deadlock.

**Fairness.** Weak fairness of task steps, launch, recovery, queue runners, readers and the listener:
tokio polls them for as long as the process runs. `Launch` is fair because a crashed executor is
restarted (with the same id). Timers are fair in `DurableQueue`; in `Messaging` nothing is assumed of
deadlines, nor of the delivery of a NOTIFY. In `Migrations` a failed launch is tried again and the
server ends every index build; in `ControlPlane` the session task goes on, the conductor's address
answers sooner or later and a ping to a silent peer fails sooner or later (the 30 s read timeout does
not, since pings restart it every 20 s); in `Lifecycle` a process that is down is launched again. No
application or operator call is fair.

**Assumptions.** One application version (several binaries in `Lifecycle`); distinct executor ids;
senders' and enqueuers' clocks agree with the order of their inserts; one queue, partition, mailbox,
event key, stream and schedule at a time.

## Proofs

Every theorem holds for all values of the constants that satisfy the named assumption of its module
(`EngineAssumption`, `QueueAssumption`, ...; TLC evaluates them in every run): any number of executors,
workflows, tasks, readers and callers, any programs, sites, handlers and limits, any bounds. The
assumptions say what kind of values the constants are, that bodies are not empty, and that markers such
as `None` are no values. TLC evaluates `MigrationAssumption` and `RepeatableTail` also of the code's own
table of 40 files (`TablesAssumption` in `MCMigrations`). Each component has one inductive
invariant (`Inv`, where not said otherwise), a lemma per action that preserves it, and theorems of the
form `Spec => []P`. TLC checked every invariant on the instance of the
module's run before it was proved. Temporal fairness plays no part in them.

| Module | Theorems |
|---|---|
| `WorkflowEngineProofs` | `TypeCorrect`, `ReplayIsDeterministic` (`ReplayAgreement`), `SuccessBackedByLog` (`SuccessIsReplayable`), `Refinement` (`ImplementsDurableExecution`), `OneExecution` (`SingleExecution`), `OutcomeIsFinal` (`FinishedIsFinal`), `NoRerun` (`RecordedStepNotRerun`), `NoOrphans` (`PendingIsCovered`), `DeadLetterLimit` (`DirectStartsBounded`) |
| `DurableQueueProofs` | `QueueTypeCorrect`, `WorkerLimit` (`WorkerLimitHolds`), `SingleClaim` (`ClaimedOnce`), `GlobalLimitInOrder` (`InOrderGlobalLimitHolds`) |
| `MessagingProofs` | `MessagingTypeCorrect`, `MessagesSentOnce` (`SentExactlyOnce`), `MessagesDeliveredOnce` (`DeliveredExactlyOnce`), `EventNeverRegresses` (`EventIsLatest`), `ExecutionsAgree` (`ResultsAgree`) |
| `StreamsProofs` | `StreamsTypeCorrect`, `StreamWrittenOnce` (`WrittenOnce`), `StreamEndsAtSentinel` (`SentinelIsLast`), `ReadersFollowTheStream` (`ReaderFollowsStream`) |
| `ChildWorkflowsProofs` | `ChildrenTypeCorrect`, `NothingStranded` (`PendingIsReachable`), `ReplayTellsTheSame` (`ReplayedResultAgrees`) |
| `ForkProofs` | `ForkTypeCorrect`, `ForkIsConsistent` (`ForkEffectsMatchLog`), `ForkRunsTheRest` (`ForkExecutesTheRest`) |
| `ForkProofs`, of `ControlPlane` | `RequestsTracked` (`ControlInv`), `ControlPlaneTypeCorrect`, `SuccessIsTrue` (`SuccessMeansDone`), `CollectionIsSafe` (`CollectionSparesNewest`) |
| `LifecycleProofs` | `LifecycleTypeCorrect`, `DrainCutsNothingShort` (`DrainedMeansDone`), `ScheduleSkipsNothing` (`NoTickSkipped`) |
| `LifecycleProofs`, of `Migrations` | `MigrationRunsWellFormed` (`RunInv`), `VersionBacked` (`VersionIsBacked`), `TwoLaunchesHeal` (`OverlapHeals`) |
| `SerializationProofs` | `SerializationTypeCorrect`, `InputReachesHandler` (`InputArrives`), `OutcomeReadsBack` (`OutcomeIsReadable`), `ReplaySeesTheSame` (`ReplayIsFaithful`) |

Six hypotheses on the constants stand in theorems, not in assumptions, because the properties are
false without them (see "What does not hold"):

- `OneOwner` (`OneExecution`, `OutcomeIsFinal`, `NoRerun`, `NoOrphans`): no resume, no recovery request, and
  a workflow is either called on one executor or only enqueued. `engine_owner` satisfies it.
- `NothingLost` (`NoOrphans`): no database error and every handler on every executor; `engine_owner` again.
- `MaxResumes = 0` (`DeadLetterLimit`): a resume resets the count of attempts.
- `OwnChildren` (the theorems of `ChildWorkflowsProofs`): no two parents name the same child, which the
  default child id, the parent's id and the step id, ensures. `children` satisfies it. With explicit ids
  a second parent's upsert can move a PENDING child to an executor that does not run it.
- `TwoRunners` (`TwoLaunchesHeal`): at most two processes launch; `migrations` has two.
- `RepeatableTail` (`TwoLaunchesHeal`): from the first online file on every file can be applied again, and
  one before it that touches an index cannot be. It holds of the embedded table; `VersionBacked` does not
  need it.

The arguments, and why the properties are not inductive by themselves:

- **WorkflowEngine.** `SuccessIsReplayable` needs to know what a task about to write SUCCESS has seen.
  `Inv` adds `Sound` for every task: below its step id the table holds successful results and the task
  saw exactly those, it ends with `ok` only after the last step, and the result it is about to record came
  from its closure. `Sound` survives other tasks because a recorded result is never changed
  (`SoundMonotone`), and its own step because `Observe` appends what the table holds (`ObserveSound`). For
  the refinement every action maps to `Append`, to a phase change or to a stutter. The one-owner theorems
  add `OwnerInv`: the row of a running or listed workflow names its executor, a listed workflow has no
  task and is listed once, and the step a task runs or records is not recorded yet; then a stale
  recovery list can only name what nobody runs. `CountInv` ties the number of starts to
  `recovery_attempts`.
- **DurableQueue.** `CountInv` relates `worker_counts`, the tasks and the quota that an iteration computed
  before its transaction; `LockInv` and `OwnInv` say what a locked, a running and a listed row look like;
  `SnapInv` that a snapshot row that is no longer ENQUEUED is stale. For the global limit, `GlobalInv` bounds the
  PENDING rows together with everything that lies in the queue up to the last row a transaction wants:
  two transactions with overlapping wishes then fit the limit together, or `NOWAIT` stops one.
- **Messaging.** `OrderInv`: steps are recorded in program order. With it the recv that consumes the next
  message comes after every recv that has one, and a set_event that is recorded later is later in the program.
- **Streams.** `LogInv`: the recorded steps are `1..Len(streams)` and row `k` is step `k`'s; a reader's
  `current` counts what it has returned and no row below it is a sentinel.
- **ChildWorkflows.** `MapInv`: a child has a row exactly when a position of a parent maps to it, and
  positions are mapped in order. A parent is past a child only when the child has ended, so the upsert
  takes over `executor_id` only of ended rows (`ChildSettled`). `CoverInv` keeps a PENDING row with a task
  on, or a recovery by, the executor of the row. `Sole` gives a workflow that is not `disturbed` at most one
  task while its row is PENDING and none once it has ended, whatever happens to its parents, so what a
  channel told of it is what the row says.
- **Fork.** `CopyOk` says what the staged copy holds after each statement; the steps below a reached
  `start_step` stay in the original's log until the commit because the row lock holds back its deletion; every
  log is a prefix of the body, so offsets and events are in step order.
- **ControlPlane.** `SuccessMeansDone` speaks of the last place of a request only. `ControlInv` says at every
  place what can still be owed: before its statement a cancel, resume or delete owes ids it names; a
  retention owes cancels and collections until its DELETE, then cancels only, then only workflows it has
  listed; a recovery owes nothing. What is owed stays owed by the request whoever changes the row in
  between, because an existing row keeps its `created_at` (`RowStep`) and an obligation is dropped once it is met
  (`OwedKept`). `CutoffOk` is the fact between the two statements of `garbage_collect`: the cutoff is not
  before the one given and not after any counted row that the given one spares; the second theorem follows
  from it and from the fact that only the DELETE or its failure leaves that place (`CollectionEnds`).
- **Migrations.** `RunInv` places every run at a file of the table and every build at its client. While
  launches do not overlap, `SoleInv` says that the catalog is that of the version row, that an index is as the
  row says or, if the next file touches it, on its way there, and that a run past its clean-up
  has left no invalid index; so a crash at any place leaves a schema that the next run can
  continue from. For overlapping launches nothing so exact holds: `OverInv` (until the first fault) says
  instead that whatever is wrong with an index is going to be put right by a run that still has the file
  in question to do (`Heals`), that the version row is where one of the two runs is (`RowInv`), and that a run
  which has yet to clean up is not ahead of the other one by an online file (`UncleanInv`), so that what it drops
  is built again. When no run is left, no file is left to do, so nothing is wrong.
- **Lifecycle.** What a process has begun is running, has its outcome or is an orphan; a drained process has no
  scheduler that could start anything; all ticks up to the scheduler's last one are settled.
- **Serialization.** Round-trip lemmas (decode of encode, for every format, form and content) and an
  invariant that links the row, the step record and what the run and the reader were given.

Checked by TLC only is all liveness (`AcceptedFinishes`, `QueuedFinishes`, `RecvNotStuck`, `ReadersReturn`,
`StartedFinishes`, `InterruptedIsFinished`, `SoleLaunchesComplete`, `ConductorReconnects`): fairness and ENABLED
are outside the prover.

## Not modelled

Queue partitions, deduplication ids, workflow deadlines, auth fields, steps nested in steps and the
step-name check. Panics of queued workflows: the row and the worker slot are lost with certainty, there
is nothing to explore. The cron grammar (ticks are counted), the lowering of SuperJSON rich types,
password masking, HTTP and websocket wire formats, template rendering of SQL files and telemetry are pure
conversions or I/O. Read-only listings change nothing.

Simplifications within the models: `Streams` makes the closed check and the INSERT of a write one action,
though they are two READ COMMITTED statements (db/streams.rs:52). An execution whose close commits in
between has recorded every step before it, so the record of the write, in the same transaction as the
INSERT, meets the primary key of `operation_outputs` and rolls it back. `Fork` makes the closure of a step and its record
one action, since a crash between them is `WorkflowEngine`'s subject (`RecordedStepNotRerun`).
`consume_oldest_notification` orders by `created_at` alone (db/notifications.rs:75), so the order of equal
timestamps is arbitrary; `Messaging` assumes that they differ. `ControlPlane` has no DELAYED and no
MAX_RECOVERY_ATTEMPTS_EXCEEDED rows: cancel and resume change both, and garbage collection spares the
former and deletes the latter, by the same status lists as for the rows it has.

## Plan

1. An abstract exactly-once channel and an abstract log for `Messaging` and `Streams`, and their
   refinement.
2. Queue partitions and two application versions in `DurableQueue`.
3. A form of `OverlapHeals` for more than two launches: which of them may clean up.
