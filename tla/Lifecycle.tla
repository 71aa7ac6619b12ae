---- MODULE Lifecycle ----
(*
 * The life of the processes that serve one application: process_config (config.rs), launch and shutdown
 * (runtime/mod.rs), launch-time recovery (runtime/recovery.rs), one cron schedule (runtime/scheduler.rs),
 * and the crashes, upgrades and orderly stops in between.
 *
 * Time counts the ticks of the schedule; the workflow of tick t has the id "{name}-{t}", written t here.
 *)
EXTENDS Naturals, FiniteSets

CONSTANTS
    Processes,
    Config,       \* [p]: the Config p is built with; "" is an unset or empty field
    Env,          \* [p]: DBOS__APPVERSION and DBOS__VMID of p's environment; "" is unset
    Binaries,     \* builds of the executable, each its own hash
    MaxTick,      \* bound on time
    MaxStops,     \* bound on crashes and shutdowns
    MaxErrors     \* bound on the faults of start_workflow and of the end of a run: database errors, panics

Ticks == 1..MaxTick

ASSUME LifecycleAssumption ==
    /\ {MaxTick, MaxStops, MaxErrors} \subseteq Nat
    /\ Binaries # {} /\ "" \notin Binaries
    /\ DOMAIN Config = Processes /\ DOMAIN Env = Processes

VARIABLES
    now,       \* the latest tick that is due
    rows,      \* [t]: workflow_status of the workflow of tick t
    proc,      \* [p]: the process and its Dbos
    tasks,     \* [p]: the ticks whose workflow p runs
    begun,     \* history: [p]: ticks whose workflow this incarnation of p has run
    skipped,   \* history: [p]: ticks whose start_workflow failed in this incarnation of p
    runs,      \* history: [t]: times the workflow of t was started
    broken,    \* history: [t]: times a run of t ended without its outcome
    orphans,   \* history: [p]: ticks whose row this incarnation of p has left to its next launch
    stops, errors  \* history, for the bounds

vars == <<now, rows, proc, tasks, begun, skipped, runs, broken, orphans, stops, errors>>

AbsentRow == [status |-> "ABSENT", executor_id |-> "", application_version |-> ""]
Down == [phase |-> "down", executor_id |-> "", application_version |-> "", pending |-> {}, scheduler |-> "off",
         launched |-> 0, last |-> 0, deactivated |-> FALSE, drained |-> FALSE]

Init ==
    /\ now = 0
    /\ rows = [t \in Ticks |-> AbsentRow]
    /\ proc = [p \in Processes |-> Down]
    /\ tasks = [p \in Processes |-> {}]
    /\ begun = [p \in Processes |-> {}] /\ skipped = [p \in Processes |-> {}]
    /\ runs = [t \in Ticks |-> 0] /\ broken = [t \in Ticks |-> 0]
    /\ orphans = [p \in Processes |-> {}]
    /\ stops = 0 /\ errors = 0

----
(* config.rs *)

\* detect_dialect; an unsupported or missing scheme is an error.
detect_dialect(url) ==
    CASE url \in {"postgres", "key=value"} -> "postgres"
      [] url = "sqlite" -> "sqlite"
      [] OTHER -> "error"

FirstSet(candidates, default) ==
    IF \A i \in DOMAIN candidates : candidates[i] = "" THEN default
    ELSE candidates[CHOOSE i \in DOMAIN candidates :
                      candidates[i] # "" /\ \A j \in DOMAIN candidates : j < i => candidates[j] = ""]

\* Mutant.
process_config_by_hash(c, e, binary) ==
    [ok |-> (c.pool \/ c.url # "") /\ c.app_name # "" /\ (c.pool \/ detect_dialect(c.url) # "error"),
     application_version |-> FirstSet(<<e.version, c.application_version>>, binary),
     executor_id |-> FirstSet(<<e.vmid, c.executor_id>>, "local")]

\* process_config_with_env: validation, and the precedence that gives the process its identity. The
\* version is the environment's, the one configured, the patching sentinel or the hash of the binary.
process_config(c, e, binary) ==
    [ok |-> (c.pool \/ c.url # "") /\ c.app_name # "" /\ (c.pool \/ detect_dialect(c.url) # "error"),
     application_version |->
        FirstSet(<<e.version, c.application_version, IF c.patching THEN "PATCHING_ENABLED" ELSE "">>, binary),
     executor_id |-> FirstSet(<<e.vmid, c.executor_id>>, "local")]

\* The identities that rows and processes can have; "" is that of none.
Identities(p) == {process_config(Config[p], Env[p], b) : b \in Binaries}
ExecutorIds == {""} \cup UNION {{id.executor_id : id \in Identities(p)} : p \in Processes}
Versions == {""} \cup UNION {{id.application_version : id \in Identities(p)} : p \in Processes}

Row == [status : {"ABSENT", "PENDING", "SUCCESS"}, executor_id : ExecutorIds, application_version : Versions]
Process == [phase : {"down", "recovering", "up", "draining", "closed"}, executor_id : ExecutorIds,
            application_version : Versions, pending : SUBSET Ticks, scheduler : {"off", "waiting", "starting"},
            launched : 0..MaxTick, last : 0..MaxTick, deactivated : BOOLEAN, drained : BOOLEAN]

\* Processes and rows are well formed, and a row belongs to an identity that some process was configured with.
TypeOK ==
    /\ now \in 0..MaxTick
    /\ rows \in [Ticks -> Row] /\ proc \in [Processes -> Process]
    /\ tasks \in [Processes -> SUBSET Ticks]
    /\ begun \in [Processes -> SUBSET Ticks] /\ skipped \in [Processes -> SUBSET Ticks]
    /\ runs \in [Ticks -> Nat] /\ broken \in [Ticks -> Nat]
    /\ orphans \in [Processes -> SUBSET Ticks]
    /\ stops \in Nat /\ errors \in Nat

----
(* launch *)

\* list_pending_for_recovery: the rows of this executor and this version.
ListPending(id, version) ==
    {t \in Ticks : rows[t].status = "PENDING" /\ rows[t].executor_id = id /\ rows[t].application_version = version}

\* launch up to the list of recover_pending_workflows: valid configuration, pool, migrations. Where one of
\* them fails, launch returns the error and nothing runs.
Launch(p, binary) ==
    LET pc == process_config(Config[p], Env[p], binary) IN
    /\ proc[p].phase = "down" /\ pc.ok
    /\ Config[p].pool \/ detect_dialect(Config[p].url) = "postgres"  \* connect knows no other
    /\ proc' = [proc EXCEPT ![p] =
          [Down EXCEPT !.phase = "recovering", !.executor_id = pc.executor_id,
                       !.application_version = pc.application_version,
                       !.pending = ListPending(pc.executor_id, pc.application_version)]]
    /\ UNCHANGED <<now, rows, tasks, begun, skipped, runs, broken, orphans, stops, errors>>

\* A run of the workflow of t begins in p.
Spawn(p, t) ==
    /\ tasks' = [tasks EXCEPT ![p] = @ \cup {t}]
    /\ begun' = [begun EXCEPT ![p] = @ \cup {t}]
    /\ runs' = [runs EXCEPT ![t] = @ + 1]

\* insert_workflow_status: the first insert makes the row; a conflict takes its executor_id over.
Upsert(p, t) ==
    IF rows[t].status = "ABSENT"
    THEN [status |-> "PENDING", executor_id |-> proc[p].executor_id,
          application_version |-> proc[p].application_version]
    ELSE [rows[t] EXCEPT !.executor_id = proc[p].executor_id]

Orphan(p, t) == orphans' = [orphans EXCEPT ![p] = @ \cup {t}]

\* start_workflow with is_recovery: a workflow that has ended meanwhile is not run again.
RecoverOne(p, t) ==
    /\ proc[p].phase = "recovering" /\ t \in proc[p].pending
    /\ proc' = [proc EXCEPT ![p].pending = @ \ {t}]
    /\ rows' = [rows EXCEPT ![t] = Upsert(p, t)]
    /\ IF rows[t].status = "PENDING" THEN Spawn(p, t) ELSE UNCHANGED <<tasks, begun, runs>>
    /\ UNCHANGED <<now, skipped, broken, orphans, stops, errors>>

\* start_workflow returns an error, before its commit or with the reply to it lost; it is logged, and
\* the launch goes on with the next row.
RecoverOneFails(p, t) ==
    /\ proc[p].phase = "recovering" /\ t \in proc[p].pending
    /\ errors < MaxErrors /\ errors' = errors + 1
    /\ proc' = [proc EXCEPT ![p].pending = @ \ {t}]
    /\ \E row \in {rows[t], Upsert(p, t)} : rows' = [rows EXCEPT ![t] = row]
    /\ Orphan(p, t)
    /\ UNCHANGED <<now, tasks, begun, skipped, runs, broken, stops>>

\* launch goes on once recovery is done: runners, the schedule (from this moment on), conductor, admin.
StartRunners(p) ==
    /\ proc[p].phase = "recovering" /\ proc[p].pending = {}
    /\ proc' = [proc EXCEPT ![p].phase = "up", ![p].scheduler = "waiting", ![p].launched = now, ![p].last = now]
    /\ UNCHANGED <<now, rows, tasks, begun, skipped, runs, broken, orphans, stops, errors>>

----
(* run_scheduler *)

PassTime ==
    /\ now < MaxTick
    /\ now' = now + 1
    /\ UNCHANGED <<rows, proc, tasks, begun, skipped, runs, broken, orphans, stops, errors>>

\* Mutant.
NextTickFromNow(p) == now

\* The tick after the one before, however late it is by now.
NextTick(p) == proc[p].last + 1

\* The sleep ends. If the token is cancelled too, select! takes either branch.
Wake(p) ==
    /\ proc[p].scheduler = "waiting" /\ proc[p].last < now
    /\ proc' = [proc EXCEPT ![p].scheduler = "starting", ![p].last = NextTick(p)]
    /\ UNCHANGED <<now, rows, tasks, begun, skipped, runs, broken, orphans, stops, errors>>

StopScheduler(p) ==
    /\ proc[p].scheduler = "waiting"
    /\ proc[p].deactivated \/ proc[p].phase \in {"draining", "closed"}
    /\ proc' = [proc EXCEPT ![p].scheduler = "off"]
    /\ UNCHANGED <<now, rows, tasks, begun, skipped, runs, broken, orphans, stops, errors>>

\* start_workflow of the tick: the first process to insert the row runs it; any other gets a handle and
\* leaves the row as it is, but for its executor_id.
FireTick(p) ==
    LET t == proc[p].last IN
    /\ proc[p].scheduler = "starting"
    /\ proc' = [proc EXCEPT ![p].scheduler = "waiting"]
    /\ rows' = [rows EXCEPT ![t] = Upsert(p, t)]
    /\ IF rows[t].status = "ABSENT" THEN Spawn(p, t) ELSE UNCHANGED <<tasks, begun, runs>>
    /\ IF rows[t].status = "ABSENT" \/ rows[t].executor_id = proc[p].executor_id THEN UNCHANGED orphans
       ELSE Orphan(p, t)
    /\ UNCHANGED <<now, skipped, broken, stops, errors>>

\* start_workflow returns an error, before its commit or with the reply to it lost; it is logged, and
\* the loop goes on with the next tick.
FireTickFails(p) ==
    LET t == proc[p].last IN
    /\ proc[p].scheduler = "starting"
    /\ errors < MaxErrors /\ errors' = errors + 1
    /\ proc' = [proc EXCEPT ![p].scheduler = "waiting"]
    /\ \/ /\ skipped' = [skipped EXCEPT ![p] = @ \cup {t}]
          /\ UNCHANGED <<rows, orphans>>
       \/ /\ rows' = [rows EXCEPT ![t] = Upsert(p, t)]
          /\ Orphan(p, t)
          /\ UNCHANGED skipped
    /\ UNCHANGED <<now, tasks, begun, runs, broken, stops>>

\* GET /deactivate: latches and stops the schedule only.
Deactivate(p) ==
    /\ proc[p].phase = "up" /\ ~proc[p].deactivated
    /\ proc' = [proc EXCEPT ![p].deactivated = TRUE]
    /\ UNCHANGED <<now, rows, tasks, begun, skipped, runs, broken, orphans, stops, errors>>

\* A run ends and records its outcome, with a connection it still gets or, after the pool is closed, holds.
EndTask(p, t) ==
    /\ t \in tasks[p]
    /\ tasks' = [tasks EXCEPT ![p] = @ \ {t}]
    /\ rows' = [rows EXCEPT ![t].status = "SUCCESS"]
    /\ UNCHANGED <<now, proc, begun, skipped, runs, broken, orphans, stops, errors>>

\* A run ends without its outcome: the update fails, on a closed pool for one, and its error is ignored, or
\* the body panics and never gets there. For the tracker the task has ended like any other.
LoseOutcome(p, t) ==
    /\ t \in tasks[p]
    /\ errors < MaxErrors /\ errors' = errors + 1
    /\ tasks' = [tasks EXCEPT ![p] = @ \ {t}]
    /\ broken' = [broken EXCEPT ![t] = @ + 1]
    /\ Orphan(p, t)
    /\ UNCHANGED <<now, rows, proc, begun, skipped, runs, stops>>

----
(* shutdown and crashes *)

\* shutdown: the tokens are cancelled and the task tracker is closed.
Shutdown(p) ==
    /\ proc[p].phase = "up" /\ stops < MaxStops
    /\ stops' = stops + 1
    /\ proc' = [proc EXCEPT ![p].phase = "draining"]
    /\ UNCHANGED <<now, rows, tasks, begun, skipped, runs, broken, orphans, errors>>

\* Mutant.
TrackerIsEmptyOfRuns(p) == tasks[p] = {}

\* workflow_tasks.wait(): the tracker holds the runs and the loops that may still start one.
TrackerIsEmpty(p) == tasks[p] = {} /\ proc[p].scheduler = "off"

\* The wait ends, drained or at its timeout, and the pool is closed.
ClosePool(p) ==
    /\ proc[p].phase = "draining"
    /\ \E drained \in BOOLEAN :
          /\ drained => TrackerIsEmpty(p)
          /\ proc' = [proc EXCEPT ![p].phase = "closed", ![p].drained = drained]
    /\ UNCHANGED <<now, rows, tasks, begun, skipped, runs, broken, orphans, stops, errors>>

\* The process ends, after shutdown or in the middle of anything; its runs end with it.
Exit(p) ==
    /\ proc[p].phase = "closed" \/ (proc[p].phase # "down" /\ stops < MaxStops)
    /\ stops' = IF proc[p].phase = "closed" THEN stops ELSE stops + 1
    /\ proc' = [proc EXCEPT ![p] = Down]
    /\ tasks' = [tasks EXCEPT ![p] = {}]
    /\ broken' = [t \in Ticks |-> broken[t] + (IF t \in tasks[p] THEN 1 ELSE 0)]
    /\ begun' = [begun EXCEPT ![p] = {}]
    /\ skipped' = [skipped EXCEPT ![p] = {}]
    /\ orphans' = [orphans EXCEPT ![p] = {}]
    /\ UNCHANGED <<now, rows, runs, errors>>

----

Next ==
    \/ PassTime
    \/ \E p \in Processes :
          \/ \E b \in Binaries : Launch(p, b)
          \/ StartRunners(p) \/ Wake(p) \/ StopScheduler(p) \/ FireTick(p) \/ FireTickFails(p)
          \/ Deactivate(p) \/ Shutdown(p) \/ ClosePool(p) \/ Exit(p)
          \/ \E t \in Ticks : RecoverOne(p, t) \/ RecoverOneFails(p, t) \/ EndTask(p, t) \/ LoseOutcome(p, t)

\* A process that is down is launched again by whoever supervises it and one that has shut down exits; a
\* launch goes on, and so do the workflows.
Fairness ==
    \A p \in Processes :
        /\ WF_vars(\/ \E b \in Binaries : Launch(p, b)
                   \/ \E t \in Ticks : RecoverOne(p, t)
                   \/ StartRunners(p)
                   \/ proc[p].phase = "closed" /\ Exit(p))
        /\ WF_vars(\E t \in Ticks : EndTask(p, t))

Spec == Init /\ [][Next]_vars /\ Fairness

----
(* Properties *)

\* A shutdown that drains within its timeout cuts no run short: once the pool is closed nothing of this
\* incarnation runs, and every workflow it has run, the ones its schedule started while it was draining
\* included, has its outcome, unless the run itself ended without writing one.
DrainedMeansDone ==
    \A p \in Processes : proc[p].phase = "closed" /\ proc[p].drained =>
        /\ tasks[p] = {}
        /\ \A t \in begun[p] : rows[t].status = "SUCCESS" \/ t \in orphans[p]

\* No tick is skipped: each one that fell due since a scheduler started and that it is past has its
\* workflow, however late the loop was, unless the start of that very tick failed.
NoTickSkipped ==
    \A p \in Processes : proc[p].scheduler = "waiting" =>
        \A t \in (proc[p].launched + 1)..proc[p].last : rows[t].status # "ABSENT" \/ t \in skipped[p]

\* "exactly one run happens per (schedule, tick) across the whole fleet" (runtime/scheduler.rs).
TickRunsOnce == \A t \in Ticks : runs[t] <= 1 + broken[t]

\* A workflow that a crash or a shutdown timeout cuts short is found and finished by the next launch, under
\* any later binary, when the configuration fixes the executor and the version. What a living process has
\* left without a run (a lost outcome, a failed recovery or start, a tick that another process had fired
\* first) waits for the next launch of the process that owns the row, and no longer.
InterruptedIsFinished ==
    \A t \in Ticks :
        (rows[t].status = "PENDING") ~>
            (\/ rows[t].status = "SUCCESS"
             \/ \E p \in Processes : t \in orphans[p] /\ proc[p].executor_id = rows[t].executor_id)
====
