---- MODULE LifecycleProofs ----
(*
 * Proofs about Lifecycle, for any processes with any configurations and environments, any builds of
 * the executable and any bounds on time, stops and database errors; and about Migrations, which
 * launch() runs first, for any table of files, any number of runners and any bound on faults.
 *)
EXTENDS Lifecycle, Migrations, TLAPS, WellFoundedInduction

\* What a process has begun to run is still running, has its outcome, or has ended without writing one.
BegunInv ==
    \A p \in Processes : \A t \in begun[p] :
        t \in tasks[p] \/ rows[t].status = "SUCCESS" \/ t \in orphans[p]

\* A drained process stays drained: nothing runs and nothing can start a run.
DrainedInv ==
    \A p \in Processes : proc[p].phase = "closed" /\ proc[p].drained =>
        tasks[p] = {} /\ proc[p].scheduler = "off"

\* A tick is settled for p when its workflow exists or p failed to insert it.
Settled(p, t) == rows[t].status # "ABSENT" \/ t \in skipped[p]

\* The scheduler is never ahead of time, and has settled every tick it is past; the one it has just
\* woken up for is still to be started.
SchedulerInv ==
    \A p \in Processes :
        /\ proc[p].launched <= proc[p].last /\ proc[p].last <= now
        /\ proc[p].scheduler = "waiting" =>
              \A t \in (proc[p].launched + 1)..proc[p].last : Settled(p, t)
        /\ proc[p].scheduler = "starting" =>
              /\ proc[p].launched < proc[p].last
              /\ \A t \in (proc[p].launched + 1)..(proc[p].last - 1) : Settled(p, t)

Inv == TypeOK /\ BegunInv /\ DrainedInv /\ SchedulerInv

LEMMA Bounds == MaxTick \in Nat /\ MaxStops \in Nat /\ MaxErrors \in Nat
    BY LifecycleAssumption

LEMMA DownOK == Down \in Process /\ Down.phase = "down" /\ Down.scheduler = "off"
                /\ Down.launched = 0 /\ Down.last = 0 /\ Down.drained = FALSE
    BY Bounds DEF Down, Process, ExecutorIds, Versions

LEMMA InitInv == Init => Inv
<1> SUFFICES ASSUME Init PROVE Inv
    OBVIOUS
<1>1. AbsentRow \in Row
    BY DEF AbsentRow, Row, ExecutorIds, Versions
<1>2. TypeOK
    BY <1>1, Bounds, DownOK DEF Init, TypeOK
<1> QED BY <1>2, DownOK, Bounds DEF Init, Inv, BegunInv, DrainedInv, SchedulerInv

\* The identity a process is launched with is one of those that rows can carry.
LEMMA ConfiguredIdentity ==
    \A p \in Processes, b \in Binaries :
        /\ process_config(Config[p], Env[p], b).executor_id \in ExecutorIds
        /\ process_config(Config[p], Env[p], b).application_version \in Versions
<1> SUFFICES ASSUME NEW p \in Processes, NEW b \in Binaries
             PROVE  /\ process_config(Config[p], Env[p], b).executor_id \in ExecutorIds
                    /\ process_config(Config[p], Env[p], b).application_version \in Versions
    OBVIOUS
<1> DEFINE id == process_config(Config[p], Env[p], b)
<1>1. id \in Identities(p)
    BY DEF Identities
<1> HIDE DEF id
<1>2. id.executor_id \in ExecutorIds
    <2>1. id.executor_id \in {i.executor_id : i \in Identities(p)}
        BY <1>1
    <2> QED BY <2>1 DEF ExecutorIds
<1>3. id.application_version \in Versions
    <2>1. id.application_version \in {i.application_version : i \in Identities(p)}
        BY <1>1
    <2> QED BY <2>1 DEF Versions
<1> QED BY <1>2, <1>3 DEF id

\* The records of the processes, one of which is replaced.
LEMMA Replace ==
    ASSUME TypeOK, NEW p \in Processes, NEW new \in Process, proc' = [proc EXCEPT ![p] = new]
    PROVE  /\ proc' \in [Processes -> Process]
           /\ proc'[p] = new
           /\ \A q \in Processes \ {p} : proc'[q] = proc[q]
    BY DEF TypeOK

\* A step of one process that neither starts nor ends a run and touches no row.
LEMMA QuietStep ==
    ASSUME Inv, NEW p \in Processes, NEW new \in Process, proc' = [proc EXCEPT ![p] = new],
           new.phase = "closed" /\ new.drained => tasks[p] = {} /\ new.scheduler = "off",
           new.launched <= new.last, new.last <= now,
           new.scheduler = "waiting" =>
                \A t \in (new.launched + 1)..new.last : Settled(p, t),
           new.scheduler = "starting" =>
                /\ new.launched < new.last
                /\ \A t \in (new.launched + 1)..(new.last - 1) : Settled(p, t),
           stops' \in Nat, UNCHANGED <<now, rows, tasks, begun, skipped, runs, broken, orphans, errors>>
    PROVE  Inv'
<1>1. TypeOK /\ BegunInv /\ DrainedInv /\ SchedulerInv
    BY DEF Inv
<1>2. /\ proc' \in [Processes -> Process]
      /\ proc'[p] = new
      /\ \A q \in Processes \ {p} : proc'[q] = proc[q]
    BY <1>1, Replace
<1>3. TypeOK'
    BY <1>1, <1>2 DEF TypeOK
<1>4. BegunInv'
    BY <1>1, <1>2 DEF BegunInv
<1>5. DrainedInv'
    BY <1>1, <1>2 DEF DrainedInv
<1>6. SchedulerInv'
    BY <1>1, <1>2 DEF SchedulerInv, Settled
<1> QED BY <1>3, <1>4, <1>5, <1>6 DEF Inv

\* The row that start_workflow of p leaves behind is there, and has ended if it had.
LEMMA UpsertOk ==
    ASSUME TypeOK, NEW p \in Processes, NEW t \in Ticks
    PROVE  /\ Upsert(p, t) \in Row
           /\ Upsert(p, t).status # "ABSENT"
           /\ rows[t].status # "ABSENT" => Upsert(p, t).status = rows[t].status
<1>1. /\ rows[t] \in Row
      /\ proc[p].executor_id \in ExecutorIds /\ proc[p].application_version \in Versions
    BY DEF TypeOK, Process
<1> QED BY <1>1 DEF Upsert, Row

\* Rows, one of which is written: what is there stays there, and what has ended stays so.
LEMMA WriteRow ==
    ASSUME TypeOK, NEW t \in Ticks, NEW row \in Row, rows' = [rows EXCEPT ![t] = row],
           rows[t].status # "ABSENT" => row.status # "ABSENT",
           rows[t].status = "SUCCESS" => row.status = "SUCCESS"
    PROVE  /\ rows' \in [Ticks -> Row]
           /\ rows'[t] = row
           /\ \A u \in Ticks : /\ rows[u].status # "ABSENT" => rows'[u].status # "ABSENT"
                               /\ rows[u].status = "SUCCESS" => rows'[u].status = "SUCCESS"
<1>1. rows \in [Ticks -> Row]
    BY DEF TypeOK
<1> QED BY <1>1

\* The scheduler's invariant outlives a step that moves no loop.
LEMMA SchedulerKept ==
    ASSUME TypeOK, SchedulerInv, UNCHANGED now,
           \A q \in Processes : /\ proc'[q].launched = proc[q].launched /\ proc'[q].last = proc[q].last
                                /\ proc'[q].scheduler = proc[q].scheduler,
           \A q \in Processes, u \in Ticks : Settled(q, u) => Settled(q, u)'
    PROVE  SchedulerInv'
<1>1. \A q \in Processes : /\ proc[q].launched \in Nat /\ proc[q].launched <= MaxTick
                          /\ proc[q].last \in Nat /\ proc[q].last <= MaxTick
    BY Bounds DEF TypeOK, Process
<1>2. \A q \in Processes : /\ \A u \in (proc[q].launched + 1)..proc[q].last : u \in Ticks
                          /\ \A u \in (proc[q].launched + 1)..(proc[q].last - 1) : u \in Ticks
    BY <1>1, Bounds DEF Ticks
<1> QED BY <1>2 DEF SchedulerInv

\* The loop of p has settled the tick it woke up for and waits for the next one.
LEMMA LoopSettles ==
    ASSUME TypeOK, SchedulerInv, NEW p \in Processes, proc[p].scheduler = "starting", UNCHANGED now,
           proc'[p].launched = proc[p].launched, proc'[p].last = proc[p].last, proc'[p].scheduler = "waiting",
           \A q \in Processes \ {p} : proc'[q] = proc[q],
           Settled(p, proc[p].last)', proc'[p].last \in Ticks,
           \A q \in Processes, u \in Ticks : Settled(q, u) => Settled(q, u)'
    PROVE  SchedulerInv'
<1>1. \A q \in Processes : proc[q].launched \in 0..MaxTick /\ proc[q].last \in 0..MaxTick
    BY DEF TypeOK, Process
<1>2. now \in Nat
    BY Bounds DEF TypeOK
<1>3. ASSUME NEW q \in Processes \ {p}
      PROVE  /\ proc'[q].launched <= proc'[q].last /\ proc'[q].last <= now'
             /\ proc'[q].scheduler = "waiting" =>
                   \A u \in (proc'[q].launched + 1)..proc'[q].last : Settled(q, u)'
             /\ proc'[q].scheduler = "starting" =>
                   /\ proc'[q].launched < proc'[q].last
                   /\ \A u \in (proc'[q].launched + 1)..(proc'[q].last - 1) : Settled(q, u)'
    <2>1. proc'[q] = proc[q] /\ proc[q].launched \in 0..MaxTick /\ proc[q].last \in 0..MaxTick
        BY <1>1
    <2>2. \A u \in (proc[q].launched + 1)..proc[q].last : u \in Ticks
        BY <2>1, Bounds DEF Ticks
    <2>3. \A u \in (proc[q].launched + 1)..(proc[q].last - 1) : u \in Ticks
        BY <2>1, Bounds DEF Ticks
    <2> QED BY <2>1, <2>2, <2>3 DEF SchedulerInv
<1>4. /\ proc'[p].launched <= proc'[p].last /\ proc'[p].last <= now'
      /\ \A u \in (proc'[p].launched + 1)..proc'[p].last : Settled(p, u)'
    <2>1. /\ proc[p].launched < proc[p].last /\ proc[p].last <= now
          /\ \A u \in (proc[p].launched + 1)..(proc[p].last - 1) : Settled(p, u)
        BY DEF SchedulerInv
    <2>2. ASSUME NEW u \in (proc[p].launched + 1)..proc[p].last PROVE Settled(p, u)'
        <3>1. u \in Ticks /\ (u = proc[p].last \/ u \in (proc[p].launched + 1)..(proc[p].last - 1))
            BY <1>1, Bounds DEF Ticks
        <3> QED BY <2>1, <3>1
    <2>3. proc[p].launched <= proc[p].last
        BY <1>1, <2>1
    <2> QED BY <2>1, <2>2, <2>3
<1> QED BY <1>3, <1>4 DEF SchedulerInv

\* Every step preserves the invariant.
LEMMA NextInv == Inv /\ [Next]_vars => Inv'
<1> SUFFICES ASSUME Inv, [Next]_vars PROVE Inv'
    OBVIOUS
<1>1. TypeOK /\ BegunInv /\ DrainedInv /\ SchedulerInv
    BY DEF Inv
<1>2. CASE PassTime
    <2>1. TypeOK'
        BY <1>1, <1>2, Bounds DEF PassTime, TypeOK
    <2>2. SchedulerInv'
        BY <1>1, <1>2, Bounds DEF PassTime, TypeOK, Process, SchedulerInv, Settled
    <2> QED BY <1>1, <1>2, <2>1, <2>2 DEF PassTime, Inv, BegunInv, DrainedInv
<1>3. ASSUME NEW p \in Processes, NEW b \in Binaries, Launch(p, b) PROVE Inv'
    <2> DEFINE pc == process_config(Config[p], Env[p], b)
               new == [Down EXCEPT !.phase = "recovering", !.executor_id = pc.executor_id,
                                   !.application_version = pc.application_version,
                                   !.pending = ListPending(pc.executor_id, pc.application_version)]
    <2>1. proc' = [proc EXCEPT ![p] = new]
        BY <1>3 DEF Launch
    <2> HIDE DEF pc
    <2>2. pc.executor_id \in ExecutorIds /\ pc.application_version \in Versions
        BY ConfiguredIdentity DEF pc
    <2>3. ListPending(pc.executor_id, pc.application_version) \subseteq Ticks
        BY DEF ListPending
    <2>4. /\ new \in Process /\ new.phase = "recovering" /\ new.scheduler = "off"
          /\ new.launched = 0 /\ new.last = 0 /\ new.drained = FALSE
        BY <2>2, <2>3, DownOK DEF Process
    <2> HIDE DEF new
    <2>5. now \in Nat /\ stops \in Nat
        BY <1>1, Bounds DEF TypeOK
    <2>6. new.launched <= new.last /\ new.last <= now
        BY <2>4, <2>5
    <2> QED BY <1>3, <2>1, <2>4, <2>5, <2>6, QuietStep DEF Launch
<1>4. ASSUME NEW p \in Processes, NEW t \in Ticks, RecoverOne(p, t) PROVE Inv'
    <2> DEFINE new == [proc[p] EXCEPT !.pending = @ \ {t}]
    <2>1. proc' = [proc EXCEPT ![p] = new]
        BY <1>4 DEF RecoverOne
    <2>2. /\ new \in Process /\ new.phase = proc[p].phase /\ new.scheduler = proc[p].scheduler
          /\ new.launched = proc[p].launched /\ new.last = proc[p].last /\ new.drained = proc[p].drained
          /\ proc[p].executor_id \in ExecutorIds
        <3>1. proc[p] \in Process
            BY <1>1 DEF TypeOK
        <3> QED BY <3>1 DEF Process
    <2> HIDE DEF new
    <2>3. /\ proc' \in [Processes -> Process]
          /\ proc'[p] = new
          /\ \A q \in Processes \ {p} : proc'[q] = proc[q]
        BY <1>1, <2>1, <2>2, Replace
    <2>4. /\ rows' \in [Ticks -> Row]
          /\ \A u \in Ticks : /\ rows[u].status # "ABSENT" => rows'[u].status # "ABSENT"
                              /\ rows[u].status = "SUCCESS" => rows'[u].status = "SUCCESS"
        BY <1>1, <1>4, UpsertOk, WriteRow DEF RecoverOne
    <2>5. /\ tasks' \in [Processes -> SUBSET Ticks] /\ begun' \in [Processes -> SUBSET Ticks]
          /\ runs' \in [Ticks -> Nat]
        BY <1>1, <1>4 DEF RecoverOne, Spawn, TypeOK
    <2>6. TypeOK'
        BY <1>1, <1>4, <2>3, <2>4, <2>5 DEF RecoverOne, TypeOK
    <2>7. BegunInv'
        BY <1>1, <1>4, <2>4 DEF RecoverOne, Spawn, TypeOK, BegunInv
    <2>8. DrainedInv'
        BY <1>1, <1>4, <2>2, <2>3 DEF RecoverOne, Spawn, TypeOK, DrainedInv
    <2>9. SchedulerInv'
        <3>1. UNCHANGED <<now, skipped>>
            BY <1>4 DEF RecoverOne
        <3>2. \A q \in Processes, u \in Ticks : Settled(q, u) => Settled(q, u)'
            BY <2>4, <3>1 DEF Settled
        <3> QED BY <1>1, <2>2, <2>3, <3>1, <3>2, SchedulerKept
    <2> QED BY <2>6, <2>7, <2>8, <2>9 DEF Inv
<1>5. ASSUME NEW p \in Processes, StartRunners(p) PROVE Inv'
    <2> DEFINE new == [proc[p] EXCEPT !.phase = "up", !.scheduler = "waiting", !.launched = now, !.last = now]
    <2>1. proc' = [proc EXCEPT ![p] = new] /\ p \in Processes
        BY <1>1, <1>5 DEF StartRunners, TypeOK, Process
    <2>2. proc[p] \in Process
        BY <1>1 DEF TypeOK
    <2>3. new \in Process /\ new.phase = "up" /\ new.scheduler = "waiting" /\ new.launched = now
          /\ new.last = now /\ new.drained = proc[p].drained
        BY <1>1, <1>5, <2>2, Bounds DEF StartRunners, Process, TypeOK
    <2> HIDE DEF new
    <2>4. /\ new.phase = "closed" /\ new.drained => tasks[p] = {} /\ new.scheduler = "off"
          /\ new.launched <= new.last /\ new.last <= now
          /\ new.scheduler = "waiting" => \A t \in (new.launched + 1)..new.last : Settled(p, t)
          /\ new.scheduler = "starting" =>
                /\ new.launched < new.last
                /\ \A t \in (new.launched + 1)..(new.last - 1) : Settled(p, t)
          /\ stops' \in Nat
        <3>1. /\ proc[p].launched \in Nat /\ proc[p].last \in Nat /\ now \in Nat
              /\ stops \in Nat
            BY <1>1, Bounds DEF TypeOK, Process
        <3> QED BY <1>1, <1>5, <2>3, <3>1 DEF StartRunners, BegunInv, DrainedInv, SchedulerInv
    <2> QED BY <1>5, <2>1, <2>3, <2>4, QuietStep DEF StartRunners, TypeOK
<1>6. ASSUME NEW p \in Processes, Wake(p) PROVE Inv'
    <2> DEFINE new == [proc[p] EXCEPT !.scheduler = "starting", !.last = NextTick(p)]
    <2>1. proc' = [proc EXCEPT ![p] = new] /\ p \in Processes
        BY <1>1, <1>6 DEF Wake, NextTick, TypeOK, Process
    <2>2. proc[p] \in Process
        BY <1>1 DEF TypeOK
    <2>3. new \in Process /\ new.phase = proc[p].phase /\ new.scheduler = "starting" /\ new.launched = proc[p].launched
          /\ new.last = proc[p].last + 1 /\ new.drained = proc[p].drained
        BY <1>1, <1>6, <2>2, Bounds DEF Wake, NextTick, Process, TypeOK
    <2> HIDE DEF new
    <2>4. /\ new.phase = "closed" /\ new.drained => tasks[p] = {} /\ new.scheduler = "off"
          /\ new.launched <= new.last /\ new.last <= now
          /\ new.scheduler = "waiting" => \A t \in (new.launched + 1)..new.last : Settled(p, t)
          /\ new.scheduler = "starting" =>
                /\ new.launched < new.last
                /\ \A t \in (new.launched + 1)..(new.last - 1) : Settled(p, t)
          /\ stops' \in Nat
        <3>1. /\ proc[p].launched \in Nat /\ proc[p].last \in Nat /\ now \in Nat
              /\ stops \in Nat
            BY <1>1, Bounds DEF TypeOK, Process
        <3> QED BY <1>1, <1>6, <2>3, <3>1 DEF Wake, BegunInv, DrainedInv, SchedulerInv
    <2> QED BY <1>6, <2>1, <2>3, <2>4, QuietStep DEF Wake, TypeOK
<1>7. ASSUME NEW p \in Processes, StopScheduler(p) PROVE Inv'
    <2> DEFINE new == [proc[p] EXCEPT !.scheduler = "off"]
    <2>1. proc' = [proc EXCEPT ![p] = new] /\ p \in Processes
        BY <1>1, <1>7 DEF StopScheduler, TypeOK, Process
    <2>2. proc[p] \in Process
        BY <1>1 DEF TypeOK
    <2>3. new \in Process /\ new.phase = proc[p].phase /\ new.scheduler = "off" /\ new.launched = proc[p].launched
          /\ new.last = proc[p].last /\ new.drained = proc[p].drained
        BY <1>1, <1>7, <2>2, Bounds DEF StopScheduler, Process, TypeOK
    <2> HIDE DEF new
    <2>4. /\ new.phase = "closed" /\ new.drained => tasks[p] = {} /\ new.scheduler = "off"
          /\ new.launched <= new.last /\ new.last <= now
          /\ new.scheduler = "waiting" => \A t \in (new.launched + 1)..new.last : Settled(p, t)
          /\ new.scheduler = "starting" =>
                /\ new.launched < new.last
                /\ \A t \in (new.launched + 1)..(new.last - 1) : Settled(p, t)
          /\ stops' \in Nat
        <3>1. /\ proc[p].launched \in Nat /\ proc[p].last \in Nat /\ now \in Nat
              /\ stops \in Nat
            BY <1>1, Bounds DEF TypeOK, Process
        <3> QED BY <1>1, <1>7, <2>3, <3>1 DEF StopScheduler, BegunInv, DrainedInv, SchedulerInv
    <2> QED BY <1>7, <2>1, <2>3, <2>4, QuietStep DEF StopScheduler, TypeOK
<1>8. ASSUME NEW p \in Processes, Deactivate(p) PROVE Inv'
    <2> DEFINE new == [proc[p] EXCEPT !.deactivated = TRUE]
    <2>1. proc' = [proc EXCEPT ![p] = new] /\ p \in Processes
        BY <1>1, <1>8 DEF Deactivate, TypeOK, Process
    <2>2. proc[p] \in Process
        BY <1>1 DEF TypeOK
    <2>3. new \in Process /\ new.phase = proc[p].phase /\ new.scheduler = proc[p].scheduler /\ new.launched = proc[p].launched
          /\ new.last = proc[p].last /\ new.drained = proc[p].drained
        BY <1>1, <1>8, <2>2, Bounds DEF Deactivate, Process, TypeOK
    <2> HIDE DEF new
    <2>4. /\ new.phase = "closed" /\ new.drained => tasks[p] = {} /\ new.scheduler = "off"
          /\ new.launched <= new.last /\ new.last <= now
          /\ new.scheduler = "waiting" => \A t \in (new.launched + 1)..new.last : Settled(p, t)
          /\ new.scheduler = "starting" =>
                /\ new.launched < new.last
                /\ \A t \in (new.launched + 1)..(new.last - 1) : Settled(p, t)
          /\ stops' \in Nat
        <3>1. /\ proc[p].launched \in Nat /\ proc[p].last \in Nat /\ now \in Nat
              /\ stops \in Nat
            BY <1>1, Bounds DEF TypeOK, Process
        <3> QED BY <1>1, <1>8, <2>3, <3>1 DEF Deactivate, BegunInv, DrainedInv, SchedulerInv
    <2> QED BY <1>8, <2>1, <2>3, <2>4, QuietStep DEF Deactivate, TypeOK
<1>9. ASSUME NEW p \in Processes, Shutdown(p) PROVE Inv'
    <2> DEFINE new == [proc[p] EXCEPT !.phase = "draining"]
    <2>1. proc' = [proc EXCEPT ![p] = new] /\ p \in Processes
        BY <1>1, <1>9 DEF Shutdown, TypeOK, Process
    <2>2. proc[p] \in Process
        BY <1>1 DEF TypeOK
    <2>3. new \in Process /\ new.phase = "draining" /\ new.scheduler = proc[p].scheduler /\ new.launched = proc[p].launched
          /\ new.last = proc[p].last /\ new.drained = proc[p].drained
        BY <1>1, <1>9, <2>2, Bounds DEF Shutdown, Process, TypeOK
    <2> HIDE DEF new
    <2>4. /\ new.phase = "closed" /\ new.drained => tasks[p] = {} /\ new.scheduler = "off"
          /\ new.launched <= new.last /\ new.last <= now
          /\ new.scheduler = "waiting" => \A t \in (new.launched + 1)..new.last : Settled(p, t)
          /\ new.scheduler = "starting" =>
                /\ new.launched < new.last
                /\ \A t \in (new.launched + 1)..(new.last - 1) : Settled(p, t)
          /\ stops' \in Nat
        <3>1. /\ proc[p].launched \in Nat /\ proc[p].last \in Nat /\ now \in Nat
              /\ stops \in Nat
            BY <1>1, Bounds DEF TypeOK, Process
        <3> QED BY <1>1, <1>9, <2>3, <3>1 DEF Shutdown, BegunInv, DrainedInv, SchedulerInv
    <2> QED BY <1>9, <2>1, <2>3, <2>4, QuietStep DEF Shutdown
<1>10. ASSUME NEW p \in Processes, ClosePool(p) PROVE Inv'
    <2>1. PICK drained \in BOOLEAN :
            /\ drained => TrackerIsEmpty(p)
            /\ proc' = [proc EXCEPT ![p].phase = "closed", ![p].drained = drained]
        BY <1>10 DEF ClosePool
    <2> DEFINE new == [proc[p] EXCEPT !.phase = "closed", !.drained = drained]
    <2>2. proc[p] \in Process
        BY <1>1 DEF TypeOK
    <2>3. proc' = [proc EXCEPT ![p] = new]
        BY <1>1, <2>1 DEF TypeOK, Process
    <2>4. new \in Process /\ new.phase = "closed" /\ new.scheduler = proc[p].scheduler
          /\ new.launched = proc[p].launched /\ new.last = proc[p].last /\ new.drained = drained
        BY <2>2 DEF Process
    <2> HIDE DEF new
    <2>5. /\ new.phase = "closed" /\ new.drained => tasks[p] = {} /\ new.scheduler = "off"
          /\ new.launched <= new.last /\ new.last <= now
          /\ new.scheduler = "waiting" => \A t \in (new.launched + 1)..new.last : Settled(p, t)
          /\ new.scheduler = "starting" =>
                /\ new.launched < new.last
                /\ \A t \in (new.launched + 1)..(new.last - 1) : Settled(p, t)
        BY <1>1, <1>10, <2>1, <2>4 DEF ClosePool, TrackerIsEmpty, SchedulerInv
    <2> QED BY <1>1, <1>10, <2>3, <2>4, <2>5, QuietStep DEF ClosePool, TypeOK
<1>11. ASSUME NEW p \in Processes, FireTickFails(p) PROVE Inv'
    <2>1. PICK t \in Ticks : t = proc[p].last
        BY <1>1, <1>11, Bounds DEF FireTickFails, SchedulerInv, TypeOK, Process, Ticks
    <2> DEFINE new == [proc[p] EXCEPT !.scheduler = "waiting"]
    <2>2. proc' = [proc EXCEPT ![p] = new]
        BY <1>11 DEF FireTickFails
    <2>3. /\ new \in Process /\ new.phase = proc[p].phase /\ new.scheduler = "waiting"
          /\ new.launched = proc[p].launched /\ new.last = proc[p].last /\ new.drained = proc[p].drained
          /\ proc[p].executor_id \in ExecutorIds /\ proc[p].application_version \in Versions
        <3>1. proc[p] \in Process
            BY <1>1 DEF TypeOK
        <3> QED BY <3>1 DEF Process
    <2> HIDE DEF new
    <2>4. /\ proc' \in [Processes -> Process]
          /\ proc'[p] = new
          /\ \A q \in Processes \ {p} : proc'[q] = proc[q]
        BY <1>1, <2>2, <2>3, Replace
    <2>5. /\ rows' \in [Ticks -> Row]
          /\ \A u \in Ticks : /\ rows[u].status # "ABSENT" => rows'[u].status # "ABSENT"
                              /\ rows[u].status = "SUCCESS" => rows'[u].status = "SUCCESS"
          /\ skipped' \in [Processes -> SUBSET Ticks] /\ orphans' \in [Processes -> SUBSET Ticks]
          /\ \A q \in Processes : skipped[q] \subseteq skipped'[q] /\ orphans[q] \subseteq orphans'[q]
          /\ rows'[t].status # "ABSENT" \/ t \in skipped'[p]
        <3>1. CASE skipped' = [skipped EXCEPT ![p] = @ \cup {t}] /\ UNCHANGED <<rows, orphans>>
            BY <1>1, <3>1 DEF TypeOK
        <3>2. CASE rows' = [rows EXCEPT ![t] = Upsert(p, t)] /\ Orphan(p, t) /\ UNCHANGED skipped
            <4>1. /\ rows' \in [Ticks -> Row] /\ rows'[t].status # "ABSENT"
                  /\ \A u \in Ticks : /\ rows[u].status # "ABSENT" => rows'[u].status # "ABSENT"
                                      /\ rows[u].status = "SUCCESS" => rows'[u].status = "SUCCESS"
                BY <1>1, <3>2, UpsertOk, WriteRow
            <4> QED BY <1>1, <3>2, <4>1 DEF Orphan, TypeOK
        <3> QED BY <1>11, <2>1, <3>1, <3>2 DEF FireTickFails
    <2>6. /\ Settled(p, t)'
          /\ \A q \in Processes, u \in Ticks : Settled(q, u) => Settled(q, u)'
        BY <2>5 DEF Settled
    <2>7. TypeOK'
        BY <1>1, <1>11, <2>4, <2>5 DEF FireTickFails, TypeOK
    <2>8. BegunInv'
        BY <1>1, <1>11, <2>5 DEF FireTickFails, TypeOK, BegunInv
    <2>9. DrainedInv'
        BY <1>1, <1>11, <2>3, <2>4 DEF FireTickFails, DrainedInv
    <2>10. SchedulerInv'
        <3>1. proc[p].scheduler = "starting" /\ UNCHANGED now
            BY <1>11 DEF FireTickFails
        <3>2. /\ proc'[p].launched = proc[p].launched /\ proc'[p].last = proc[p].last /\ proc'[p].scheduler = "waiting"
              /\ proc'[p].last \in Ticks /\ Settled(p, proc[p].last)'
            BY <2>1, <2>3, <2>4, <2>6 DEF Settled
        <3> QED BY <1>1, <2>4, <2>6, <3>1, <3>2, LoopSettles
    <2> QED BY <2>7, <2>8, <2>9, <2>10 DEF Inv
<1>12. ASSUME NEW p \in Processes, FireTick(p) PROVE Inv'
    <2>1. PICK t \in Ticks : t = proc[p].last
        BY <1>1, <1>12, Bounds DEF FireTick, SchedulerInv, TypeOK, Process, Ticks
    <2> DEFINE new == [proc[p] EXCEPT !.scheduler = "waiting"]
    <2>2. proc' = [proc EXCEPT ![p] = new]
        BY <1>12 DEF FireTick
    <2>3. /\ new \in Process /\ new.phase = proc[p].phase /\ new.scheduler = "waiting"
          /\ new.launched = proc[p].launched /\ new.last = proc[p].last /\ new.drained = proc[p].drained
          /\ proc[p].executor_id \in ExecutorIds /\ proc[p].application_version \in Versions
        <3>1. proc[p] \in Process
            BY <1>1 DEF TypeOK
        <3> QED BY <3>1 DEF Process
    <2> HIDE DEF new
    <2>4. /\ proc' \in [Processes -> Process]
          /\ proc'[p] = new
          /\ \A q \in Processes \ {p} : proc'[q] = proc[q]
        BY <1>1, <2>2, <2>3, Replace
    <2>5. /\ rows' \in [Ticks -> Row] /\ rows'[t].status # "ABSENT"
          /\ \A u \in Ticks : /\ rows[u].status # "ABSENT" => rows'[u].status # "ABSENT"
                              /\ rows[u].status = "SUCCESS" => rows'[u].status = "SUCCESS"
        <3>1. rows' = [rows EXCEPT ![t] = Upsert(p, t)]
            BY <1>12, <2>1 DEF FireTick
        <3> QED BY <1>1, <3>1, UpsertOk, WriteRow
    <2>6. /\ Settled(p, t)'
          /\ \A q \in Processes, u \in Ticks : Settled(q, u) => Settled(q, u)'
        BY <1>12, <2>5 DEF FireTick, Settled
    <2>7. /\ tasks' \in [Processes -> SUBSET Ticks] /\ begun' \in [Processes -> SUBSET Ticks]
          /\ runs' \in [Ticks -> Nat] /\ orphans' \in [Processes -> SUBSET Ticks]
          /\ \A q \in Processes : orphans[q] \subseteq orphans'[q]
        <3>1. /\ orphans' \in [Processes -> SUBSET Ticks]
              /\ \A q \in Processes : orphans[q] \subseteq orphans'[q]
            <4>1. UNCHANGED orphans \/ Orphan(p, t)
                BY <1>12, <2>1 DEF FireTick
            <4>2. orphans \in [Processes -> SUBSET Ticks]
                BY <1>1 DEF TypeOK
            <4> QED BY <4>1, <4>2 DEF Orphan
        <3>2. CASE rows[t].status = "ABSENT"
            BY <1>1, <1>12, <2>1, <3>1, <3>2 DEF FireTick, Spawn, TypeOK
        <3>3. CASE rows[t].status # "ABSENT"
            BY <1>1, <1>12, <2>1, <3>1, <3>3 DEF FireTick, TypeOK
        <3> QED BY <3>2, <3>3
    <2>8. TypeOK'
        BY <1>1, <1>12, <2>4, <2>5, <2>7 DEF FireTick, TypeOK
    <2>9. BegunInv'
        <3>1. \A q \in Processes : /\ tasks[q] \subseteq tasks'[q]
                                   /\ \A u \in begun'[q] : u \in begun[q] \/ u \in tasks'[q]
            <4>1. Spawn(p, t) \/ UNCHANGED <<tasks, begun>>
                BY <1>12, <2>1 DEF FireTick
            <4> QED BY <1>1, <4>1 DEF Spawn, TypeOK
        <3>2. begun \in [Processes -> SUBSET Ticks]
            BY <1>1 DEF TypeOK
        <3> QED BY <1>1, <2>5, <2>7, <3>1, <3>2 DEF BegunInv
    <2>10. DrainedInv'
        BY <1>1, <1>12, <2>3, <2>4 DEF FireTick, Spawn, TypeOK, DrainedInv
    <2>11. SchedulerInv'
        <3>1. proc[p].scheduler = "starting" /\ UNCHANGED now
            BY <1>12 DEF FireTick
        <3>2. /\ proc'[p].launched = proc[p].launched /\ proc'[p].last = proc[p].last /\ proc'[p].scheduler = "waiting"
              /\ proc'[p].last \in Ticks /\ Settled(p, proc[p].last)'
            BY <2>1, <2>3, <2>4, <2>6 DEF Settled
        <3> QED BY <1>1, <2>4, <2>6, <3>1, <3>2, LoopSettles
    <2> QED BY <2>8, <2>9, <2>10, <2>11 DEF Inv
<1>13. ASSUME NEW p \in Processes, NEW t \in Ticks, EndTask(p, t) PROVE Inv'
    <2>1. /\ rows' \in [Ticks -> Row] /\ rows'[t].status = "SUCCESS"
          /\ \A u \in Ticks \ {t} : rows'[u] = rows[u]
        BY <1>1, <1>13 DEF EndTask, TypeOK, Row
    <2>2. TypeOK'
        BY <1>1, <1>13, <2>1 DEF EndTask, TypeOK
    <2>3. BegunInv'
        BY <1>1, <1>13, <2>1 DEF EndTask, TypeOK, BegunInv
    <2>4. DrainedInv'
        BY <1>1, <1>13 DEF EndTask, TypeOK, DrainedInv
    <2>5. \A q \in Processes, u \in Ticks : Settled(q, u) => Settled(q, u)'
        BY <1>13, <2>1 DEF EndTask, Settled
    <2>6. SchedulerInv'
        BY <1>1, <1>13, <2>5, SchedulerKept DEF EndTask
    <2> QED BY <2>2, <2>3, <2>4, <2>6 DEF Inv
<1>14. ASSUME NEW p \in Processes, Exit(p) PROVE Inv'
    <2>1. /\ proc' \in [Processes -> Process]
          /\ proc'[p] = Down
          /\ \A q \in Processes \ {p} : proc'[q] = proc[q]
        BY <1>1, <1>14, DownOK, Replace DEF Exit
    <2>2. broken' \in [Ticks -> Nat] /\ stops' \in Nat
        BY <1>1, <1>14 DEF Exit, TypeOK
    <2>3. TypeOK'
        BY <1>1, <1>14, <2>1, <2>2 DEF Exit, TypeOK
    <2>4. BegunInv'
        BY <1>1, <1>14, <2>1, DownOK DEF Exit, TypeOK, BegunInv
    <2>5. DrainedInv'
        BY <1>1, <1>14, <2>1, DownOK DEF Exit, TypeOK, DrainedInv
    <2>6. SchedulerInv'
        <3>1. now \in Nat
            BY <1>1, Bounds DEF TypeOK
        <3> QED BY <1>1, <1>14, <2>1, <3>1, DownOK DEF Exit, SchedulerInv, Settled
    <2> QED BY <2>3, <2>4, <2>5, <2>6 DEF Inv
<1>15. ASSUME NEW p \in Processes, NEW t \in Ticks, RecoverOneFails(p, t) PROVE Inv'
    <2> DEFINE new == [proc[p] EXCEPT !.pending = @ \ {t}]
    <2>1. proc' = [proc EXCEPT ![p] = new]
        BY <1>15 DEF RecoverOneFails
    <2>2. /\ new \in Process /\ new.phase = proc[p].phase /\ new.scheduler = proc[p].scheduler
          /\ new.launched = proc[p].launched /\ new.last = proc[p].last /\ new.drained = proc[p].drained
        <3>1. proc[p] \in Process
            BY <1>1 DEF TypeOK
        <3> QED BY <3>1 DEF Process
    <2> HIDE DEF new
    <2>3. /\ proc' \in [Processes -> Process]
          /\ proc'[p] = new
          /\ \A q \in Processes \ {p} : proc'[q] = proc[q]
        BY <1>1, <2>1, <2>2, Replace
    <2>4. /\ rows' \in [Ticks -> Row]
          /\ \A u \in Ticks : /\ rows[u].status # "ABSENT" => rows'[u].status # "ABSENT"
                              /\ rows[u].status = "SUCCESS" => rows'[u].status = "SUCCESS"
        <3>1. PICK row \in {rows[t], Upsert(p, t)} : rows' = [rows EXCEPT ![t] = row]
            BY <1>15 DEF RecoverOneFails
        <3>2. rows[t] \in Row
            BY <1>1 DEF TypeOK
        <3>3. /\ row \in Row
              /\ rows[t].status # "ABSENT" => row.status # "ABSENT"
              /\ rows[t].status = "SUCCESS" => row.status = "SUCCESS"
            BY <1>1, <3>1, <3>2, UpsertOk
        <3> QED BY <1>1, <3>1, <3>3, WriteRow
    <2>5. /\ orphans' \in [Processes -> SUBSET Ticks]
          /\ \A q \in Processes : orphans[q] \subseteq orphans'[q]
        BY <1>1, <1>15 DEF RecoverOneFails, Orphan, TypeOK
    <2>6. TypeOK'
        BY <1>1, <1>15, <2>3, <2>4, <2>5 DEF RecoverOneFails, TypeOK
    <2>7. BegunInv'
        BY <1>1, <1>15, <2>4, <2>5 DEF RecoverOneFails, TypeOK, BegunInv
    <2>8. DrainedInv'
        BY <1>1, <1>15, <2>2, <2>3 DEF RecoverOneFails, DrainedInv
    <2>9. SchedulerInv'
        <3>1. UNCHANGED <<now, skipped>>
            BY <1>15 DEF RecoverOneFails
        <3>2. \A q \in Processes, u \in Ticks : Settled(q, u) => Settled(q, u)'
            BY <2>4, <3>1 DEF Settled
        <3> QED BY <1>1, <2>2, <2>3, <3>1, <3>2, SchedulerKept
    <2> QED BY <2>6, <2>7, <2>8, <2>9 DEF Inv
<1>16. ASSUME NEW p \in Processes, NEW t \in Ticks, LoseOutcome(p, t) PROVE Inv'
    <2>1. /\ tasks' \in [Processes -> SUBSET Ticks] /\ orphans' \in [Processes -> SUBSET Ticks]
          /\ broken' \in [Ticks -> Nat] /\ t \in orphans'[p]
          /\ \A q \in Processes : /\ orphans[q] \subseteq orphans'[q]
                                  /\ tasks'[q] \subseteq tasks[q]
                                  /\ \A u \in tasks[q] \ tasks'[q] : q = p /\ u = t
        BY <1>1, <1>16 DEF LoseOutcome, Orphan, TypeOK
    <2>2. TypeOK'
        BY <1>1, <1>16, <2>1 DEF LoseOutcome, TypeOK
    <2>3. BegunInv'
        BY <1>1, <1>16, <2>1 DEF LoseOutcome, BegunInv
    <2>4. DrainedInv'
        BY <1>1, <1>16, <2>1 DEF LoseOutcome, DrainedInv
    <2>5. SchedulerInv'
        BY <1>1, <1>16 DEF LoseOutcome, SchedulerInv, Settled
    <2> QED BY <2>2, <2>3, <2>4, <2>5 DEF Inv
<1>17. CASE UNCHANGED vars
    BY <1>1, <1>17 DEF vars, Inv, TypeOK, BegunInv, DrainedInv, SchedulerInv, Settled
<1> QED BY <1>2, <1>3, <1>4, <1>5, <1>6, <1>7, <1>8, <1>9, <1>10, <1>11, <1>12, <1>13, <1>14, <1>15, <1>16, <1>17
        DEF Next

LEMMA Invariance == Spec => []Inv
<1> QED BY InitInv, NextInv, PTL DEF Spec

----
(* Theorems *)

\* Rows, processes and the scheduler are well formed in every reachable state: a row is owned by an
\* identity that process_config gave to some process.
THEOREM LifecycleTypeCorrect == Spec => []TypeOK
<1>1. Inv => TypeOK
    BY DEF Inv
<1> QED BY <1>1, Invariance, PTL

\* When the drain of shutdown ends before its timeout, nothing of this incarnation of the process goes on,
\* and no run of it was cut short: recovered ones, and those its schedule fired during the drain, have
\* their outcome, but for a run that had itself ended without one (a failed update, a panic).
THEOREM DrainCutsNothingShort == Spec => []DrainedMeansDone
<1>1. Inv => DrainedMeansDone
    BY DEF Inv, BegunInv, DrainedInv, DrainedMeansDone
<1> QED BY <1>1, Invariance, PTL

\* The schedule never passes over a tick, however late run_scheduler wakes up and whichever process
\* inserts the row first, but for the ticks whose insert failed.
THEOREM ScheduleSkipsNothing == Spec => []NoTickSkipped
<1>1. Inv => NoTickSkipped
    BY DEF Inv, SchedulerInv, Settled, NoTickSkipped
<1> QED BY <1>1, Invariance, PTL

----------------------------------------------------------------------------
(* The migrations that launch() runs before it starts anything. *)

IsOnline(v) == Migration[v].online

Applying == {"next", "list", "drop", "ddl", "building", "bump"}

\* Where a run can be, and which file it is at.
PcInv ==
    \A r \in Runners :
        /\ runner[r].pc \in Applying \ {"next"} =>
              /\ Pending(r) \in SchemaVersions
              /\ runner[r].pc # "ddl" => IsOnline(Pending(r))
        /\ runner[r].pc \in {"list", "drop"} => ~runner[r].cleaned
        /\ runner[r].pc \in {"ddl", "building", "bump"} /\ IsOnline(Pending(r)) => runner[r].cleaned

\* An index under construction is invalid, belongs to an online file, and its client, unless it has
\* died, waits for it.
BuildInv ==
    /\ \A r \in Runners : runner[r].pc = "building" => build.client = r
    /\ build # NoBuild =>
          /\ build.by \in SchemaVersions /\ IsOnline(build.by)
          /\ build.of \in Migration[build.by].creates
          /\ index[build.of] = Invalid
          /\ build.client \in Runners =>
                runner[build.client].pc = "building" /\ build.by = Pending(build.client)

RunInv == MigrationTypeOK /\ PcInv /\ BuildInv

\* What the table says, one fact at a time.
LEMMA Table ==
           /\ LatestVersion \in Nat /\ LatestVersion >= 1 /\ InitialVersions \subseteq Nat /\ MaxFaults \in Nat
           /\ SchemaVersions = 1..LatestVersion /\ SchemaVersions \subseteq Nat
           /\ "none" \notin Runners /\ "orphan" \notin Runners
           /\ \A v \in SchemaVersions :
                /\ IsOnline(v) \in BOOLEAN
                /\ Migration[v].creates \subseteq Indexes /\ Migration[v].drops \subseteq Indexes
                /\ Migration[v].creates \cap Migration[v].drops = {}
                /\ Migration[v].creates \cup Migration[v].drops # {} => Migration[v].locks
                /\ IsOnline(v) =>
                      Migration[v].conflicts = {} /\ \E i \in Indexes : Migration[v].creates \cup Migration[v].drops = {i}
<1>1. /\ LatestVersion \in Nat \ {0} /\ InitialVersions \subseteq Nat /\ MaxFaults \in Nat
      /\ Runners \cap {"none", "orphan"} = {}
      /\ Migration \in [SchemaVersions -> [online : BOOLEAN, conflicts : SUBSET SchemaVersions, locks : BOOLEAN,
                                        creates : SUBSET STRING, drops : SUBSET STRING]]
    BY MigrationAssumption
<1>2. \A v \in SchemaVersions :
          /\ Migration[v].creates \cap Migration[v].drops = {}
          /\ Migration[v].creates \cup Migration[v].drops # {} => Migration[v].locks
          /\ IsOnline(v) =>
                Migration[v].conflicts = {} /\ \E i \in Indexes : Migration[v].creates \cup Migration[v].drops = {i}
    BY MigrationAssumption DEF IsOnline
<1>3. \A v \in SchemaVersions : Migration[v].creates \subseteq Indexes /\ Migration[v].drops \subseteq Indexes
    BY DEF Indexes
<1>4. \A v \in SchemaVersions : IsOnline(v) \in BOOLEAN
    BY <1>1 DEF IsOnline
<1>5. /\ LatestVersion \in Nat /\ LatestVersion >= 1 /\ "none" \notin Runners /\ "orphan" \notin Runners
      /\ SchemaVersions = 1..LatestVersion /\ SchemaVersions \subseteq Nat
    BY <1>1 DEF SchemaVersions
<1> QED BY <1>1, <1>2, <1>3, <1>4, <1>5

\* An online file touches one index.
LEMMA OnlineTouchesOne ==
    ASSUME NEW v \in SchemaVersions, IsOnline(v),
           NEW i, NEW j, Touches(v, i), Touches(v, j)
    PROVE  i = j
BY Table DEF Touches

\* A name is dropped before it is created again.
LEMMA DropBetween ==
    ASSUME NEW u \in SchemaVersions, NEW v \in SchemaVersions, u < v,
           NEW i, i \in Migration[u].creates, i \in Migration[v].creates
    PROVE  \E d \in SchemaVersions : u < d /\ d < v /\ i \in Migration[d].drops
<1>1. u \in 1..(v - 1) /\ i \in Migration[u].creates \cap Migration[v].creates
    BY Table
<1>2. PICK d \in (u + 1)..(v - 1) : i \in Migration[d].drops
    BY <1>1, MigrationAssumption
<1>3. d \in SchemaVersions /\ u < d /\ d < v
    BY Table
<1> QED BY <1>2, <1>3

LEMMA GreatestVersion ==
    ASSUME NEW S \in SUBSET SchemaVersions, S # {}
    PROVE  Max(S) \in S /\ \A v \in S : v <= Max(S)
<1> DEFINE T == {LatestVersion - v : v \in S}
<1>1. T \subseteq Nat /\ T # {}
    <2>1. LatestVersion \in Nat /\ SchemaVersions = 1..LatestVersion
        BY Table
    <2>2. \A v \in S : LatestVersion - v \in Nat
        BY <2>1
    <2> QED BY <2>2
<1>2. PICK x \in T : \A y \in T : ~(<<y, x>> \in OpToRel(<, Nat))
    BY <1>1, WFMin, NatLessThanWellFounded, Zenon
<1>3. \A y \in T : ~(y < x)
    BY <1>1, <1>2 DEF OpToRel
<1>4. PICK m \in S : x = LatestVersion - m
    OBVIOUS
<1>5. \A v \in S : m >= v
    <2> SUFFICES ASSUME NEW v \in S PROVE m >= v
        OBVIOUS
    <2>1. LatestVersion - v \in T /\ ~(LatestVersion - v < LatestVersion - m)
        BY <1>3, <1>4
    <2>2. v \in Nat /\ m \in Nat /\ LatestVersion \in Nat
        BY Table
    <2> QED BY <2>1, <2>2
<1>6. Max(S) \in S /\ \A v \in S : Max(S) >= v
    BY <1>5 DEF Max
<1> QED BY <1>6, Table

\* The last file up to v that touches i decides what is left of i.
LEMMA IndexAtLast ==
    ASSUME NEW v \in Nat, NEW i, NEW u \in SchemaVersions, u <= v, Touches(u, i),
           \A w \in SchemaVersions : w <= v /\ Touches(w, i) => w <= u
    PROVE  IndexAt(v, i) = IF i \in Migration[u].creates THEN u ELSE Absent
<1> DEFINE touched == {w \in SchemaVersions : w <= v /\ Touches(w, i)}
<1>1. u \in touched /\ touched \subseteq SchemaVersions
    OBVIOUS
<1>2. Max(touched) \in touched /\ u <= Max(touched)
    BY <1>1, GreatestVersion
<1>3. Max(touched) = u
    BY <1>2, Table
<1> QED BY <1>1, <1>3 DEF IndexAt

\* Without such a file there is no index.
LEMMA IndexAtNone ==
    ASSUME NEW v, NEW i, \A w \in SchemaVersions : w <= v => ~Touches(w, i)
    PROVE  IndexAt(v, i) = Absent
BY DEF IndexAt

\* What IndexAt is when there is one.
LEMMA IndexAtCases ==
    ASSUME NEW v \in Nat, NEW i
    PROVE  \/ /\ \A w \in SchemaVersions : w <= v => ~Touches(w, i)
              /\ IndexAt(v, i) = Absent
           \/ \E u \in SchemaVersions :
                 /\ u <= v /\ Touches(u, i)
                 /\ \A w \in SchemaVersions : w <= v /\ Touches(w, i) => w <= u
                 /\ IndexAt(v, i) = IF i \in Migration[u].creates THEN u ELSE Absent
<1> DEFINE touched == {w \in SchemaVersions : w <= v /\ Touches(w, i)}
<1>1. CASE touched = {}
    BY <1>1, IndexAtNone
<1>2. CASE touched # {}
    <2>1. Max(touched) \in touched /\ \A w \in touched : w <= Max(touched)
        BY <1>2, GreatestVersion
    <2>2. PICK u \in touched : u = Max(touched)
        BY <2>1
    <2>3. \A w \in SchemaVersions : w <= v /\ Touches(w, i) => w <= u
        BY <2>1, <2>2
    <2> QED BY <2>2, <2>3, IndexAtLast
<1> QED BY <1>1, <1>2

LEMMA IndexAtValid ==
    ASSUME NEW v \in Nat, NEW i
    PROVE  IndexAt(v, i) \in 0..LatestVersion /\ IndexAt(v, i) # Invalid
<1>1. IndexAt(v, i) = Absent \/ IndexAt(v, i) \in SchemaVersions
    BY IndexAtCases
<1> QED BY <1>1, Table DEF Absent, Invalid

\* One more file.
LEMMA IndexAtNext ==
    ASSUME NEW v \in Nat, v + 1 \in SchemaVersions, NEW i
    PROVE  /\ ~Touches(v + 1, i) => IndexAt(v + 1, i) = IndexAt(v, i)
           /\ i \in Migration[v + 1].creates => IndexAt(v + 1, i) = v + 1 /\ IndexAt(v, i) = Absent
           /\ i \in Migration[v + 1].drops => IndexAt(v + 1, i) = Absent
<1>1. \A w \in SchemaVersions : w \in Nat /\ (w <= v + 1 <=> w <= v \/ w = v + 1)
    BY Table
<1>2. ASSUME ~Touches(v + 1, i) PROVE IndexAt(v + 1, i) = IndexAt(v, i)
    <2>1. {w \in SchemaVersions : w <= v + 1 /\ Touches(w, i)} = {w \in SchemaVersions : w <= v /\ Touches(w, i)}
        BY <1>1, <1>2
    <2> QED BY <2>1 DEF IndexAt
<1>3. ASSUME Touches(v + 1, i)
      PROVE  IndexAt(v + 1, i) = IF i \in Migration[v + 1].creates THEN v + 1 ELSE Absent
    <2>1. v + 1 \in Nat /\ v + 1 <= v + 1 /\ \A w \in SchemaVersions : w <= v + 1 /\ Touches(w, i) => w <= v + 1
        OBVIOUS
    <2> QED BY <1>3, <2>1, IndexAtLast
<1>4. ASSUME i \in Migration[v + 1].creates PROVE IndexAt(v, i) = Absent
    <2>1. ASSUME NEW u \in SchemaVersions, u <= v, Touches(u, i), i \in Migration[u].creates,
                 \A w \in SchemaVersions : w <= v /\ Touches(w, i) => w <= u
          PROVE  FALSE
        <3>1. u < v + 1
            BY <2>1, Table
        <3>2. PICK d \in SchemaVersions : u < d /\ d < v + 1 /\ i \in Migration[d].drops
            BY <1>4, <2>1, <3>1, DropBetween
        <3>3. d <= v /\ Touches(d, i)
            BY <1>1, <3>2 DEF Touches
        <3>4. d <= u
            BY <2>1, <3>3
        <3> QED BY <1>1, <3>2, <3>4
    <2> QED BY <2>1, IndexAtCases
<1>5. i \in Migration[v + 1].drops => i \notin Migration[v + 1].creates
    BY Table
<1> QED BY <1>2, <1>3, <1>4, <1>5 DEF Touches

\* r becomes this and no other run changes.
Becomes(r, pc, v, cleaned, names) ==
    /\ runner' \in [Runners -> Runner]
    /\ runner'[r].pc = pc /\ runner'[r].current_version = v
    /\ runner'[r].cleaned = cleaned /\ runner'[r].names = names
    /\ \A s \in Runners \ {r} : runner'[s] = runner[s]

LEMMA Moved ==
    ASSUME MigrationTypeOK, NEW r \in Runners, NEW new \in Runner, runner' = [runner EXCEPT ![r] = new]
    PROVE  Becomes(r, new.pc, new.current_version, new.cleaned, new.names)
BY DEF MigrationTypeOK, Becomes

LEMMA IdleRunner ==
    /\ Idle \in Runner
    /\ Idle.pc = "idle" /\ Idle.current_version = 0 /\ Idle.cleaned = FALSE /\ Idle.names = {}
BY DEF Idle, Runner

LEMMA BecomesIdle ==
    ASSUME MigrationTypeOK, NEW r \in Runners, runner' = [runner EXCEPT ![r] = Idle]
    PROVE  Becomes(r, "idle", 0, FALSE, {})
<1>1. Becomes(r, Idle.pc, Idle.current_version, Idle.cleaned, Idle.names)
    BY IdleRunner, Moved
<1> QED BY <1>1, IdleRunner

\* What each step does, field by field.
LEMMA LaunchEffect ==
    ASSUME RunInv, NEW r \in Runners, LaunchMigrates(r)
    PROVE  /\ runner[r].pc = "idle" /\ Becomes(r, "check", 0, FALSE, {})
           /\ overlapped' \in BOOLEAN
           /\ ~overlapped' => ~overlapped /\ \A s \in Runners : ~Active(s)
           /\ UNCHANGED <<relations, version, catalog, index, build, faults>>
<1> DEFINE new == [Idle EXCEPT !.pc = "check"]
<1>1. new \in Runner /\ new.pc = "check" /\ new.current_version = 0 /\ new.cleaned = FALSE /\ new.names = {}
    BY DEF Idle, Runner
<1>2. runner' = [runner EXCEPT ![r] = new]
    BY DEF LaunchMigrates
<1> HIDE DEF new
<1>3. Becomes(r, new.pc, new.current_version, new.cleaned, new.names)
    BY <1>1, <1>2, Moved DEF RunInv
<1> QED BY <1>1, <1>3 DEF LaunchMigrates, Active, db

LEMMA CheckEffect ==
    ASSUME RunInv, NEW r \in Runners, CheckRelations(r)
    PROVE  /\ runner[r].pc = "check"
           /\ Becomes(r, "create", runner[r].current_version, runner[r].cleaned, runner[r].names)
           /\ UNCHANGED <<relations, version, catalog, index, build, overlapped, faults>>
<1> DEFINE new == [runner[r] EXCEPT !.pc = "create", !.saw = relations]
<1>0. runner[r] \in Runner /\ relations \in SUBSET {"schema", "table"}
    BY DEF RunInv, MigrationTypeOK
<1>1. /\ new \in Runner /\ new.pc = "create" /\ new.current_version = runner[r].current_version
      /\ new.cleaned = runner[r].cleaned /\ new.names = runner[r].names
    BY <1>0 DEF Runner
<1>2. runner' = [runner EXCEPT ![r] = new]
    BY DEF CheckRelations
<1> HIDE DEF new
<1>3. Becomes(r, new.pc, new.current_version, new.cleaned, new.names)
    BY <1>1, <1>2, Moved DEF RunInv
<1> QED BY <1>1, <1>3 DEF CheckRelations, db

LEMMA CreateEffect ==
    ASSUME RunInv, NEW r \in Runners, CreateRelations(r)
    PROVE  /\ runner[r].pc = "create"
           /\ Becomes(r, "idle", 0, FALSE, {}) \/ Becomes(r, "next", version, FALSE, {})
           /\ relations' \subseteq {"schema", "table"}
           /\ UNCHANGED <<version, catalog, index, build, overlapped, faults>>
<1> DEFINE new == [Idle EXCEPT !.pc = "next", !.current_version = version]
<1>0. version \in Nat /\ relations \subseteq {"schema", "table"} /\ MigrationTypeOK
    BY DEF RunInv, MigrationTypeOK
<1>1. new \in Runner /\ new.pc = "next" /\ new.current_version = version /\ new.cleaned = FALSE /\ new.names = {}
    BY <1>0 DEF Idle, Runner
<1>2. /\ \/ runner' = [runner EXCEPT ![r] = Idle]
         \/ runner' = [runner EXCEPT ![r] = new]
      /\ relations' \subseteq {"schema", "table"}
    BY <1>0 DEF CreateRelations
<1> HIDE DEF new
<1>3. runner' = [runner EXCEPT ![r] = new] => Becomes(r, new.pc, new.current_version, new.cleaned, new.names)
    BY <1>0, <1>1, Moved
<1> QED BY <1>0, <1>1, <1>2, <1>3, BecomesIdle DEF CreateRelations

LEMMA NextEffect ==
    ASSUME RunInv, NEW r \in Runners, NextMigration(r)
    PROVE  /\ runner[r].pc = "next"
           /\ \/ runner[r].current_version >= LatestVersion /\ Becomes(r, "idle", 0, FALSE, {})
              \/ \E pc \in {"list", "ddl"} :
                    /\ Becomes(r, pc, runner[r].current_version, runner[r].cleaned, runner[r].names)
                    /\ Pending(r) \in SchemaVersions
                    /\ pc = "list" <=> IsOnline(Pending(r)) /\ ~runner[r].cleaned
           /\ UNCHANGED <<relations, version, catalog, index, build, overlapped, faults>>
<1> DEFINE pc == IF IsOnline(Pending(r)) /\ ~runner[r].cleaned THEN "list" ELSE "ddl"
           new == [runner[r] EXCEPT !.pc = pc]
<1>0. runner[r] \in Runner /\ MigrationTypeOK
    BY DEF RunInv, MigrationTypeOK
<1>1. /\ new \in Runner /\ new.pc = pc /\ new.current_version = runner[r].current_version
      /\ new.cleaned = runner[r].cleaned /\ new.names = runner[r].names
    BY <1>0 DEF Runner
<1>2. \/ runner[r].current_version >= LatestVersion /\ runner' = [runner EXCEPT ![r] = Idle]
      \/ runner[r].current_version < LatestVersion /\ runner' = [runner EXCEPT ![r] = new]
    BY DEF NextMigration, IsOnline
<1> HIDE DEF new
<1>3. runner' = [runner EXCEPT ![r] = new] => Becomes(r, new.pc, new.current_version, new.cleaned, new.names)
    BY <1>0, <1>1, Moved
<1>4. runner[r].current_version < LatestVersion => Pending(r) \in SchemaVersions
    BY <1>0, Table DEF Runner, Pending
<1>5. pc \in {"list", "ddl"} /\ (pc = "list" <=> IsOnline(Pending(r)) /\ ~runner[r].cleaned)
    OBVIOUS
<1> HIDE DEF pc
<1>6. runner[r].pc = "next" /\ UNCHANGED <<relations, version, catalog, index, build, overlapped, faults>>
    BY DEF NextMigration, db
<1> QED BY <1>0, <1>1, <1>2, <1>3, <1>4, <1>5, <1>6, BecomesIdle

LEMMA ListEffect ==
    ASSUME RunInv, NEW r \in Runners, ListInvalidIndexes(r)
    PROVE  /\ runner[r].pc = "list"
           /\ Becomes(r, "drop", runner[r].current_version, runner[r].cleaned, {i \in Indexes : index[i] = Invalid})
           /\ UNCHANGED <<relations, version, catalog, index, build, overlapped, faults>>
<1> DEFINE names == {i \in Indexes : index[i] = Invalid}
           new == [runner[r] EXCEPT !.pc = "drop", !.names = names]
<1>0. runner[r] \in Runner /\ MigrationTypeOK /\ names \in SUBSET Indexes
    BY DEF RunInv, MigrationTypeOK
<1>2. runner' = [runner EXCEPT ![r] = new]
    BY DEF ListInvalidIndexes
<1> HIDE DEF names
<1>1. /\ new \in Runner /\ new.pc = "drop" /\ new.current_version = runner[r].current_version
      /\ new.cleaned = runner[r].cleaned /\ new.names = names
    BY <1>0 DEF Runner
<1> HIDE DEF new
<1>3. Becomes(r, new.pc, new.current_version, new.cleaned, new.names)
    BY <1>0, <1>1, <1>2, Moved
<1>4. runner[r].pc = "list" /\ UNCHANGED <<relations, version, catalog, index, build, overlapped, faults>>
    BY DEF ListInvalidIndexes, db
<1> QED BY <1>1, <1>3, <1>4 DEF names

LEMMA CleanEffect ==
    ASSUME RunInv, NEW r \in Runners, DropInvalidIndex(r)
    PROVE  /\ runner[r].pc = "drop"
           /\ \/ /\ runner[r].names = {} /\ Becomes(r, "ddl", runner[r].current_version, TRUE, {})
                 /\ UNCHANGED index
              \/ \E i \in runner[r].names :
                    /\ i \in Indexes /\ build = NoBuild /\ index' = [index EXCEPT ![i] = Absent]
                    /\ Becomes(r, "drop", runner[r].current_version, runner[r].cleaned, runner[r].names \ {i})
           /\ UNCHANGED <<relations, version, catalog, build, overlapped, faults>>
<1>0. runner[r] \in Runner /\ MigrationTypeOK
    BY DEF RunInv, MigrationTypeOK
<1>1. runner[r].pc = "drop" /\ UNCHANGED <<relations, version, catalog, build, overlapped, faults>>
    BY DEF DropInvalidIndex
<1>2. CASE \E i \in runner[r].names :
             /\ build = NoBuild
             /\ index' = [index EXCEPT ![i] = Absent]
             /\ runner' = [runner EXCEPT ![r].names = @ \ {i}]
    <2>1. PICK i \in runner[r].names :
             /\ build = NoBuild
             /\ index' = [index EXCEPT ![i] = Absent]
             /\ runner' = [runner EXCEPT ![r].names = @ \ {i}]
        BY <1>2
    <2> DEFINE new == [runner[r] EXCEPT !.names = runner[r].names \ {i}]
    <2>2. runner' = [runner EXCEPT ![r] = new]
        BY <2>1
    <2>3. /\ i \in Indexes /\ new \in Runner /\ new.pc = runner[r].pc /\ new.current_version = runner[r].current_version
          /\ new.cleaned = runner[r].cleaned /\ new.names = runner[r].names \ {i}
        BY <1>0 DEF Runner
    <2> HIDE DEF new
    <2>4. Becomes(r, new.pc, new.current_version, new.cleaned, new.names)
        BY <1>0, <2>2, <2>3, Moved
    <2> QED BY <1>1, <2>1, <2>3, <2>4
<1>3. CASE /\ runner[r].names = {}
           /\ runner' = [runner EXCEPT ![r].pc = "ddl", ![r].cleaned = TRUE]
           /\ UNCHANGED index
    <2> DEFINE new == [runner[r] EXCEPT !.pc = "ddl", !.cleaned = TRUE]
    <2>2. runner' = [runner EXCEPT ![r] = new]
        BY <1>0, <1>3
    <2>3. /\ new \in Runner /\ new.pc = "ddl" /\ new.current_version = runner[r].current_version
          /\ new.cleaned = TRUE /\ new.names = {}
        BY <1>0, <1>3 DEF Runner
    <2> HIDE DEF new
    <2>4. Becomes(r, new.pc, new.current_version, new.cleaned, new.names)
        BY <1>0, <2>2, <2>3, Moved
    <2> QED BY <1>1, <1>3, <2>3, <2>4
<1> QED BY <1>2, <1>3 DEF DropInvalidIndex

\* What a catalog file does to the indexes.
CatalogIndex(m, v) ==
    [i \in Indexes |->
        IF i \in m.drops THEN Absent
        ELSE IF i \in m.creates /\ index[i] = Absent THEN v ELSE index[i]]

LEMMA AppliedRunner ==
    ASSUME RunInv, NEW r \in Runners, Applied(r)
    PROVE  Becomes(r, "next", Pending(r), runner[r].cleaned, runner[r].names)
<1> DEFINE new == [runner[r] EXCEPT !.pc = "next", !.current_version = Pending(r)]
<1>0. runner[r] \in Runner /\ MigrationTypeOK
    BY DEF RunInv, MigrationTypeOK
<1>2. runner' = [runner EXCEPT ![r] = new]
    BY <1>0 DEF Applied
<1>3. Pending(r) \in Nat
    BY <1>0 DEF Runner, Pending
<1>1. /\ new \in Runner /\ new.pc = "next" /\ new.current_version = Pending(r)
      /\ new.cleaned = runner[r].cleaned /\ new.names = runner[r].names
    BY <1>0, <1>3 DEF Runner
<1> HIDE DEF new
<1>4. Becomes(r, new.pc, new.current_version, new.cleaned, new.names)
    BY <1>0, <1>1, <1>2, Moved
<1> QED BY <1>1, <1>4

LEMMA CatalogEffect ==
    ASSUME RunInv, NEW r \in Runners, ApplyCatalog(r)
    PROVE  /\ runner[r].pc = "ddl" /\ ~IsOnline(Pending(r)) /\ Pending(r) \in SchemaVersions
           /\ \/ /\ Migration[Pending(r)].conflicts \cap catalog # {}
                 /\ Becomes(r, "idle", 0, FALSE, {}) /\ UNCHANGED <<version, catalog, index>>
              \/ /\ Migration[Pending(r)].conflicts \cap catalog = {}
                 /\ Migration[Pending(r)].locks => build = NoBuild
                 /\ Becomes(r, "next", Pending(r), runner[r].cleaned, runner[r].names)
                 /\ version' = Pending(r) /\ catalog' = catalog \cup {Pending(r)}
                 /\ index' = CatalogIndex(Migration[Pending(r)], Pending(r))
           /\ UNCHANGED <<relations, build, overlapped, faults>>
<1>0. MigrationTypeOK
    BY DEF RunInv
<1>1. runner[r].pc = "ddl" /\ ~IsOnline(Pending(r)) /\ UNCHANGED <<relations, build, overlapped, faults>>
    BY DEF ApplyCatalog, IsOnline
<1>2. Pending(r) \in SchemaVersions
    BY <1>1 DEF RunInv, PcInv, Applying
<1>3. CASE Migration[Pending(r)].conflicts \cap catalog # {}
    <2>1. runner' = [runner EXCEPT ![r] = Idle] /\ UNCHANGED <<version, catalog, index>>
        BY <1>3 DEF ApplyCatalog
    <2> QED BY <1>0, <1>1, <1>2, <1>3, <2>1, BecomesIdle
<1>4. CASE Migration[Pending(r)].conflicts \cap catalog = {}
    <2>1. /\ Applied(r) /\ version' = Pending(r) /\ catalog' = catalog \cup {Pending(r)}
          /\ index' = CatalogIndex(Migration[Pending(r)], Pending(r))
          /\ Migration[Pending(r)].locks => build = NoBuild
        BY <1>4 DEF ApplyCatalog, WriteVersion, CatalogIndex
    <2> QED BY <1>1, <1>2, <1>4, <2>1, AppliedRunner
<1> QED BY <1>3, <1>4

LEMMA MovesTo ==
    ASSUME RunInv, NEW r \in Runners, NEW pc \in {"ddl", "building", "bump"},
           runner' = [runner EXCEPT ![r].pc = pc]
    PROVE  Becomes(r, pc, runner[r].current_version, runner[r].cleaned, runner[r].names)
<1> DEFINE new == [runner[r] EXCEPT !.pc = pc]
<1>0. runner[r] \in Runner /\ MigrationTypeOK
    BY DEF RunInv, MigrationTypeOK
<1>2. runner' = [runner EXCEPT ![r] = new]
    BY <1>0
<1>1. /\ new \in Runner /\ new.pc = pc /\ new.current_version = runner[r].current_version
      /\ new.cleaned = runner[r].cleaned /\ new.names = runner[r].names
    BY <1>0 DEF Runner
<1> HIDE DEF new
<1>4. Becomes(r, new.pc, new.current_version, new.cleaned, new.names)
    BY <1>0, <1>1, <1>2, Moved
<1> QED BY <1>1, <1>4

LEMMA DropOnlineEffect ==
    ASSUME RunInv, NEW r \in Runners, DropOnline(r)
    PROVE  /\ runner[r].pc = "ddl" /\ IsOnline(Pending(r)) /\ Pending(r) \in SchemaVersions
           /\ build = NoBuild
           /\ \E i \in Migration[Pending(r)].drops : index' = [index EXCEPT ![i] = Absent]
           /\ Becomes(r, "bump", runner[r].current_version, runner[r].cleaned, runner[r].names)
           /\ UNCHANGED <<relations, version, catalog, build, overlapped, faults>>
<1>1. /\ runner[r].pc = "ddl" /\ IsOnline(Pending(r)) /\ build = NoBuild
      /\ \E i \in Migration[Pending(r)].drops : index' = [index EXCEPT ![i] = Absent]
      /\ runner' = [runner EXCEPT ![r].pc = "bump"]
      /\ UNCHANGED <<relations, version, catalog, build, overlapped, faults>>
    BY DEF DropOnline, IsOnline
<1>2. Pending(r) \in SchemaVersions
    BY <1>1 DEF RunInv, PcInv, Applying
<1>3. Becomes(r, "bump", runner[r].current_version, runner[r].cleaned, runner[r].names)
    BY <1>1, MovesTo
<1> QED BY <1>1, <1>2, <1>3

LEMMA CreateOnlineEffect ==
    ASSUME RunInv, NEW r \in Runners, CreateOnline(r)
    PROVE  /\ runner[r].pc = "ddl" /\ IsOnline(Pending(r)) /\ Pending(r) \in SchemaVersions
           /\ build = NoBuild
           /\ \E i \in Migration[Pending(r)].creates :
                 \/ /\ index[i] = Absent /\ index' = [index EXCEPT ![i] = Invalid]
                    /\ build' = [of |-> i, by |-> Pending(r), client |-> r]
                    /\ Becomes(r, "building", runner[r].current_version, runner[r].cleaned, runner[r].names)
                 \/ /\ index[i] # Absent /\ UNCHANGED <<index, build>>
                    /\ Becomes(r, "bump", runner[r].current_version, runner[r].cleaned, runner[r].names)
           /\ UNCHANGED <<relations, version, catalog, overlapped, faults>>
<1>1. /\ runner[r].pc = "ddl" /\ IsOnline(Pending(r)) /\ build = NoBuild
      /\ UNCHANGED <<relations, version, catalog, overlapped, faults>>
    BY DEF CreateOnline, IsOnline
<1>2. Pending(r) \in SchemaVersions
    BY <1>1 DEF RunInv, PcInv, Applying
<1>3. PICK i \in Migration[Pending(r)].creates :
         \/ /\ index[i] = Absent /\ index' = [index EXCEPT ![i] = Invalid]
            /\ build' = [of |-> i, by |-> Pending(r), client |-> r]
            /\ runner' = [runner EXCEPT ![r].pc = "building"]
         \/ /\ index[i] # Absent /\ UNCHANGED <<index, build>>
            /\ runner' = [runner EXCEPT ![r].pc = "bump"]
    BY DEF CreateOnline
<1>4. /\ runner' = [runner EXCEPT ![r].pc = "building"]
            => Becomes(r, "building", runner[r].current_version, runner[r].cleaned, runner[r].names)
      /\ runner' = [runner EXCEPT ![r].pc = "bump"]
            => Becomes(r, "bump", runner[r].current_version, runner[r].cleaned, runner[r].names)
    BY MovesTo
<1> QED BY <1>1, <1>2, <1>3, <1>4

LEMMA BuildDoneEffect ==
    ASSUME RunInv, NEW r \in Runners, BuildDone(r)
    PROVE  /\ runner[r].pc = "building" /\ IsOnline(Pending(r)) /\ Pending(r) \in SchemaVersions
           /\ \E i \in Migration[Pending(r)].creates :
                 /\ build # NoBuild /\ build.of = i /\ build.client = r
                 /\ index[i] = Invalid /\ index' = [index EXCEPT ![i] = Pending(r)]
           /\ build' = NoBuild
           /\ Becomes(r, "bump", runner[r].current_version, runner[r].cleaned, runner[r].names)
           /\ UNCHANGED <<relations, version, catalog, overlapped, faults>>
<1>1. /\ runner[r].pc = "building" /\ index' = [index EXCEPT ![build.of] = build.by] /\ build' = NoBuild
      /\ runner' = [runner EXCEPT ![r].pc = "bump"]
      /\ UNCHANGED <<relations, version, catalog, overlapped, faults>>
    BY DEF BuildDone
<1>2. Pending(r) \in SchemaVersions /\ IsOnline(Pending(r))
    BY <1>1 DEF RunInv, PcInv, Applying
<1>3. build.client = r
    BY <1>1 DEF RunInv, BuildInv
<1>4. build # NoBuild
    BY <1>3, Table DEF NoBuild
<1>5. build.by = Pending(r) /\ build.of \in Migration[Pending(r)].creates /\ index[build.of] = Invalid
    BY <1>3, <1>4 DEF RunInv, BuildInv
<1>6. Becomes(r, "bump", runner[r].current_version, runner[r].cleaned, runner[r].names)
    BY <1>1, MovesTo
<1> QED BY <1>1, <1>2, <1>3, <1>4, <1>5, <1>6

LEMMA BumpEffect ==
    ASSUME RunInv, NEW r \in Runners, BumpOnline(r)
    PROVE  /\ runner[r].pc = "bump" /\ IsOnline(Pending(r)) /\ Pending(r) \in SchemaVersions
           /\ version' = Pending(r)
           /\ Becomes(r, "next", Pending(r), runner[r].cleaned, runner[r].names)
           /\ UNCHANGED <<relations, catalog, index, build, overlapped, faults>>
<1>1. runner[r].pc = "bump" /\ version' = Pending(r) /\ Applied(r) /\ UNCHANGED <<relations, catalog, index, build, overlapped, faults>>
    BY DEF BumpOnline, WriteVersion
<1>2. Pending(r) \in SchemaVersions /\ IsOnline(Pending(r))
    BY <1>1 DEF RunInv, PcInv, Applying
<1> QED BY <1>1, <1>2, AppliedRunner

LEMMA CrashEffect ==
    ASSUME RunInv, NEW r \in Runners, Crash(r)
    PROVE  /\ runner[r].pc # "idle" /\ Becomes(r, "idle", 0, FALSE, {})
           /\ \/ build.client # r /\ UNCHANGED build
              \/ /\ build # NoBuild /\ build.client = r
                 /\ build' = [of |-> build.of, by |-> build.by, client |-> "orphan"]
           /\ faults < MaxFaults /\ faults' = faults + 1
           /\ UNCHANGED <<relations, version, catalog, index, overlapped>>
<1>0. MigrationTypeOK
    BY DEF RunInv
<1>1. /\ runner[r].pc # "idle" /\ runner' = [runner EXCEPT ![r] = Idle]
      /\ faults < MaxFaults /\ faults' = faults + 1
      /\ build' = IF build.client = r THEN [build EXCEPT !.client = "orphan"] ELSE build
      /\ UNCHANGED <<relations, version, catalog, index, overlapped>>
    BY DEF Crash, Active
<1>2. build.client = r => build # NoBuild
    BY Table DEF NoBuild
<1>3. build.client = r => build' = [of |-> build.of, by |-> build.by, client |-> "orphan"]
    BY <1>0, <1>1, <1>2 DEF MigrationTypeOK
<1> QED BY <1>0, <1>1, <1>2, <1>3, BecomesIdle

LEMMA FailEffect ==
    ASSUME RunInv, NEW r \in Runners, StatementFails(r)
    PROVE  /\ runner[r].pc # "idle" /\ Becomes(r, "idle", 0, FALSE, {})
           /\ \/ build.client # r /\ UNCHANGED build
              \/ build.client = r /\ build' = NoBuild
           /\ faults < MaxFaults /\ faults' = faults + 1
           /\ \/ UNCHANGED index
              \/ \E i \in Indexes :
                    /\ index[i] # Absent /\ build = NoBuild
                    /\ \/ runner[r].pc = "drop" /\ i \in runner[r].names
                       \/ runner[r].pc = "ddl" /\ IsOnline(Pending(r)) /\ i \in Migration[Pending(r)].drops
                    /\ index' = [index EXCEPT ![i] = Invalid]
           /\ UNCHANGED <<relations, version, catalog, overlapped>>
<1>0. MigrationTypeOK
    BY DEF RunInv
<1>1. /\ runner[r].pc # "idle" /\ runner' = [runner EXCEPT ![r] = Idle]
      /\ faults < MaxFaults /\ faults' = faults + 1
      /\ build' = IF build.client = r THEN NoBuild ELSE build
      /\ UNCHANGED <<relations, version, catalog, overlapped>>
    BY DEF StatementFails, Active
<1>2. \/ UNCHANGED index
      \/ \E i \in Indexes :
            /\ index[i] # Absent /\ build = NoBuild
            /\ \/ runner[r].pc = "drop" /\ i \in runner[r].names
               \/ runner[r].pc = "ddl" /\ IsOnline(Pending(r)) /\ i \in Migration[Pending(r)].drops
            /\ index' = [index EXCEPT ![i] = Invalid]
    BY DEF StatementFails, IsOnline
<1> QED BY <1>0, <1>1, <1>2, BecomesIdle

LEMMA OrphanEffect ==
    ASSUME RunInv, OrphanEnds
    PROVE  /\ build.client = "orphan" /\ build # NoBuild /\ build' = NoBuild
           /\ build.by \in SchemaVersions /\ IsOnline(build.by)
           /\ \E i \in Migration[build.by].creates :
                 /\ build.of = i /\ index[i] = Invalid
                 /\ UNCHANGED index \/ index' = [index EXCEPT ![i] = build.by]
           /\ UNCHANGED <<relations, version, catalog, runner, overlapped, faults>>
<1>1. /\ build.client = "orphan" /\ build' = NoBuild
      /\ \E v \in {Invalid, build.by} : index' = [index EXCEPT ![build.of] = v]
      /\ UNCHANGED <<relations, version, catalog, runner, overlapped, faults>>
    BY DEF OrphanEnds
<1>2. build # NoBuild
    BY <1>1 DEF NoBuild
<1>3. build.by \in SchemaVersions /\ IsOnline(build.by) /\ build.of \in Migration[build.by].creates /\ index[build.of] = Invalid
    BY <1>2 DEF RunInv, BuildInv
<1>4. index \in [Indexes -> IndexState]
    BY DEF RunInv, MigrationTypeOK
<1>5. [index EXCEPT ![build.of] = Invalid] = index
    BY <1>3, <1>4
<1> QED BY <1>1, <1>2, <1>3, <1>5

\* Where a run that has applied v may be.
Fits(pc, v, cleaned) ==
    /\ pc \in Applying \ {"next"} => v + 1 \in SchemaVersions /\ (pc # "ddl" => IsOnline(v + 1))
    /\ pc \in {"list", "drop"} => ~cleaned
    /\ pc \in {"ddl", "building", "bump"} /\ IsOnline(v + 1) => cleaned

LEMMA PcKept ==
    ASSUME PcInv, NEW r \in Runners, NEW pc, NEW v, NEW cleaned, NEW names, Becomes(r, pc, v, cleaned, names),
           Fits(pc, v, cleaned)
    PROVE  PcInv'
BY DEF PcInv, Becomes, Fits, Pending

\* A step that neither starts nor ends a build.
LEMMA BuildKept ==
    ASSUME RunInv, NEW r \in Runners, NEW pc, NEW v, NEW cleaned, NEW names, Becomes(r, pc, v, cleaned, names),
           runner[r].pc # "building", pc # "building", UNCHANGED build,
           build # NoBuild => index'[build.of] = index[build.of]
    PROVE  BuildInv'
<1>1. \A s \in Runners : runner'[s].pc = "building" => s # r /\ runner'[s] = runner[s]
    BY DEF Becomes
<1>2. \A s \in Runners : runner'[s].pc = "building" => build'.client = s
    BY <1>1 DEF RunInv, BuildInv
<1>3. ASSUME build # NoBuild
      PROVE  /\ build.by \in SchemaVersions /\ IsOnline(build.by)
             /\ build.of \in Migration[build.by].creates /\ index'[build.of] = Invalid
             /\ build.client \in Runners =>
                   runner'[build.client].pc = "building" /\ build.by = runner'[build.client].current_version + 1
    <2>1. build.client \in Runners => build.client # r
        BY <1>3 DEF RunInv, BuildInv
    <2> QED BY <1>3, <2>1 DEF RunInv, BuildInv, Becomes, Pending
<1> QED BY <1>2, <1>3 DEF BuildInv, NoBuild, Invalid, SchemaVersions, Pending

\* A step that leaves the database alone.
LEMMA RunOnly ==
    ASSUME RunInv, NEW r \in Runners, NEW pc, NEW v, NEW cleaned, NEW names, Becomes(r, pc, v, cleaned, names),
           runner[r].pc # "building", pc # "building",
           Fits(pc, v, cleaned),
           relations' \subseteq {"schema", "table"}, UNCHANGED <<version, catalog, index, build, faults>>,
           overlapped' \in BOOLEAN
    PROVE  RunInv'
<1>1. PcInv'
    BY PcKept DEF RunInv
<1>2. BuildInv'
    BY BuildKept
<1>3. MigrationTypeOK'
    BY DEF RunInv, MigrationTypeOK, Becomes
<1> QED BY <1>1, <1>2, <1>3 DEF RunInv

\* A step that changes what the database holds, and starts or ends no build.
LEMMA RunAndIndex ==
    ASSUME RunInv, NEW r \in Runners, NEW pc, NEW v, NEW cleaned, NEW names, Becomes(r, pc, v, cleaned, names),
           runner[r].pc # "building", pc # "building",
           Fits(pc, v, cleaned),
           version' \in Nat, catalog' \subseteq SchemaVersions, index' \in [Indexes -> IndexState],
           build # NoBuild => index'[build.of] = index[build.of],
           UNCHANGED <<relations, build, overlapped>>, faults' \in 0..MaxFaults
    PROVE  RunInv'
<1>1. PcInv'
    BY PcKept DEF RunInv
<1>2. BuildInv'
    BY BuildKept
<1>3. MigrationTypeOK'
    BY DEF RunInv, MigrationTypeOK, Becomes
<1> QED BY <1>1, <1>2, <1>3 DEF RunInv

LEMMA InitRun ==
    ASSUME MigrationInit
    PROVE  RunInv
<1>1. version \in Nat /\ catalog \subseteq SchemaVersions /\ faults \in 0..MaxFaults
    BY Table DEF MigrationInit, CatalogAt
<1>2. \A i \in Indexes : IndexAt(version, i) \in IndexState
    BY <1>1, IndexAtValid, Table DEF IndexState
<1>3. \A r \in Runners : runner[r] = Idle
    BY DEF MigrationInit
<1>4. MigrationTypeOK
    BY <1>1, <1>2, IdleRunner DEF MigrationInit, MigrationTypeOK
<1>5. PcInv /\ BuildInv
    BY <1>3, IdleRunner DEF PcInv, BuildInv, Applying, MigrationInit
<1> QED BY <1>4, <1>5 DEF RunInv

LEMMA SomeIndexChanges ==
    ASSUME MigrationTypeOK, NEW i, NEW x \in IndexState, index' = [index EXCEPT ![i] = x]
    PROVE  /\ index' \in [Indexes -> IndexState]
           /\ i \in Indexes => index'[i] = x
           /\ \A j \in Indexes : j # i => index'[j] = index[j]
BY DEF MigrationTypeOK

LEMMA IndexStates ==
    Absent \in IndexState /\ Invalid \in IndexState /\ SchemaVersions \subseteq IndexState
           /\ Absent \notin SchemaVersions /\ Invalid \notin SchemaVersions /\ Absent # Invalid
           /\ IndexState = SchemaVersions \cup {Absent, Invalid}
BY Table DEF Absent, Invalid, IndexState

LEMMA CatalogIndexes ==
    ASSUME MigrationTypeOK, NEW v \in SchemaVersions, index' = CatalogIndex(Migration[v], v)
    PROVE  /\ index' \in [Indexes -> IndexState]
           /\ \A i \in Indexes :
                 /\ ~Touches(v, i) => index'[i] = index[i]
                 /\ i \in Migration[v].drops => index'[i] = Absent
                 /\ i \in Migration[v].creates => index'[i] = IF index[i] = Absent THEN v ELSE index[i]
<1>1. index \in [Indexes -> IndexState]
    BY DEF MigrationTypeOK
<1>2. \A i \in Indexes : index'[i] = IF i \in Migration[v].drops THEN Absent
                ELSE IF i \in Migration[v].creates /\ index[i] = Absent THEN v ELSE index[i]
    BY DEF CatalogIndex
<1>3. \A i \in Indexes : index'[i] \in IndexState
    BY <1>1, <1>2, IndexStates
<1>4. index' \in [Indexes -> IndexState]
    BY <1>3 DEF CatalogIndex
<1>5. Migration[v].creates \cap Migration[v].drops = {}
    BY Table
<1> QED BY <1>2, <1>4, <1>5 DEF Touches

LEMMA NextRun ==
    ASSUME RunInv, MigrationNext
    PROVE  RunInv'
<1> USE DEF Applying
<1>0. MigrationTypeOK /\ PcInv /\ BuildInv
    BY DEF RunInv
<1>t. /\ version \in Nat /\ catalog \subseteq SchemaVersions /\ index \in [Indexes -> IndexState]
      /\ faults \in 0..MaxFaults /\ overlapped \in BOOLEAN /\ relations \subseteq {"schema", "table"}
    BY <1>0 DEF MigrationTypeOK
<1>p. \A r \in Runners : Pending(r) = runner[r].current_version + 1
    BY DEF Pending
<1>b. \A r \in Runners : runner[r].pc = "building" => build # NoBuild /\ build.client = r
    BY <1>0, Table DEF BuildInv, NoBuild
<1>f. /\ \A v, cleaned : \A pc \in {"idle", "check", "create", "next"} : Fits(pc, v, cleaned)
      /\ \A r \in Runners : \A pc \in {"building", "bump"} :
            runner[r].pc \in {"ddl", "building"} /\ Pending(r) \in SchemaVersions /\ IsOnline(Pending(r))
                => Fits(pc, runner[r].current_version, runner[r].cleaned)
    BY <1>0, <1>p DEF Fits, PcInv
<1>1. ASSUME NEW r \in Runners, LaunchMigrates(r) PROVE RunInv'
    BY <1>1, <1>t, <1>f, LaunchEffect, RunOnly
<1>2. ASSUME NEW r \in Runners, CheckRelations(r) PROVE RunInv'
    <2>1. /\ runner[r].pc = "check" /\ Becomes(r, "create", runner[r].current_version, runner[r].cleaned, runner[r].names)
          /\ UNCHANGED <<relations, version, catalog, index, build, overlapped, faults>>
        BY <1>2, CheckEffect
    <2>2. Fits("create", runner[r].current_version, runner[r].cleaned)
        BY <1>f
    <2> QED BY <1>t, <2>1, <2>2, RunOnly
<1>3. ASSUME NEW r \in Runners, CreateRelations(r) PROVE RunInv'
    BY <1>3, <1>t, <1>f, CreateEffect, RunOnly
<1>4. ASSUME NEW r \in Runners, NextMigration(r) PROVE RunInv'
    <2>0. runner[r].pc = "next" /\ UNCHANGED <<relations, version, catalog, index, build, overlapped, faults>>
        BY <1>4, NextEffect
    <2>1. CASE Becomes(r, "idle", 0, FALSE, {})
        BY <2>0, <2>1, <1>t, <1>f, RunOnly
    <2>2. CASE ~Becomes(r, "idle", 0, FALSE, {})
        <3>0. PICK pc \in {"list", "ddl"} :
                 /\ Becomes(r, pc, runner[r].current_version, runner[r].cleaned, runner[r].names)
                 /\ Pending(r) \in SchemaVersions
                 /\ pc = "list" <=> IsOnline(Pending(r)) /\ ~runner[r].cleaned
            BY <1>4, <2>2, NextEffect
        <3>1. Fits(pc, runner[r].current_version, runner[r].cleaned)
            BY <1>p, <3>0 DEF Fits
        <3> QED BY <2>0, <3>0, <3>1, <1>t, RunOnly
    <2> QED BY <2>1, <2>2
<1>5. ASSUME NEW r \in Runners, ListInvalidIndexes(r) PROVE RunInv'
    <2>1. runner[r].pc = "list" => Pending(r) \in SchemaVersions /\ IsOnline(Pending(r)) /\ ~runner[r].cleaned
        BY <1>0 DEF PcInv
    <2>2. runner[r].pc = "list" => Fits("drop", runner[r].current_version, runner[r].cleaned)
        BY <1>p, <2>1 DEF Fits
    <2>3. PICK names : Becomes(r, "drop", runner[r].current_version, runner[r].cleaned, names)
        BY <1>5, ListEffect
    <2>4. runner[r].pc = "list" /\ UNCHANGED <<relations, version, catalog, index, build, overlapped, faults>>
        BY <1>5, ListEffect
    <2> QED BY <1>t, <2>2, <2>3, <2>4, RunOnly
<1>6. ASSUME NEW r \in Runners, DropInvalidIndex(r) PROVE RunInv'
    <2>0. runner[r].pc = "drop" /\ UNCHANGED <<relations, version, catalog, build, overlapped, faults>>
        BY <1>6, CleanEffect
    <2>1. Pending(r) \in SchemaVersions /\ IsOnline(Pending(r)) /\ ~runner[r].cleaned
        BY <1>0, <2>0 DEF PcInv
    <2>2. CASE Becomes(r, "ddl", runner[r].current_version, TRUE, {}) /\ UNCHANGED index
        <3>1. Fits("ddl", runner[r].current_version, TRUE)
            BY <1>p, <2>1 DEF Fits
        <3> QED BY <2>0, <2>2, <3>1, <1>t, RunOnly
    <2>3. ASSUME NEW i \in runner[r].names, i \in Indexes, build = NoBuild, index' = [index EXCEPT ![i] = Absent],
                 Becomes(r, "drop", runner[r].current_version, runner[r].cleaned, runner[r].names \ {i})
          PROVE  RunInv'
        <3>1. index' \in [Indexes -> IndexState]
            BY <1>0, <2>3, SomeIndexChanges, IndexStates
        <3>2. Fits("drop", runner[r].current_version, runner[r].cleaned)
            BY <1>p, <2>1 DEF Fits
        <3> QED BY <2>0, <2>3, <3>1, <3>2, <1>t, RunAndIndex
    <2> QED BY <1>6, <2>2, <2>3, CleanEffect
<1>7. ASSUME NEW r \in Runners, ApplyCatalog(r) PROVE RunInv'
    <2>0. /\ runner[r].pc = "ddl" /\ ~IsOnline(Pending(r)) /\ Pending(r) \in SchemaVersions
          /\ UNCHANGED <<relations, build, overlapped, faults>>
        BY <1>7, CatalogEffect
    <2>1. CASE Becomes(r, "idle", 0, FALSE, {}) /\ UNCHANGED <<version, catalog, index>>
        BY <2>0, <2>1, <1>t, <1>f, RunOnly
    <2>2. CASE /\ Migration[Pending(r)].locks => build = NoBuild
               /\ Becomes(r, "next", Pending(r), runner[r].cleaned, runner[r].names)
               /\ version' = Pending(r) /\ catalog' = catalog \cup {Pending(r)}
               /\ index' = CatalogIndex(Migration[Pending(r)], Pending(r))
        <3>1. index' \in [Indexes -> IndexState]
            BY <1>0, <2>0, <2>2, CatalogIndexes
        <3>2. build # NoBuild => index'[build.of] = index[build.of]
            <4> SUFFICES ASSUME build # NoBuild PROVE index'[build.of] = index[build.of]
                OBVIOUS
            <4>1. build.of \in Indexes
                BY <1>0 DEF MigrationTypeOK
            <4>2. ~Migration[Pending(r)].locks
                BY <2>2
            <4>3. ~Touches(Pending(r), build.of)
                BY <2>0, <4>2, Table DEF Touches
            <4> QED BY <1>0, <2>0, <2>2, <4>1, <4>3, CatalogIndexes
        <3>3. version' \in Nat /\ catalog' \subseteq SchemaVersions
            BY <1>t, <2>0, <2>2, Table
        <3> QED BY <2>0, <2>2, <3>1, <3>2, <3>3, <1>t, <1>f, RunAndIndex
    <2> QED BY <1>7, <2>1, <2>2, CatalogEffect
<1>8. ASSUME NEW r \in Runners, DropOnline(r) PROVE RunInv'
    <2>1. /\ runner[r].pc = "ddl" /\ IsOnline(Pending(r)) /\ Pending(r) \in SchemaVersions /\ build = NoBuild
          /\ Becomes(r, "bump", runner[r].current_version, runner[r].cleaned, runner[r].names)
          /\ UNCHANGED <<relations, version, catalog, build, overlapped, faults>>
        BY <1>8, DropOnlineEffect
    <2>2. \E i : index' = [index EXCEPT ![i] = Absent]
        BY <1>8, DropOnlineEffect
    <2>3. index' \in [Indexes -> IndexState]
        BY <1>0, <2>2, SomeIndexChanges, IndexStates
    <2> QED BY <2>1, <2>3, <1>t, <1>f, RunAndIndex
<1>9. ASSUME NEW r \in Runners, CreateOnline(r) PROVE RunInv'
    <2>1. /\ runner[r].pc = "ddl" /\ IsOnline(Pending(r)) /\ Pending(r) \in SchemaVersions /\ build = NoBuild
          /\ UNCHANGED <<relations, version, catalog, overlapped, faults>>
        BY <1>9, CreateOnlineEffect
    <2>2. CASE UNCHANGED <<index, build>> /\ Becomes(r, "bump", runner[r].current_version, runner[r].cleaned, runner[r].names)
        BY <2>1, <2>2, <1>t, <1>f, RunOnly
    <2>3. ASSUME NEW i \in Migration[Pending(r)].creates,
                 index' = [index EXCEPT ![i] = Invalid], build' = [of |-> i, by |-> Pending(r), client |-> r],
                 Becomes(r, "building", runner[r].current_version, runner[r].cleaned, runner[r].names)
          PROVE  RunInv'
        <3>0. i \in Indexes
            BY <2>1, <2>3, Table
        <3>1. index' \in [Indexes -> IndexState] /\ index'[i] = Invalid
            BY <1>0, <2>3, <3>0, SomeIndexChanges, IndexStates
        <3>2. PcInv'
            BY <1>0, <1>f, <2>1, <2>3, PcKept
        <3>3. build'.of = i /\ build'.by = Pending(r) /\ build'.client = r
            BY <2>3
        <3>4. runner'[r].pc = "building" /\ runner'[r].current_version + 1 = Pending(r)
            BY <1>p, <2>3 DEF Becomes
        <3>5. \A s \in Runners : s # r => runner'[s].pc # "building"
            BY <1>b, <2>1, <2>3 DEF Becomes
        <3>6. BuildInv'
            BY <2>1, <2>3, <3>1, <3>3, <3>4, <3>5 DEF BuildInv, Pending, SchemaVersions, Invalid
        <3>7. MigrationTypeOK'
            BY <1>t, <2>1, <2>3, <3>0, <3>1 DEF MigrationTypeOK, Becomes
        <3> QED BY <3>2, <3>6, <3>7 DEF RunInv
    <2> QED BY <1>9, <2>2, <2>3, CreateOnlineEffect
<1>10. ASSUME NEW r \in Runners, BuildDone(r) PROVE RunInv'
    <2>1. /\ runner[r].pc = "building" /\ IsOnline(Pending(r)) /\ Pending(r) \in SchemaVersions
          /\ build' = NoBuild /\ Becomes(r, "bump", runner[r].current_version, runner[r].cleaned, runner[r].names)
          /\ UNCHANGED <<relations, version, catalog, overlapped, faults>>
        BY <1>10, BuildDoneEffect
    <2>2. index' \in [Indexes -> IndexState]
        <3>1. \E i : index' = [index EXCEPT ![i] = Pending(r)]
            BY <1>10, BuildDoneEffect
        <3> QED BY <1>0, <2>1, <3>1, SomeIndexChanges, IndexStates
    <2>3. \A s \in Runners : runner'[s].pc # "building"
        BY <1>b, <2>1 DEF Becomes
    <2>4. BuildInv'
        BY <2>1, <2>3 DEF BuildInv, NoBuild
    <2>5. PcInv'
        BY <1>0, <1>f, <2>1, PcKept
    <2>6. MigrationTypeOK'
        BY <1>t, <2>1, <2>2 DEF MigrationTypeOK, Becomes, NoBuild
    <2> QED BY <2>4, <2>5, <2>6 DEF RunInv
<1>11. ASSUME NEW r \in Runners, BumpOnline(r) PROVE RunInv'
    <2>1. version' \in Nat
        BY <1>11, BumpEffect, Table
    <2> QED BY <1>11, <1>t, <1>f, <2>1, BumpEffect, RunAndIndex
<1>12. ASSUME NEW r \in Runners, Crash(r) PROVE RunInv'
    <2>1. /\ Becomes(r, "idle", 0, FALSE, {}) /\ faults' \in 0..MaxFaults
          /\ UNCHANGED <<relations, version, catalog, index, overlapped>>
        <3>1. /\ Becomes(r, "idle", 0, FALSE, {}) /\ faults < MaxFaults /\ faults' = faults + 1
              /\ UNCHANGED <<relations, version, catalog, index, overlapped>>
            BY <1>12, CrashEffect
        <3>2. faults' \in 0..MaxFaults
            BY <1>t, <3>1, Table
        <3> QED BY <3>1, <3>2
    <2>2. CASE build.client # r /\ UNCHANGED build
        <3>1. runner[r].pc # "building"
            BY <1>b, <2>2
        <3> QED BY <2>1, <2>2, <3>1, <1>t, <1>f, RunAndIndex
    <2>3. CASE build # NoBuild /\ build.client = r /\ build' = [of |-> build.of, by |-> build.by, client |-> "orphan"]
        <3>1. PcInv'
            BY <1>0, <1>f, <2>1, PcKept
        <3>2. build'.of = build.of /\ build'.by = build.by /\ build'.client = "orphan"
            BY <2>3
        <3>3. \A s \in Runners : runner'[s].pc # "building"
            BY <1>b, <2>1, <2>3 DEF Becomes
        <3>4. /\ build.by \in SchemaVersions /\ IsOnline(build.by) /\ build.of \in Migration[build.by].creates
              /\ index[build.of] = Invalid
            BY <1>0, <2>3 DEF BuildInv
        <3>5. "orphan" \notin Runners
            BY Table
        <3>6. BuildInv'
            BY <2>1, <3>2, <3>3, <3>4, <3>5 DEF BuildInv, SchemaVersions, Invalid
        <3>7. build' \in [of : Indexes, by : SchemaVersions, client : Runners \cup {"orphan"}]
            BY <2>3, <3>4, Table
        <3>8. MigrationTypeOK'
            BY <1>t, <2>1, <3>7 DEF MigrationTypeOK, Becomes
        <3> QED BY <3>1, <3>6, <3>8 DEF RunInv
    <2> QED BY <1>12, <2>2, <2>3, CrashEffect
<1>13. ASSUME NEW r \in Runners, StatementFails(r) PROVE RunInv'
    <2>1. /\ Becomes(r, "idle", 0, FALSE, {}) /\ faults' \in 0..MaxFaults
          /\ UNCHANGED <<relations, version, catalog, overlapped>>
        <3>1. /\ Becomes(r, "idle", 0, FALSE, {}) /\ faults < MaxFaults /\ faults' = faults + 1
              /\ UNCHANGED <<relations, version, catalog, overlapped>>
            BY <1>13, FailEffect
        <3>2. faults' \in 0..MaxFaults
            BY <1>t, <3>1, Table
        <3> QED BY <3>1, <3>2
    <2>2. index' \in [Indexes -> IndexState] /\ (build # NoBuild => UNCHANGED index)
        <3>1. \/ UNCHANGED index
              \/ build = NoBuild /\ \E i : index' = [index EXCEPT ![i] = Invalid]
            BY <1>13, FailEffect
        <3> QED BY <1>0, <1>t, <3>1, SomeIndexChanges, IndexStates
    <2>3. CASE build.client # r /\ UNCHANGED build
        <3>1. runner[r].pc # "building"
            BY <1>b, <2>3
        <3> QED BY <2>1, <2>2, <2>3, <3>1, <1>t, <1>f, RunAndIndex
    <2>4. CASE build.client = r /\ build' = NoBuild
        <3>1. PcInv'
            BY <1>0, <1>f, <2>1, PcKept
        <3>2. \A s \in Runners : runner'[s].pc # "building"
            BY <1>b, <2>1, <2>4 DEF Becomes
        <3>3. BuildInv'
            BY <2>4, <3>2 DEF BuildInv, NoBuild
        <3>4. MigrationTypeOK'
            BY <1>t, <2>1, <2>2, <2>4 DEF MigrationTypeOK, Becomes, NoBuild
        <3> QED BY <3>1, <3>3, <3>4 DEF RunInv
    <2> QED BY <1>13, <2>3, <2>4, FailEffect
<1>14. ASSUME OrphanEnds PROVE RunInv'
    <2>1. /\ build.client = "orphan" /\ build' = NoBuild /\ build.by \in SchemaVersions
          /\ UNCHANGED <<relations, version, catalog, runner, overlapped, faults>>
        BY <1>14, OrphanEffect
    <2>2. index' \in [Indexes -> IndexState]
        BY <1>0, <1>14, <1>t, OrphanEffect, SomeIndexChanges, IndexStates
    <2>3. \A s \in Runners : runner'[s].pc # "building"
        BY <1>b, <2>1, Table
    <2>4. BuildInv'
        BY <2>1, <2>3 DEF BuildInv, NoBuild
    <2>5. PcInv'
        BY <1>0, <2>1 DEF PcInv, Pending
    <2>6. MigrationTypeOK'
        BY <1>0, <2>1, <2>2 DEF MigrationTypeOK, NoBuild
    <2> QED BY <2>4, <2>5, <2>6 DEF RunInv
<1> QED BY <1>1, <1>2, <1>3, <1>4, <1>5, <1>6, <1>7, <1>8, <1>9, <1>10, <1>11, <1>12, <1>13, <1>14
        DEF MigrationNext, Step

\* Every state of every launch is well formed, whatever crashes and overlaps: a run that is past the
\* head of the loop is at a file of the table, and an index under construction is registered invalid.
THEOREM MigrationRunsWellFormed ==
    MigrationSpec => []RunInv
<1>1. MigrationInit => RunInv
    BY InitRun
<1>2. RunInv /\ [MigrationNext]_(migration_vars) => RunInv'
    <2>1. RunInv /\ UNCHANGED migration_vars => RunInv'
        BY DEF RunInv, MigrationTypeOK, PcInv, BuildInv, migration_vars, db, Pending
    <2> QED BY <2>1, NextRun
<1> QED BY <1>1, <1>2, PTL DEF MigrationSpec

----------------------------------------------------------------------------
(* While launches do not overlap. *)

\* i is as the files up to v leave it, or the online file after v is under way on it.
IndexFits(v, x, i) ==
    \/ x = IndexAt(v, i)
    \/ /\ v < LatestVersion /\ IsOnline(v + 1) /\ Touches(v + 1, i)
       /\ x \in {IndexAt(v + 1, i), Invalid, Absent}

\* What a run at pc relies on: the clean-up lists every invalid index, leaves none behind, and the
\* file is applied when its version is about to be written.
SoleRun(ix, pc, cleaned, names, v) ==
    /\ pc = "drop" => /\ \A i \in Indexes : ix[i] = Invalid => i \in names
                      /\ \A i \in names : Touches(v + 1, i)
    /\ pc \in {"next", "ddl"} /\ cleaned => \A i \in Indexes : ix[i] # Invalid
    /\ pc = "bump" => \A i \in Indexes : ix[i] = IndexAt(v + 1, i)

SchemaFits ==
    /\ catalog = CatalogAt(version)
    /\ \A i \in Indexes : IndexFits(version, index[i], i)
    /\ build # NoBuild => build.by = version + 1

RunFits(r) ==
    /\ runner[r].pc \in Applying => runner[r].current_version = version
    /\ SoleRun(index, runner[r].pc, runner[r].cleaned, runner[r].names, version)

SoleInv ==
    ~overlapped =>
        /\ \A r, s \in Runners : Active(r) /\ Active(s) => r = s
        /\ SchemaFits
        /\ \A r \in Runners : RunFits(r)

Alone(r) == \A s \in Runners \ {r} : ~Active(s)

LEMMA IdleFits ==
    ASSUME NEW r, runner[r].pc \in {"idle", "check", "create"}
    PROVE  RunFits(r)
BY DEF RunFits, SoleRun, Applying

\* Only the run that takes the step has to fit afterwards.
LEMMA SoleStep ==
    ASSUME RunInv, NEW r \in Runners, Alone(r),
           NEW pc, NEW v, NEW cleaned, NEW names, Becomes(r, pc, v, cleaned, names),
           SchemaFits', pc \in Applying => v = version', SoleRun(index', pc, cleaned, names, version')
    PROVE  SoleInv'
<1>1. \A s \in Runners \ {r} : runner'[s].pc = "idle"
    BY DEF Alone, Becomes, Active
<1>2. \A s \in Runners \ {r} : RunFits(s)'
    BY <1>1 DEF RunFits, SoleRun, Applying
<1>3. runner'[r].pc = pc /\ runner'[r].current_version = v /\ runner'[r].cleaned = cleaned /\ runner'[r].names = names
    BY DEF Becomes
<1>4. RunFits(r)'
    BY <1>3 DEF RunFits, SoleRun
<1>5. \A s, t \in Runners : Active(s)' /\ Active(t)' => s = t
    BY <1>1 DEF Active
<1> QED BY <1>2, <1>4, <1>5 DEF SoleInv

LEMMA InitSole ==
    ASSUME MigrationInit
    PROVE  SoleInv
<1>1. \A r \in Runners : runner[r].pc = "idle"
    BY IdleRunner DEF MigrationInit
<1>2. SchemaFits
    BY DEF MigrationInit, SchemaFits, IndexFits
<1>3. \A r \in Runners : RunFits(r)
    BY <1>1, IdleFits
<1> QED BY <1>1, <1>2, <1>3 DEF SoleInv, Active

\* What a run that is alone knows of the file it is at.
LEMMA SoleFacts ==
    ASSUME RunInv, SoleInv, ~overlapped, NEW r \in Runners, runner[r].pc # "idle"
    PROVE  /\ Alone(r)
           /\ version \in Nat /\ SchemaFits /\ RunFits(r)
           /\ runner[r].pc \in Applying => runner[r].current_version = version /\ Pending(r) = version + 1
           /\ SoleRun(index, runner[r].pc, runner[r].cleaned, runner[r].names, version)
<1>1. version \in Nat
    BY DEF RunInv, MigrationTypeOK
<1> QED BY <1>1 DEF Alone, SoleInv, RunFits, Active, Pending

\* The schema of one more file.
LEMMA CatalogAtNext ==
    ASSUME NEW v \in Nat, v + 1 \in SchemaVersions
    PROVE  CatalogAt(v + 1) = IF IsOnline(v + 1) THEN CatalogAt(v) ELSE CatalogAt(v) \cup {v + 1}
<1>1. \A w \in SchemaVersions : w \in Nat /\ (w <= v + 1 <=> w <= v \/ w = v + 1)
    BY Table
<1> QED BY <1>1 DEF CatalogAt, IsOnline

\* Every index the next file does not touch is already as that file leaves it.
LEMMA UntouchedFits ==
    ASSUME NEW v \in Nat, v + 1 \in SchemaVersions, NEW i, NEW x,
           IndexFits(v, x, i), ~(IsOnline(v + 1) /\ Touches(v + 1, i))
    PROVE  x = IndexAt(v, i) /\ (~Touches(v + 1, i) => x = IndexAt(v + 1, i))
BY IndexAtNext DEF IndexFits

LEMMA ExactFits ==
    ASSUME NEW v, NEW i
    PROVE  IndexFits(v, IndexAt(v, i), i)
BY DEF IndexFits

LEMMA OnlineFits ==
    ASSUME NEW v \in Nat, v + 1 \in SchemaVersions, IsOnline(v + 1),
           NEW i, Touches(v + 1, i), NEW x \in {IndexAt(v + 1, i), Invalid, Absent}
    PROVE  IndexFits(v, x, i)
<1>1. v < LatestVersion
    BY Table
<1> QED BY <1>1 DEF IndexFits

LEMMA NextCreates ==
    ASSUME NEW v \in Nat, v + 1 \in SchemaVersions, NEW i, i \in Migration[v + 1].creates
    PROVE  /\ i \in Indexes /\ Touches(v + 1, i)
           /\ IndexAt(v + 1, i) = v + 1 /\ IndexAt(v, i) = Absent
<1>1. i \in Indexes /\ Touches(v + 1, i)
    BY Table DEF Touches
<1> QED BY <1>1, IndexAtNext

LEMMA NextDrops ==
    ASSUME NEW v \in Nat, v + 1 \in SchemaVersions, NEW i, i \in Migration[v + 1].drops
    PROVE  i \in Indexes /\ Touches(v + 1, i) /\ IndexAt(v + 1, i) = Absent
<1>1. i \in Indexes /\ Touches(v + 1, i)
    BY Table DEF Touches
<1> QED BY <1>1, IndexAtNext

\* The online file after the version touches i, so the other indexes are as it leaves them.
LEMMA OtherIndexes ==
    ASSUME SchemaFits, version \in Nat, version + 1 \in SchemaVersions, IsOnline(version + 1),
           NEW i, Touches(version + 1, i), NEW j \in Indexes, j # i
    PROVE  index[j] = IndexAt(version + 1, j)
<1>1. ~Touches(version + 1, j)
    BY OnlineTouchesOne
<1> QED BY <1>1, UntouchedFits DEF SchemaFits

LEMMA SchemaFitsNext ==
    ASSUME catalog' = CatalogAt(version'), \A i \in Indexes : IndexFits(version', index'[i], i),
           build' # NoBuild => build'.by = version' + 1
    PROVE  SchemaFits'
BY DEF SchemaFits, NoBuild, IndexFits, CatalogAt, IndexAt, Invalid, Absent, Touches

\* After the file has been applied.
LEMMA FileApplied ==
    ASSUME RunInv, NEW r \in Runners, Alone(r),
           version \in Nat, SchemaFits, version + 1 \in SchemaVersions, NEW cleaned, NEW names,
           Becomes(r, "next", version + 1, cleaned, names), version' = version + 1,
           catalog' = IF IsOnline(version + 1) THEN catalog ELSE catalog \cup {version + 1},
           \A i \in Indexes : index'[i] = IndexAt(version + 1, i),
           build = NoBuild, UNCHANGED build
    PROVE  SoleInv'
<1>1. catalog' = CatalogAt(version')
    BY CatalogAtNext DEF SchemaFits
<1>2. \A i \in Indexes : IndexFits(version', index'[i], i) /\ index'[i] # Invalid
    BY ExactFits, IndexAtValid
<1>3. SchemaFits'
    BY <1>1, <1>2, SchemaFitsNext
<1>4. SoleRun(index', "next", cleaned, names, version')
    BY <1>2 DEF SoleRun
<1> QED BY <1>3, <1>4, SoleStep

\* A step that changes only the run.
LEMMA SoleRunOnly ==
    ASSUME RunInv, NEW r \in Runners, Alone(r), SchemaFits,
           NEW pc, NEW v, NEW cleaned, NEW names, Becomes(r, pc, v, cleaned, names),
           UNCHANGED <<version, catalog, index, build>>,
           pc \in Applying => v = version, SoleRun(index, pc, cleaned, names, version)
    PROVE  SoleInv'
<1>1. SchemaFits'
    BY DEF SchemaFits
<1> QED BY <1>1, SoleStep

\* A step of the online file that the run is at, on the index i.
LEMMA SoleOnline ==
    ASSUME RunInv, NEW r \in Runners, Alone(r), SchemaFits,
           version \in Nat, version + 1 \in SchemaVersions, IsOnline(version + 1), NEW i \in Indexes, Touches(version + 1, i),
           NEW x \in {IndexAt(version + 1, i), Invalid, Absent}, index' = [index EXCEPT ![i] = x],
           UNCHANGED <<version, catalog>>, build' # NoBuild => build'.by = version + 1,
           NEW pc, NEW v, NEW cleaned, NEW names, Becomes(r, pc, v, cleaned, names),
           pc \in Applying => v = version, SoleRun(index', pc, cleaned, names, version)
    PROVE  SoleInv'
<1>1. IndexFits(version, x, i)
    BY OnlineFits
<1>2. index \in [Indexes -> IndexState]
    BY DEF RunInv, MigrationTypeOK
<1>3. \A j \in Indexes : IndexFits(version, index'[j], j)
    BY <1>1, <1>2 DEF SchemaFits
<1>4. SchemaFits'
    <2>1. catalog' = CatalogAt(version') /\ (build' # NoBuild => build'.by = version' + 1)
        BY DEF SchemaFits
    <2>2. \A j \in Indexes : IndexFits(version', index'[j], j)
        BY <1>3
    <2> QED BY <2>1, <2>2, SchemaFitsNext
<1> QED BY <1>4, SoleStep

LEMMA NextSole ==
    ASSUME RunInv, SoleInv, MigrationNext
    PROVE  SoleInv'
<1>0. MigrationTypeOK /\ PcInv /\ BuildInv /\ index \in [Indexes -> IndexState] /\ version \in Nat
    BY DEF RunInv, MigrationTypeOK
<1> USE DEF Applying
<1>i. \A ix, v, cleaned, names : \A pc \in {"idle", "check", "create", "list", "building"} : SoleRun(ix, pc, cleaned, names, v)
    BY DEF SoleRun
<1>1. ASSUME NEW r \in Runners, LaunchMigrates(r) PROVE SoleInv'
    <2> SUFFICES ASSUME ~overlapped' PROVE SoleInv'
        BY DEF SoleInv
    <2>1. /\ Becomes(r, "check", 0, FALSE, {}) /\ ~overlapped /\ \A s \in Runners : ~Active(s)
          /\ UNCHANGED <<version, catalog, index, build>>
        BY <1>1, LaunchEffect
    <2>2. SchemaFits /\ Alone(r)
        BY <2>1 DEF SoleInv, Alone
    <2> QED BY <1>i, <2>1, <2>2, SoleRunOnly
<1>2. ASSUME ~overlapped, NEW r \in Runners, CheckRelations(r) PROVE SoleInv'
    <2>1. /\ runner[r].pc = "check" /\ Becomes(r, "create", runner[r].current_version, runner[r].cleaned, runner[r].names)
          /\ UNCHANGED <<version, catalog, index, build>>
        BY <1>2, CheckEffect
    <2>2. SchemaFits /\ Alone(r)
        BY <1>2, <2>1, SoleFacts
    <2>3. SoleRun(index, "create", runner[r].cleaned, runner[r].names, version)
        BY <1>i
    <2> QED BY <2>1, <2>2, <2>3, SoleRunOnly
<1>3. ASSUME ~overlapped, NEW r \in Runners, CreateRelations(r) PROVE SoleInv'
    <2>1. runner[r].pc = "create" /\ UNCHANGED <<version, catalog, index, build>>
        BY <1>3, CreateEffect
    <2>2. SchemaFits /\ Alone(r)
        BY <1>3, <2>1, SoleFacts
    <2>3. SoleRun(index, "idle", FALSE, {}, version) /\ SoleRun(index, "next", FALSE, {}, version)
        BY DEF SoleRun
    <2>4. CASE Becomes(r, "idle", 0, FALSE, {})
        BY <2>1, <2>2, <2>3, <2>4, SoleRunOnly
    <2>5. CASE Becomes(r, "next", version, FALSE, {})
        BY <2>1, <2>2, <2>3, <2>5, SoleRunOnly
    <2> QED BY <1>3, <2>4, <2>5, CreateEffect
<1>4. ASSUME ~overlapped, NEW r \in Runners, NextMigration(r) PROVE SoleInv'
    <2>1. runner[r].pc = "next" /\ UNCHANGED <<version, catalog, index, build>>
        BY <1>4, NextEffect
    <2>2. /\ SchemaFits /\ Alone(r) /\ runner[r].current_version = version
          /\ SoleRun(index, "next", runner[r].cleaned, runner[r].names, version)
        BY <1>4, <2>1, SoleFacts
    <2>3. CASE Becomes(r, "idle", 0, FALSE, {})
        <3>1. SoleRun(index, "idle", FALSE, {}, version)
            BY <1>i
        <3> QED BY <2>1, <2>2, <2>3, <3>1, SoleRunOnly
    <2>4. CASE ~Becomes(r, "idle", 0, FALSE, {})
        <3>1. PICK pc \in {"list", "ddl"} :
                 /\ Becomes(r, pc, runner[r].current_version, runner[r].cleaned, runner[r].names)
                 /\ Pending(r) \in SchemaVersions
                 /\ pc = "list" <=> IsOnline(Pending(r)) /\ ~runner[r].cleaned
            BY <1>4, <2>4, NextEffect
        <3>2. SoleRun(index, pc, runner[r].cleaned, runner[r].names, version)
            BY <2>2 DEF SoleRun
        <3> QED BY <2>1, <2>2, <3>1, <3>2, SoleRunOnly
    <2> QED BY <2>3, <2>4
<1>5. ASSUME ~overlapped, NEW r \in Runners, ListInvalidIndexes(r) PROVE SoleInv'
    <2> DEFINE names == {i \in Indexes : index[i] = Invalid}
    <2>1. /\ runner[r].pc = "list" /\ UNCHANGED <<version, catalog, index, build>>
          /\ Becomes(r, "drop", runner[r].current_version, runner[r].cleaned, names)
        BY <1>5, ListEffect
    <2>2. SchemaFits /\ Alone(r) /\ runner[r].current_version = version
        BY <1>5, <2>1, SoleFacts
    <2>3. \A i \in names : Touches(version + 1, i)
        BY <1>0, <2>2, IndexAtValid DEF SchemaFits, IndexFits
    <2>4. SoleRun(index, "drop", runner[r].cleaned, names, version)
        BY <2>3 DEF SoleRun
    <2> HIDE DEF names
    <2> QED BY <2>1, <2>2, <2>4, SoleRunOnly
<1>6. ASSUME ~overlapped, NEW r \in Runners, DropInvalidIndex(r) PROVE SoleInv'
    <2>1. runner[r].pc = "drop" /\ UNCHANGED <<version, catalog, build>>
        BY <1>6, CleanEffect
    <2>2. /\ SchemaFits /\ Alone(r) /\ runner[r].current_version = version
          /\ Pending(r) = version + 1 /\ SoleRun(index, "drop", runner[r].cleaned, runner[r].names, version)
        BY <1>6, <2>1, SoleFacts
    <2>3. version + 1 \in SchemaVersions /\ IsOnline(version + 1)
        BY <1>0, <2>1, <2>2 DEF PcInv
    <2>4. CASE runner[r].names = {} /\ Becomes(r, "ddl", runner[r].current_version, TRUE, {}) /\ UNCHANGED index
        <3>1. SoleRun(index, "ddl", TRUE, {}, version)
            BY <2>2, <2>4 DEF SoleRun
        <3> QED BY <2>1, <2>2, <2>4, <3>1, SoleRunOnly
    <2>5. ASSUME NEW i \in runner[r].names, i \in Indexes, build = NoBuild, index' = [index EXCEPT ![i] = Absent],
                 Becomes(r, "drop", runner[r].current_version, runner[r].cleaned, runner[r].names \ {i})
          PROVE  SoleInv'
        <3>1. Touches(version + 1, i)
            BY <2>2, <2>5 DEF SoleRun
        <3>2. SoleRun(index', "drop", runner[r].cleaned, runner[r].names \ {i}, version)
            BY <1>0, <2>2, <2>5, IndexStates DEF SoleRun
        <3>3. build' # NoBuild => build'.by = version + 1
            BY <2>1, <2>5
        <3> QED BY <1>0, <2>1, <2>2, <2>3, <2>5, <3>1, <3>2, <3>3, SoleOnline
    <2> QED BY <1>6, <2>4, <2>5, CleanEffect
<1>7. ASSUME ~overlapped, NEW r \in Runners, ApplyCatalog(r) PROVE SoleInv'
    <2>1. runner[r].pc = "ddl" /\ ~IsOnline(Pending(r)) /\ Pending(r) \in SchemaVersions /\ UNCHANGED build
        BY <1>7, CatalogEffect
    <2>2. SchemaFits /\ Alone(r) /\ Pending(r) = version + 1
        BY <1>7, <2>1, SoleFacts
    <2>3. CASE Becomes(r, "idle", 0, FALSE, {}) /\ UNCHANGED <<version, catalog, index>>
        <3>1. SoleRun(index, "idle", FALSE, {}, version)
            BY <1>i
        <3> QED BY <2>1, <2>2, <2>3, <3>1, SoleRunOnly
    <2>4. CASE /\ Becomes(r, "next", Pending(r), runner[r].cleaned, runner[r].names)
               /\ version' = Pending(r) /\ catalog' = catalog \cup {Pending(r)}
               /\ index' = CatalogIndex(Migration[Pending(r)], Pending(r))
        <3>1. version + 1 \in SchemaVersions /\ ~IsOnline(version + 1)
            BY <2>1, <2>2
        <3>2. \A i \in Indexes : index[i] = IndexAt(version, i)
            BY <1>0, <2>2, <3>1, UntouchedFits DEF SchemaFits
        <3>3. \A i \in Indexes :
                 /\ ~Touches(version + 1, i) => index'[i] = index[i]
                 /\ i \in Migration[version + 1].drops => index'[i] = Absent
                 /\ i \in Migration[version + 1].creates => index'[i] = IF index[i] = Absent THEN version + 1 ELSE index[i]
            BY <1>0, <2>2, <2>4, <3>1, CatalogIndexes
        <3>4. \A i \in Indexes : index'[i] = IndexAt(version + 1, i)
            BY <1>0, <3>1, <3>2, <3>3, IndexAtNext DEF Touches
        <3>5. build = NoBuild
            BY <1>0, <2>2, <3>1 DEF BuildInv, SchemaFits
        <3> QED BY <1>0, <2>1, <2>2, <2>4, <3>1, <3>4, <3>5, FileApplied
    <2> QED BY <1>7, <2>3, <2>4, CatalogEffect
<1>8. ASSUME ~overlapped, NEW r \in Runners, DropOnline(r) PROVE SoleInv'
    <2>1. /\ runner[r].pc = "ddl" /\ IsOnline(Pending(r)) /\ Pending(r) \in SchemaVersions /\ build = NoBuild
          /\ Becomes(r, "bump", runner[r].current_version, runner[r].cleaned, runner[r].names)
          /\ UNCHANGED <<version, catalog, build>>
        BY <1>8, DropOnlineEffect
    <2>2. PICK i \in Migration[Pending(r)].drops : index' = [index EXCEPT ![i] = Absent]
        BY <1>8, DropOnlineEffect
    <2>3. /\ SchemaFits /\ Alone(r) /\ runner[r].current_version = version
          /\ Pending(r) = version + 1
        BY <1>8, <2>1, SoleFacts
    <2>0. version + 1 \in SchemaVersions /\ IsOnline(version + 1) /\ i \in Migration[version + 1].drops
        BY <2>1, <2>2, <2>3
    <2>4. i \in Indexes /\ Touches(version + 1, i) /\ IndexAt(version + 1, i) = Absent
        BY <1>0, <2>0, NextDrops
    <2>5. \A j \in Indexes : j # i => index[j] = IndexAt(version + 1, j)
        BY <1>0, <2>0, <2>3, <2>4, OtherIndexes
    <2>6. SoleRun(index', "bump", runner[r].cleaned, runner[r].names, version)
        BY <1>0, <2>2, <2>4, <2>5 DEF SoleRun
    <2>7. build' # NoBuild => build'.by = version + 1
        BY <2>1
    <2> QED BY <1>0, <2>0, <2>1, <2>2, <2>3, <2>4, <2>6, <2>7, SoleOnline
<1>9. ASSUME ~overlapped, NEW r \in Runners, CreateOnline(r) PROVE SoleInv'
    <2>1. /\ runner[r].pc = "ddl" /\ IsOnline(Pending(r)) /\ Pending(r) \in SchemaVersions /\ build = NoBuild
          /\ UNCHANGED <<version, catalog>>
        BY <1>9, CreateOnlineEffect
    <2>2. PICK i \in Migration[Pending(r)].creates :
             \/ /\ index[i] = Absent /\ index' = [index EXCEPT ![i] = Invalid]
                /\ build' = [of |-> i, by |-> Pending(r), client |-> r]
                /\ Becomes(r, "building", runner[r].current_version, runner[r].cleaned, runner[r].names)
             \/ /\ index[i] # Absent /\ UNCHANGED <<index, build>>
                /\ Becomes(r, "bump", runner[r].current_version, runner[r].cleaned, runner[r].names)
        BY <1>9, CreateOnlineEffect
    <2>3. /\ SchemaFits /\ Alone(r) /\ runner[r].current_version = version
          /\ Pending(r) = version + 1 /\ SoleRun(index, runner[r].pc, runner[r].cleaned, runner[r].names, version)
        BY <1>9, <2>1, SoleFacts
    <2>0. version + 1 \in SchemaVersions /\ IsOnline(version + 1) /\ i \in Migration[version + 1].creates
        BY <2>1, <2>2, <2>3
    <2>4. i \in Indexes /\ Touches(version + 1, i) /\ IndexAt(version, i) = Absent
        BY <1>0, <2>0, NextCreates
    <2>5. CASE /\ index' = [index EXCEPT ![i] = Invalid] /\ build' = [of |-> i, by |-> Pending(r), client |-> r]
               /\ Becomes(r, "building", runner[r].current_version, runner[r].cleaned, runner[r].names)
        <3>1. SoleRun(index', "building", runner[r].cleaned, runner[r].names, version)
            BY <1>i
        <3>2. build'.by = version + 1
            BY <2>3, <2>5
        <3> QED BY <1>0, <2>0, <2>1, <2>3, <2>4, <2>5, <3>1, <3>2, SoleOnline
    <2>6. CASE /\ index[i] # Absent /\ UNCHANGED <<index, build>>
               /\ Becomes(r, "bump", runner[r].current_version, runner[r].cleaned, runner[r].names)
        <3>1. runner[r].cleaned
            BY <1>0, <2>1 DEF PcInv
        <3>2. index[i] # Invalid
            BY <2>1, <2>3, <2>4, <3>1 DEF SoleRun
        <3>3. index[i] = IndexAt(version + 1, i)
            BY <2>3, <2>4, <2>6, <3>2 DEF SchemaFits, IndexFits
        <3>4. \A j \in Indexes : index[j] = IndexAt(version + 1, j)
            BY <1>0, <2>0, <2>3, <2>4, <3>3, OtherIndexes
        <3>5. SoleRun(index, "bump", runner[r].cleaned, runner[r].names, version)
            BY <3>4 DEF SoleRun
        <3> QED BY <2>1, <2>3, <2>6, <3>5, SoleRunOnly
    <2> QED BY <2>2, <2>5, <2>6
<1>10. ASSUME ~overlapped, NEW r \in Runners, BuildDone(r) PROVE SoleInv'
    <2>1. /\ runner[r].pc = "building" /\ IsOnline(Pending(r)) /\ Pending(r) \in SchemaVersions /\ build' = NoBuild
          /\ Becomes(r, "bump", runner[r].current_version, runner[r].cleaned, runner[r].names)
          /\ UNCHANGED <<version, catalog>>
        BY <1>10, BuildDoneEffect
    <2>2. PICK i \in Migration[Pending(r)].creates : index' = [index EXCEPT ![i] = Pending(r)]
        BY <1>10, BuildDoneEffect
    <2>3. /\ SchemaFits /\ Alone(r) /\ runner[r].current_version = version
          /\ Pending(r) = version + 1
        BY <1>10, <2>1, SoleFacts
    <2>0. /\ version + 1 \in SchemaVersions /\ IsOnline(version + 1) /\ i \in Migration[version + 1].creates
          /\ index' = [index EXCEPT ![i] = version + 1]
        BY <2>1, <2>2, <2>3
    <2>4. i \in Indexes /\ Touches(version + 1, i) /\ IndexAt(version + 1, i) = version + 1
        BY <1>0, <2>0, NextCreates
    <2>5. \A j \in Indexes : j # i => index[j] = IndexAt(version + 1, j)
        BY <1>0, <2>0, <2>3, <2>4, OtherIndexes
    <2>6. SoleRun(index', "bump", runner[r].cleaned, runner[r].names, version)
        BY <1>0, <2>0, <2>4, <2>5 DEF SoleRun
    <2>7. version + 1 \in {IndexAt(version + 1, i), Invalid, Absent}
        BY <2>4
    <2> QED BY <1>0, <2>0, <2>1, <2>3, <2>4, <2>6, <2>7, SoleOnline
<1>11. ASSUME ~overlapped, NEW r \in Runners, BumpOnline(r) PROVE SoleInv'
    <2>1. /\ runner[r].pc = "bump" /\ IsOnline(Pending(r)) /\ Pending(r) \in SchemaVersions
          /\ version' = Pending(r) /\ Becomes(r, "next", Pending(r), runner[r].cleaned, runner[r].names)
          /\ UNCHANGED <<catalog, index, build>>
        BY <1>11, BumpEffect
    <2>2. /\ SchemaFits /\ Alone(r) /\ Pending(r) = version + 1
          /\ SoleRun(index, "bump", runner[r].cleaned, runner[r].names, version)
        BY <1>11, <2>1, SoleFacts
    <2>3. \A i \in Indexes : index[i] = IndexAt(version + 1, i) /\ index[i] # Invalid
        <3>1. \A i \in Indexes : index[i] = IndexAt(version + 1, i)
            BY <2>2 DEF SoleRun
        <3>2. version + 1 \in Nat
            BY <1>0
        <3>3. \A i \in Indexes : IndexAt(version + 1, i) # Invalid
            BY <3>2, IndexAtValid
        <3> QED BY <3>1, <3>3
    <2>4. build = NoBuild
        BY <1>0, <2>3, Table DEF BuildInv
    <2> QED BY <1>0, <2>1, <2>2, <2>3, <2>4, FileApplied
<1>12. ASSUME ~overlapped, NEW r \in Runners, Crash(r) PROVE SoleInv'
    <2>1. runner[r].pc # "idle" /\ Becomes(r, "idle", 0, FALSE, {}) /\ UNCHANGED <<version, catalog, index>>
        BY <1>12, CrashEffect
    <2>2. SchemaFits /\ Alone(r)
        BY <1>12, <2>1, SoleFacts
    <2>3. \/ UNCHANGED build
          \/ build # NoBuild /\ build'.by = build.by
        <3>1. UNCHANGED build \/ (build # NoBuild /\ build' = [of |-> build.of, by |-> build.by, client |-> "orphan"])
            BY <1>12, CrashEffect
        <3> QED BY <3>1
    <2>4. SchemaFits'
        BY <2>1, <2>2, <2>3 DEF SchemaFits, NoBuild
    <2>5. SoleRun(index', "idle", FALSE, {}, version')
        BY <1>i
    <2> QED BY <2>1, <2>2, <2>4, <2>5, SoleStep
<1>13. ASSUME ~overlapped, NEW r \in Runners, StatementFails(r) PROVE SoleInv'
    <2>1. runner[r].pc # "idle" /\ Becomes(r, "idle", 0, FALSE, {}) /\ UNCHANGED <<version, catalog>>
        BY <1>13, FailEffect
    <2>2. /\ SchemaFits /\ Alone(r)
          /\ runner[r].pc \in Applying => Pending(r) = version + 1
          /\ SoleRun(index, runner[r].pc, runner[r].cleaned, runner[r].names, version)
        BY <1>13, <2>1, SoleFacts
    <2>3. build' # NoBuild => build'.by = version + 1
        <3>1. UNCHANGED build \/ build' = NoBuild
            BY <1>13, FailEffect
        <3> QED BY <2>2, <3>1 DEF SchemaFits
    <2>4. SoleRun(index', "idle", FALSE, {}, version)
        BY <1>i
    <2>5. CASE UNCHANGED index
        <3>1. SchemaFits'
            BY <2>1, <2>2, <2>3, <2>5 DEF SchemaFits, NoBuild
        <3>2. SoleRun(index', "idle", FALSE, {}, version')
            BY <1>i
        <3> QED BY <2>1, <2>2, <3>1, <3>2, SoleStep
    <2>6. CASE ~(UNCHANGED index)
        <3>1. PICK i \in Indexes :
                 /\ \/ runner[r].pc = "drop" /\ i \in runner[r].names
                    \/ runner[r].pc = "ddl" /\ IsOnline(Pending(r)) /\ i \in Migration[Pending(r)].drops
                 /\ index' = [index EXCEPT ![i] = Invalid]
            BY <1>13, <2>6, FailEffect
        <3>2. version + 1 \in SchemaVersions /\ IsOnline(version + 1)
            BY <1>0, <2>2, <3>1 DEF PcInv
        <3>3. Touches(version + 1, i)
            BY <2>2, <3>1 DEF SoleRun, Touches
        <3> QED BY <1>0, <2>1, <2>2, <2>3, <2>4, <3>1, <3>2, <3>3, SoleOnline
    <2> QED BY <2>5, <2>6
<1>14. ASSUME ~overlapped, OrphanEnds PROVE SoleInv'
    <2>1. /\ build # NoBuild /\ build' = NoBuild /\ build.by \in SchemaVersions /\ IsOnline(build.by)
          /\ UNCHANGED <<version, catalog, runner, overlapped>>
        BY <1>14, OrphanEffect
    <2>2. PICK i \in Migration[build.by].creates :
             index[i] = Invalid /\ (UNCHANGED index \/ index' = [index EXCEPT ![i] = build.by])
        BY <1>14, OrphanEffect
    <2>3. SchemaFits /\ (\A r \in Runners : RunFits(r)) /\ \A r, s \in Runners : Active(r) /\ Active(s) => r = s
        BY <1>14 DEF SoleInv
    <2>4. build.by = version + 1
        BY <2>1, <2>3 DEF SchemaFits
    <2>0. version + 1 \in SchemaVersions /\ IsOnline(version + 1) /\ i \in Migration[version + 1].creates
        BY <2>1, <2>2, <2>4
    <2>5. i \in Indexes /\ Touches(version + 1, i) /\ IndexAt(version + 1, i) = version + 1
        BY <1>0, <2>0, NextCreates
    <2>6. IndexFits(version, version + 1, i)
        BY <1>0, <2>1, <2>4, <2>5, OnlineFits
    <2>7. \A j \in Indexes : IndexFits(version, index'[j], j)
        BY <1>0, <2>2, <2>3, <2>4, <2>6 DEF SchemaFits
    <2>8. SchemaFits'
        <3>1. catalog' = CatalogAt(version') /\ (build' # NoBuild => build'.by = version' + 1)
            BY <2>1, <2>3 DEF SchemaFits
        <3>2. \A j \in Indexes : IndexFits(version', index'[j], j)
            BY <2>1, <2>7
        <3> QED BY <3>1, <3>2, SchemaFitsNext
    <2>9. \A j \in Indexes : index'[j] = Invalid => index[j] = Invalid
        BY <1>0, <2>1, <2>2, IndexStates
    <2>10. \A r \in Runners : runner[r].pc # "bump"
        BY <1>0, <2>2, <2>3, <2>5, IndexStates, IndexAtValid DEF RunFits, SoleRun
    <2>11. \A r \in Runners : SoleRun(index', runner[r].pc, runner[r].cleaned, runner[r].names, version)
        BY <2>3, <2>9, <2>10 DEF RunFits, SoleRun
    <2>12. \A r \in Runners : RunFits(r)'
        BY <2>1, <2>3, <2>11 DEF RunFits
    <2> QED BY <2>1, <2>3, <2>8, <2>12 DEF SoleInv, Active
<1>15. ASSUME overlapped PROVE SoleInv'
    BY <1>15, LaunchEffect, CheckEffect, CreateEffect, NextEffect, ListEffect, CleanEffect, CatalogEffect, DropOnlineEffect,
       CreateOnlineEffect, BuildDoneEffect, BumpEffect, CrashEffect, FailEffect, OrphanEffect DEF SoleInv, MigrationNext, Step
<1> QED BY <1>1, <1>2, <1>3, <1>4, <1>5, <1>6, <1>7, <1>8, <1>9, <1>10, <1>11, <1>12, <1>13, <1>14, <1>15
        DEF MigrationNext, Step

\* A row past the last file, which a later program has written, promises what the last file does.
LEMMA PastTheLast ==
    ASSUME NEW v \in Nat, v >= LatestVersion
    PROVE  /\ CatalogAt(v) = CatalogAt(LatestVersion)
           /\ \A i : IndexAt(v, i) = IndexAt(LatestVersion, i)
<1>1. \A w \in SchemaVersions : w <= v /\ w <= LatestVersion
    BY Table
<1>2. CatalogAt(v) = CatalogAt(LatestVersion)
    BY <1>1 DEF CatalogAt
<1>3. ASSUME NEW i PROVE IndexAt(v, i) = IndexAt(LatestVersion, i)
    <2>1. {w \in SchemaVersions : w <= v /\ Touches(w, i)} = {w \in SchemaVersions : w <= LatestVersion /\ Touches(w, i)}
        BY <1>1
    <2> QED BY <2>1 DEF IndexAt
<1> QED BY <1>2, <1>3

LEMMA SoleIsBacked ==
    ASSUME RunInv, SoleInv
    PROVE  VersionIsBacked
<1> SUFFICES ASSUME ~overlapped PROVE VersionIsBacked
    BY DEF VersionIsBacked
<1>0. version \in Nat /\ SchemaFits /\ LatestVersion \in Nat
    BY Table DEF RunInv, MigrationTypeOK, SoleInv
<1> DEFINE done == IF version > LatestVersion THEN LatestVersion ELSE version
<1>1. CASE version > LatestVersion
    <2>1. done = LatestVersion /\ version >= LatestVersion /\ ~(version < LatestVersion)
        BY <1>0, <1>1
    <2>2. catalog = CatalogAt(done) /\ \A i \in Indexes : index[i] = IndexAt(done, i)
        BY <1>0, <2>1, PastTheLast DEF SchemaFits, IndexFits
    <2> QED BY <2>2 DEF VersionIsBacked
<1>2. CASE ~(version > LatestVersion)
    BY <1>0, <1>2 DEF VersionIsBacked, SchemaFits, IndexFits, IsOnline
<1> QED BY <1>1, <1>2

\* While launches do not overlap the version row never promises DDL that is missing, whatever
\* crashes, failed statements and left-over builds came before (run_migrations,
\* cleanup_invalid_indexes): for every table of files, any number of runners and of faults.
THEOREM VersionBacked ==
    MigrationSpec => []VersionIsBacked
<1>1. MigrationInit => RunInv /\ SoleInv
    BY InitRun, InitSole
<1>2. RunInv /\ SoleInv /\ [MigrationNext]_(migration_vars) => (RunInv /\ SoleInv)'
    <2>1. RunInv /\ UNCHANGED migration_vars => RunInv'
        BY DEF RunInv, MigrationTypeOK, PcInv, BuildInv, migration_vars, db, Pending
    <2>2. SoleInv /\ UNCHANGED migration_vars => SoleInv'
        BY DEF SoleInv, SchemaFits, RunFits, Active, migration_vars, db
    <2> QED BY <2>1, <2>2, NextRun, NextSole
<1>3. RunInv /\ SoleInv => VersionIsBacked
    BY SoleIsBacked
<1> QED BY <1>1, <1>2, <1>3, PTL DEF MigrationSpec

----------------------------------------------------------------------------
(* Two launches that overlap. *)

\* At most two processes launch.
TwoRunners == \A r, s, t \in Runners : r = s \/ r = t \/ s = t

Migrating(r) == runner[r].pc \in Applying

\* r has applied v in this run, or has it still to do.
Did(r, v) ==
    /\ Migrating(r)
    /\ v <= runner[r].current_version \/ (runner[r].pc = "bump" /\ v = runner[r].current_version + 1)
ToDo(r, v) == Migrating(r) /\ ~Did(r, v)

\* v is not before the first online file: it can be applied again.
Repeatable(v) == \E u \in SchemaVersions : IsOnline(u) /\ u <= v

\* Some run got as far as v; some run that is among the repeatable files has v to do yet.
Reached(v) == v <= version \/ \E r \in Runners : Did(r, v)
Still(v) == \E r \in Runners : ToDo(r, v) /\ Repeatable(runner[r].current_version + 1)

LastCreates(l, i) == i \in Migration[l].creates /\ \A v \in SchemaVersions : Touches(v, i) => v <= l

\* A catalog file that was reached is in the catalog; an invalid index is being built; an index is
\* there under a file that creates it.
DataInv ==
    /\ \A v \in SchemaVersions : ~IsOnline(v) /\ Reached(v) => v \in catalog
    /\ build.client # "orphan"
    /\ \A i \in Indexes : index[i] = Invalid => build # NoBuild /\ build.of = i
    /\ \A i \in Indexes : index[i] \in SchemaVersions => i \in Migration[index[i]].creates

\* An index that a reached file drops, and one that is missing although the last file that touches
\* it creates it, are put right by a run that has that file to do.
Heals(i) ==
    /\ \A d \in SchemaVersions :
          i \in Migration[d].drops /\ index[i] \in SchemaVersions /\ index[i] < d /\ Reached(d) => Repeatable(index[i]) /\ Still(d)
    /\ \A l \in SchemaVersions :
          LastCreates(l, i) /\ index[i] \notin SchemaVersions /\ Reached(l) => Repeatable(l) /\ Still(l)

\* A run drops the index of a file that it has to do.
ListInv ==
    \A r \in Runners : runner[r].pc = "drop" => \A i \in runner[r].names :
        \E v \in SchemaVersions : IsOnline(v) /\ i \in Migration[v].creates /\ runner[r].current_version < v

\* The row is where one of the runs is: a run behind the row means that the other one is there.
RowInv ==
    /\ \A s \in Runners :
          Migrating(s) /\ runner[s].current_version < version /\ version < LatestVersion /\ Repeatable(version)
              => \E r \in Runners \ {s} : Migrating(r) /\ runner[r].current_version = version
    /\ \A r, s \in Runners : r # s /\ Migrating(r) /\ Migrating(s)
          => version = runner[r].current_version \/ version = runner[s].current_version

\* Between the files of s and those of r there is no online one.
NoOnlineBetween(r, s) ==
    \A v \in SchemaVersions : runner[s].current_version < v /\ v <= runner[r].current_version => ~IsOnline(v)

\* A run that has yet to clean up is not ahead of the other one by an online file.
UncleanInv ==
    \A r, s \in Runners : r # s /\ Migrating(r) /\ ~runner[r].cleaned /\ runner[r].current_version < LatestVersion =>
        IF Migrating(s) THEN NoOnlineBetween(r, s)
        ELSE ~Repeatable(runner[r].current_version) \/ runner[r].current_version <= version

OverInv ==
    faults = 0 => DataInv /\ (\A i \in Indexes : Heals(i)) /\ ListInv /\ RowInv /\ UncleanInv

LEMMA RunTypes ==
    ASSUME RunInv
    PROVE  /\ \A r \in Runners : runner[r].current_version \in Nat /\ runner[r].cleaned \in BOOLEAN /\ runner[r].names \subseteq Indexes
           /\ version \in Nat /\ catalog \subseteq SchemaVersions /\ index \in [Indexes -> IndexState]
           /\ \A r \in Runners : Pending(r) = runner[r].current_version + 1
BY DEF RunInv, MigrationTypeOK, Runner, Pending

LEMMA RepeatableUp ==
    ASSUME NEW u \in Nat, NEW v \in Nat, u <= v, Repeatable(u)
    PROVE  Repeatable(v)
BY Table DEF Repeatable

LEMMA InitOver ==
    ASSUME MigrationInit
    PROVE  OverInv
<1>1. version \in Nat /\ \A r \in Runners : ~Migrating(r) /\ runner[r].pc = "idle"
    BY IdleRunner, Table DEF MigrationInit, Migrating, Applying
<1>2. \A v : Reached(v) => v <= version
    BY <1>1 DEF Reached, Did
<1>3. \A i \in Indexes : index[i] = IndexAt(version, i)
    BY DEF MigrationInit
<1>4. ASSUME NEW i \in Indexes PROVE index[i] \in SchemaVersions => i \in Migration[index[i]].creates
    BY <1>1, <1>3, IndexAtCases, IndexStates
<1>5. DataInv
    <2>1. \A v \in SchemaVersions : ~IsOnline(v) /\ Reached(v) => v \in catalog
        BY <1>2 DEF MigrationInit, CatalogAt, IsOnline
    <2>2. build.client # "orphan"
        BY DEF MigrationInit, NoBuild
    <2>3. ASSUME NEW i \in Indexes PROVE index[i] # Invalid
        <3>1. IndexAt(version, i) # Invalid
            BY <1>1, IndexAtValid
        <3> QED BY <1>3, <3>1
    <2> QED BY <1>4, <2>1, <2>2, <2>3 DEF DataInv
<1>6. ASSUME NEW i \in Indexes PROVE Heals(i)
    <2>1. CASE (\A w \in SchemaVersions : w <= version => ~Touches(w, i)) /\ index[i] = Absent
        BY <1>2, <2>1, IndexStates DEF Heals, LastCreates, Touches
    <2>2. ASSUME NEW u \in SchemaVersions, u <= version, Touches(u, i),
                 \A w \in SchemaVersions : w <= version /\ Touches(w, i) => w <= u,
                 index[i] = IF i \in Migration[u].creates THEN u ELSE Absent
          PROVE  Heals(i)
        <3>1. ASSUME NEW d \in SchemaVersions, i \in Migration[d].drops, index[i] \in SchemaVersions, index[i] < d, Reached(d) PROVE FALSE
            <4>1. index[i] = u /\ d <= u
                BY <1>2, <2>2, <3>1, IndexStates DEF Touches
            <4> QED BY <3>1, <4>1, Table
        <3>2. ASSUME NEW l \in SchemaVersions, LastCreates(l, i), index[i] \notin SchemaVersions, Reached(l) PROVE FALSE
            <4>1. l <= u /\ u <= l
                BY <1>2, <2>2, <3>2 DEF Touches, LastCreates
            <4>2. l = u
                BY <4>1, Table
            <4> QED BY <2>2, <3>2, <4>2 DEF LastCreates
        <3> QED BY <3>1, <3>2 DEF Heals
    <2> QED BY <1>1, <1>3, <2>1, <2>2, IndexAtCases
<1>7. ListInv /\ RowInv /\ UncleanInv
    BY <1>1 DEF ListInv, RowInv, UncleanInv
<1> QED BY <1>5, <1>6, <1>7 DEF OverInv

\* When both have ended nothing is left to do, so every index is as the last file leaves it.
LEMMA OverHeals ==
    ASSUME RunInv, OverInv
    PROVE  OverlapHeals
<1> SUFFICES ASSUME faults = 0, \A r \in Runners : ~Active(r), version >= LatestVersion
             PROVE  /\ CatalogAt(LatestVersion) \subseteq catalog
                    /\ \A i \in Indexes : index[i] = IndexAt(LatestVersion, i)
    BY DEF OverlapHeals
<1>3. \A v \in SchemaVersions : Reached(v)
    BY RunTypes, Table DEF Reached
<1>c. CatalogAt(LatestVersion) \subseteq catalog
    <2>1. DataInv
        BY DEF OverInv
    <2> QED BY <1>3, <2>1 DEF DataInv, CatalogAt, IsOnline
<1> SUFFICES ASSUME NEW i \in Indexes PROVE index[i] = IndexAt(LatestVersion, i)
    BY <1>c
<1>1. DataInv /\ Heals(i)
    BY DEF OverInv
<1>2. \A v : ~Still(v)
    BY DEF Still, ToDo, Migrating, Applying, Active
<1>4. index[i] # Invalid
    <2> SUFFICES ASSUME index[i] = Invalid PROVE FALSE
        OBVIOUS
    <2>1. build # NoBuild /\ build.client # "orphan"
        BY <1>1 DEF DataInv
    <2>2. build.client \in Runners
        BY <2>1 DEF RunInv, MigrationTypeOK
    <2> QED BY <2>1, <2>2 DEF RunInv, BuildInv, Active
<1>5. index[i] \in SchemaVersions \cup {Absent}
    BY <1>4, RunTypes, IndexStates
<1>6. index[i] \in SchemaVersions => i \in Migration[index[i]].creates /\ Touches(index[i], i)
    BY <1>1 DEF DataInv, Touches
<1>7. \A d \in SchemaVersions : i \in Migration[d].drops /\ index[i] \in SchemaVersions => ~(index[i] < d)
    BY <1>1, <1>2, <1>3 DEF Heals
<1>8. PICK u \in SchemaVersions :
         /\ u <= LatestVersion /\ Touches(u, i)
         /\ \A w \in SchemaVersions : w <= LatestVersion /\ Touches(w, i) => w <= u
         /\ IndexAt(LatestVersion, i) = IF i \in Migration[u].creates THEN u ELSE Absent
    <2>1. \E w \in SchemaVersions : w <= LatestVersion /\ Touches(w, i)
        <3>1. PICK w \in SchemaVersions : Touches(w, i)
            BY DEF Indexes, Touches
        <3>2. w <= LatestVersion
            BY Table
        <3> QED BY <3>1, <3>2
    <2> QED BY <2>1, IndexAtCases, Table
<1>9. \A w \in SchemaVersions : Touches(w, i) => w <= u
    BY <1>8, Table
<1>10. CASE i \in Migration[u].creates
    <2>1. LastCreates(u, i)
        BY <1>9, <1>10 DEF LastCreates
    <2>2. index[i] \in SchemaVersions
        BY <1>1, <1>2, <1>3, <2>1 DEF Heals
    <2>3. index[i] <= u
        BY <1>6, <1>9, <2>2
    <2>4. ASSUME index[i] < u PROVE FALSE
        <3>1. PICK d \in SchemaVersions : index[i] < d /\ d < u /\ i \in Migration[d].drops
            BY <1>6, <1>10, <2>2, <2>4, DropBetween
        <3> QED BY <1>7, <2>2, <3>1
    <2>5. index[i] = u
        BY <2>2, <2>3, <2>4, Table
    <2> QED BY <1>8, <1>10, <2>5
<1>11. CASE i \notin Migration[u].creates
    <2>1. i \in Migration[u].drops
        BY <1>8, <1>11 DEF Touches
    <2>2. ASSUME index[i] \in SchemaVersions PROVE FALSE
        <3>1. index[i] <= u /\ index[i] # u
            BY <1>6, <1>9, <1>11, <2>2
        <3>2. index[i] < u
            BY <2>2, <3>1, Table
        <3> QED BY <1>7, <2>1, <2>2, <3>2
    <2> QED BY <1>5, <1>8, <1>11, <2>2
<1> QED BY <1>10, <1>11

\* What a step of r means for who has done what.
LEMMA StepView ==
    ASSUME RunInv, NEW r \in Runners, NEW pc, NEW v, NEW cleaned, NEW names, Becomes(r, pc, v, cleaned, names)
    PROVE  /\ \A s \in Runners \ {r} :
                 /\ runner'[s] = runner[s] /\ Migrating(s)' = Migrating(s)
                 /\ \A w : Did(s, w)' = Did(s, w) /\ ToDo(s, w)' = ToDo(s, w)
           /\ Migrating(r)' <=> pc \in Applying
           /\ \A w : Did(r, w)' <=> pc \in Applying /\ (w <= v \/ (pc = "bump" /\ w = v + 1))
           /\ runner'[r].current_version = v /\ runner'[r].cleaned = cleaned /\ runner'[r].names = names /\ runner'[r].pc = pc
BY DEF Becomes, Migrating, Did, ToDo

\* A step that takes no run on.
LEMMA RowSame ==
    ASSUME RunInv, RowInv, UncleanInv, NEW r \in Runners, NEW pc, NEW v, NEW cleaned, NEW names,
           Becomes(r, pc, v, cleaned, names), UNCHANGED version, pc \in Applying <=> Migrating(r),
           Migrating(r) => v = runner[r].current_version /\ (~cleaned => ~runner[r].cleaned)
    PROVE  RowInv' /\ UncleanInv'
<1>1. \A s \in Runners : /\ Migrating(s)' <=> Migrating(s)
                         /\ Migrating(s) => /\ runner'[s].current_version = runner[s].current_version
                                            /\ ~runner'[s].cleaned => ~runner[s].cleaned
    BY StepView
<1>2. RowInv'
    BY <1>1 DEF RowInv, Repeatable
<1>3. UncleanInv'
    BY <1>1 DEF UncleanInv, NoOnlineBetween, Repeatable
<1> QED BY <1>2, <1>3

\* A run reads the row.
LEMMA RowJoin ==
    ASSUME TwoRunners, RunInv, RowInv, UncleanInv, NEW r \in Runners, ~Migrating(r), NEW cleaned, NEW names,
           Becomes(r, "next", version, cleaned, names), UNCHANGED version
    PROVE  RowInv' /\ UncleanInv'
<1>0. /\ \A s \in Runners \ {r} : runner'[s] = runner[s] /\ Migrating(s)' = Migrating(s)
      /\ Migrating(r)' /\ runner'[r].current_version = version /\ runner'[r].cleaned = cleaned
    BY StepView DEF Applying
<1>t. /\ version \in Nat /\ \A s \in Runners : runner[s].current_version \in Nat
      /\ SchemaVersions \subseteq Nat
    BY RunTypes, Table
<1>1. ASSUME NEW s \in Runners, Migrating(s)', runner'[s].current_version < version, version < LatestVersion, Repeatable(version)
      PROVE  \E t \in Runners \ {s} : Migrating(t)' /\ runner'[t].current_version = version
    <2>1. s # r
        BY <1>0, <1>1, <1>t
    <2>2. PICK t \in Runners \ {s} : Migrating(t) /\ runner[t].current_version = version
        BY <1>0, <1>1, <2>1 DEF RowInv
    <2> QED BY <1>0, <2>2
<1>2. ASSUME NEW s \in Runners, NEW t \in Runners, s # t, Migrating(s)', Migrating(t)'
      PROVE  version = runner'[s].current_version \/ version = runner'[t].current_version
    BY <1>0, <1>2 DEF RowInv
<1>3. RowInv'
    BY <1>1, <1>2 DEF RowInv, Repeatable
<1>4. ASSUME NEW s \in Runners \ {r}, Migrating(s), version < LatestVersion, NEW v \in SchemaVersions,
             runner[s].current_version < v, v <= version, IsOnline(v)
      PROVE  FALSE
    <2>1. Repeatable(version) /\ runner[s].current_version < version
        BY <1>4, <1>t DEF Repeatable
    <2>2. PICK t \in Runners \ {s} : Migrating(t)
        BY <1>4, <2>1 DEF RowInv
    <2> QED BY <1>4, <2>2 DEF TwoRunners
<1>5. ASSUME NEW s \in Runners \ {r}, Migrating(s), ~runner[s].cleaned, runner[s].current_version < LatestVersion,
             NEW v \in SchemaVersions, version < v, v <= runner[s].current_version, IsOnline(v)
      PROVE  FALSE
    BY <1>5, <1>t DEF UncleanInv, Repeatable
<1>6. ASSUME NEW a \in Runners, NEW b \in Runners, a # b, Migrating(a)', ~runner'[a].cleaned, runner'[a].current_version < LatestVersion
      PROVE  IF Migrating(b)' THEN NoOnlineBetween(a, b)'
             ELSE ~Repeatable(runner'[a].current_version) \/ runner'[a].current_version <= version'
    <2>1. CASE a = r
        BY <1>0, <1>4, <1>6, <1>t, <2>1 DEF NoOnlineBetween
    <2>2. CASE b = r
        BY <1>0, <1>5, <1>6, <2>2 DEF NoOnlineBetween
    <2> QED BY <1>6, <2>1, <2>2 DEF TwoRunners
<1>7. UncleanInv'
    BY <1>6 DEF UncleanInv, Repeatable
<1> QED BY <1>3, <1>7

\* A run ends at the last file, or at a file that cannot be applied again.
LEMMA RowLeave ==
    ASSUME RunInv, RowInv, UncleanInv, NEW r \in Runners, Migrating(r),
           Becomes(r, "idle", 0, FALSE, {}), UNCHANGED version,
           runner[r].current_version >= LatestVersion \/ ~Repeatable(runner[r].current_version + 1)
    PROVE  RowInv' /\ UncleanInv'
<1>0. /\ \A s \in Runners \ {r} : runner'[s] = runner[s] /\ Migrating(s)' = Migrating(s)
      /\ ~Migrating(r)'
    BY DEF Becomes, Migrating, Applying
<1>t. /\ version \in Nat /\ (\A s \in Runners : runner[s].current_version \in Nat)
      /\ SchemaVersions \subseteq Nat /\ LatestVersion \in Nat
    BY RunTypes, Table
<1>1. ASSUME NEW s \in Runners, Migrating(s)', runner'[s].current_version < version, version < LatestVersion, Repeatable(version)
      PROVE  \E t \in Runners \ {s} : Migrating(t)' /\ runner'[t].current_version = version
    <2>1. s # r /\ Migrating(s) /\ runner[s].current_version < version
        BY <1>0, <1>1
    <2>2. PICK t \in Runners \ {s} : Migrating(t) /\ runner[t].current_version = version
        BY <1>1, <2>1 DEF RowInv
    <2>3. t # r
        <3>1. Repeatable(version + 1)
            BY <1>1, <1>t, RepeatableUp
        <3> QED BY <1>1, <1>t, <2>2, <3>1
    <2> QED BY <1>0, <2>2, <2>3
<1>2. RowInv'
    BY <1>0, <1>1 DEF RowInv, Repeatable
<1>3. ASSUME NEW s \in Runners \ {r}, Migrating(s), ~runner[s].cleaned, runner[s].current_version < LatestVersion
      PROVE  ~Repeatable(runner[s].current_version) \/ runner[s].current_version <= version
    <2>1. NoOnlineBetween(s, r)
        BY <1>3 DEF UncleanInv
    <2>2. CASE runner[r].current_version >= LatestVersion
        BY <1>3, <1>t, <2>2 DEF RowInv
    <2>3. CASE ~Repeatable(runner[r].current_version + 1)
        <3> SUFFICES ASSUME Repeatable(runner[s].current_version) PROVE FALSE
            OBVIOUS
        <3>1. PICK u \in SchemaVersions : IsOnline(u) /\ u <= runner[s].current_version
            BY DEF Repeatable
        <3>2. ~(runner[r].current_version < u)
            BY <2>1, <3>1 DEF NoOnlineBetween
        <3>3. u \in Nat /\ runner[r].current_version \in Nat
            BY <1>t, Table
        <3>4. u <= runner[r].current_version + 1
            BY <3>2, <3>3
        <3> QED BY <2>3, <3>1, <3>4 DEF Repeatable
    <2> QED BY <2>2, <2>3
<1>4. UncleanInv'
    BY <1>0, <1>3 DEF UncleanInv, NoOnlineBetween, Repeatable
<1> QED BY <1>2, <1>4

\* A run writes the version of the file it has applied.
LEMMA RowAdvance ==
    ASSUME TwoRunners, RunInv, RowInv, UncleanInv, NEW r \in Runners, Migrating(r),
           Becomes(r, "next", Pending(r), runner[r].cleaned, runner[r].names), version' = Pending(r),
           Pending(r) \in SchemaVersions, IsOnline(Pending(r)) => runner[r].cleaned
    PROVE  RowInv' /\ UncleanInv'
<1> DEFINE u == Pending(r)
<1>0. /\ \A s \in Runners \ {r} : runner'[s] = runner[s] /\ Migrating(s)' = Migrating(s)
      /\ Migrating(r)' /\ runner'[r].current_version = u /\ runner'[r].cleaned = runner[r].cleaned
    BY StepView DEF Applying
<1>t. /\ u \in Nat /\ (\A s \in Runners : runner[s].current_version \in Nat)
      /\ SchemaVersions \subseteq Nat /\ LatestVersion \in Nat /\ u = runner[r].current_version + 1
      /\ runner[r].current_version < LatestVersion
    BY RunTypes, Table
<1> HIDE DEF u
<1>1. RowInv'
    <2>1. ASSUME NEW s \in Runners, Migrating(s)', runner'[s].current_version < version'
          PROVE  \E t \in Runners \ {s} : Migrating(t)' /\ runner'[t].current_version = version'
        <3>1. s # r /\ version' = u
            BY <1>0, <1>t, <2>1 DEF u
        <3> QED BY <1>0, <3>1
    <2>2. ASSUME NEW s \in Runners, NEW t \in Runners, s # t
          PROVE  version' = runner'[s].current_version \/ version' = runner'[t].current_version
        BY <1>0, <2>2 DEF TwoRunners, u
    <2> QED BY <2>1, <2>2 DEF RowInv
<1>2. ASSUME NEW a \in Runners, NEW b \in Runners, a # b, Migrating(a)', ~runner'[a].cleaned, runner'[a].current_version < LatestVersion
      PROVE  IF Migrating(b)' THEN NoOnlineBetween(a, b)'
             ELSE ~Repeatable(runner'[a].current_version) \/ runner'[a].current_version <= version'
    <2>1. CASE a = r
        <3>1. ~runner[r].cleaned /\ ~IsOnline(u) /\ version' = u
            BY <1>0, <1>2, <2>1 DEF u
        <3>2. Migrating(b) => NoOnlineBetween(r, b)
            BY <1>2, <1>t, <2>1, <3>1 DEF UncleanInv
        <3> QED BY <1>0, <1>2, <1>t, <2>1, <3>1, <3>2 DEF NoOnlineBetween
    <2>2. CASE b = r
        <3>1. NoOnlineBetween(a, r)
            BY <1>0, <1>2, <2>2 DEF UncleanInv
        <3> QED BY <1>0, <1>2, <1>t, <2>2, <3>1 DEF NoOnlineBetween
    <2> QED BY <1>2, <2>1, <2>2 DEF TwoRunners
<1>3. UncleanInv'
    BY <1>2 DEF UncleanInv, Repeatable
<1> QED BY <1>1, <1>3

\* A step that is not about i. At most u is newly reached, and only u is done.
LEMMA HealsKept ==
    ASSUME NEW u, NEW i \in Indexes, Heals(i), index'[i] = index[i], u \in SchemaVersions => ~Touches(u, i),
           \A w \in SchemaVersions : Reached(w)' => Reached(w) \/ w = u,
           \A w \in SchemaVersions : w # u /\ Still(w) => Still(w)'
    PROVE  Heals(i)'
<1>1. ASSUME NEW d \in SchemaVersions, i \in Migration[d].drops, index[i] \in SchemaVersions, index[i] < d, Reached(d)'
      PROVE  Repeatable(index[i]) /\ Still(d)'
    BY <1>1 DEF Heals, Touches
<1>2. ASSUME NEW l \in SchemaVersions, LastCreates(l, i), index[i] \notin SchemaVersions, Reached(l)'
      PROVE  Repeatable(l) /\ Still(l)'
    BY <1>2 DEF Heals, Touches, LastCreates
<1> QED BY <1>1, <1>2 DEF Heals, Repeatable, LastCreates, SchemaVersions, Touches

\* A step that takes no run on.
LEMMA ReachSame ==
    ASSUME RunInv, NEW r \in Runners, NEW pc, NEW v, NEW cleaned, NEW names,
           Becomes(r, pc, v, cleaned, names), UNCHANGED version, pc \in Applying <=> Migrating(r),
           runner[r].pc # "bump", pc # "bump", Migrating(r) => v = runner[r].current_version
    PROVE  /\ \A w : Reached(w)' <=> Reached(w)
           /\ \A w : Still(w) => Still(w)'
<1>1. \A s \in Runners : /\ Migrating(s)' <=> Migrating(s)
                         /\ Migrating(s) => runner'[s].current_version = runner[s].current_version
                         /\ \A w : (Did(s, w)' <=> Did(s, w)) /\ (ToDo(s, w)' <=> ToDo(s, w))
    BY StepView DEF Did, ToDo
<1>2. \A w : Reached(w)' <=> Reached(w)
    BY <1>1 DEF Reached
<1>3. ASSUME NEW w, Still(w) PROVE Still(w)'
    BY <1>1, <1>3 DEF Still, Repeatable, ToDo
<1> QED BY <1>2, <1>3

LEMMA ReachJoin ==
    ASSUME RunInv, NEW r \in Runners, ~Migrating(r), NEW cleaned, NEW names,
           Becomes(r, "next", version, cleaned, names), UNCHANGED version
    PROVE  /\ \A w : Reached(w)' <=> Reached(w)
           /\ \A w : Still(w) => Still(w)'
<1>1. /\ \A s \in Runners \ {r} : runner'[s] = runner[s] /\ \A w : (Did(s, w)' <=> Did(s, w)) /\ (ToDo(s, w)' <=> ToDo(s, w))
      /\ \A w : Did(r, w)' => w <= version
    BY StepView
<1>2. \A w : Reached(w)' <=> Reached(w)
    BY <1>1 DEF Reached, Did
<1>3. ASSUME NEW w, Still(w) PROVE Still(w)'
    BY <1>1, <1>3 DEF Still, Repeatable, ToDo
<1> QED BY <1>2, <1>3

LEMMA ReachLeave ==
    ASSUME RunInv, NEW r \in Runners, Migrating(r),
           Becomes(r, "idle", 0, FALSE, {}), UNCHANGED version,
           runner[r].current_version >= LatestVersion \/ ~Repeatable(runner[r].current_version + 1)
    PROVE  /\ \A w \in SchemaVersions : Reached(w)' => Reached(w)
           /\ \A w \in SchemaVersions : Still(w) => Still(w)'
<1>1. /\ \A s \in Runners \ {r} : runner'[s] = runner[s] /\ \A w : (Did(s, w)' <=> Did(s, w)) /\ (ToDo(s, w)' <=> ToDo(s, w))
      /\ \A w : ~Did(r, w)'
    BY DEF Becomes, Did, ToDo, Migrating, Applying
<1>2. \A w \in SchemaVersions : Reached(w)' => Reached(w)
    BY <1>1 DEF Reached
<1>3. ASSUME NEW w \in SchemaVersions, Still(w) PROVE Still(w)'
    <2>1. PICK s \in Runners : ToDo(s, w) /\ Repeatable(runner[s].current_version + 1)
        BY <1>3 DEF Still
    <2>2. s # r
        <3>1. runner[r].current_version >= LatestVersion => Did(r, w)
            BY RunTypes, Table DEF Did
        <3> QED BY <2>1, <3>1 DEF ToDo
    <2> QED BY <1>1, <2>1, <2>2 DEF Still, Repeatable, ToDo
<1> QED BY <1>2, <1>3

\* r has applied the file it was at.
LEMMA ReachFile ==
    ASSUME RunInv, NEW r \in Runners, Migrating(r), runner[r].pc # "bump",
           NEW pc, NEW v, NEW cleaned, NEW names, Becomes(r, pc, v, cleaned, names),
           \/ pc = "bump" /\ v = runner[r].current_version /\ UNCHANGED version
           \/ pc = "next" /\ v = Pending(r) /\ version' = Pending(r)
    PROVE  /\ \A w \in SchemaVersions : Reached(w)' => Reached(w) \/ w = Pending(r)
           /\ \A w \in SchemaVersions : w # Pending(r) /\ Still(w) => Still(w)'
           /\ \A w \in SchemaVersions : Pending(r) < w /\ Repeatable(Pending(r)) => Still(w)'
<1>t. /\ runner[r].current_version \in Nat /\ Pending(r) = runner[r].current_version + 1 /\ SchemaVersions \subseteq Nat
      /\ version \in Nat /\ v \in Nat
    BY RunTypes, Table
<1>0. /\ \A s \in Runners \ {r} : runner'[s] = runner[s] /\ \A w : (Did(s, w)' <=> Did(s, w)) /\ (ToDo(s, w)' <=> ToDo(s, w))
      /\ \A w : Did(r, w)' <=> w <= v \/ (pc = "bump" /\ w = v + 1)
      /\ Migrating(r)' /\ runner'[r].current_version = v
    BY StepView DEF Applying
<1>1. \A w \in SchemaVersions : Did(r, w)' <=> w <= Pending(r)
    BY <1>0, <1>t
<1>2. \A w \in SchemaVersions : Did(r, w) <=> w < Pending(r)
    <2>1. \A w : Did(r, w) <=> w <= runner[r].current_version
        BY DEF Did
    <2> QED BY <1>t, <2>1
<1>3. ASSUME NEW w \in SchemaVersions, Reached(w)', w # Pending(r) PROVE Reached(w)
    <2>1. CASE w <= Pending(r)
        BY <1>2, <1>3, <1>t, <2>1 DEF Reached
    <2>2. CASE ~(w <= Pending(r))
        BY <1>0, <1>1, <1>3, <1>t, <2>2 DEF Reached
    <2> QED BY <2>1, <2>2
<1>4. ASSUME NEW w \in SchemaVersions, Pending(r) < w, Repeatable(Pending(r)) PROVE Still(w)'
    <2>1. ToDo(r, w)'
        BY <1>0, <1>1, <1>4, <1>t DEF ToDo
    <2>2. Repeatable(v + 1)
        BY <1>4, <1>t, RepeatableUp
    <2> QED BY <1>0, <2>1, <2>2 DEF Still, Repeatable
<1>5. ASSUME NEW w \in SchemaVersions, w # Pending(r), Still(w) PROVE Still(w)'
    <2>1. PICK s \in Runners : ToDo(s, w) /\ Repeatable(runner[s].current_version + 1)
        BY <1>5 DEF Still
    <2>2. CASE s = r
        <3>1. Pending(r) < w /\ Repeatable(Pending(r))
            BY <1>2, <1>5, <1>t, <2>1, <2>2 DEF ToDo
        <3> QED BY <1>4, <3>1
    <2>3. CASE s # r
        BY <1>0, <2>1, <2>3 DEF Still, Repeatable, ToDo
    <2> QED BY <2>2, <2>3
<1> QED BY <1>3, <1>4, <1>5

\* r writes the version of the online file it has applied.
LEMMA ReachBump ==
    ASSUME RunInv, NEW r \in Runners, runner[r].pc = "bump", NEW cleaned, NEW names,
           Becomes(r, "next", Pending(r), cleaned, names), version' = Pending(r)
    PROVE  /\ \A w \in SchemaVersions : Reached(w)' => Reached(w)
           /\ \A w \in SchemaVersions : Still(w) => Still(w)'
<1>t. /\ runner[r].current_version \in Nat /\ Pending(r) = runner[r].current_version + 1 /\ SchemaVersions \subseteq Nat
      /\ version \in Nat /\ Pending(r) \in Nat
    BY RunTypes, Table
<1>0. /\ \A s \in Runners \ {r} : runner'[s] = runner[s] /\ \A w : (Did(s, w)' <=> Did(s, w)) /\ (ToDo(s, w)' <=> ToDo(s, w))
      /\ \A w : Did(r, w)' <=> w <= Pending(r)
      /\ Migrating(r)' /\ runner'[r].current_version = Pending(r)
    BY StepView DEF Applying
<1>1. \A w \in SchemaVersions : Did(r, w) <=> w <= Pending(r)
    BY <1>t DEF Did, Migrating, Applying
<1>2. \A w \in SchemaVersions : Reached(w)' => Reached(w)
    BY <1>0, <1>1 DEF Reached
<1>3. ASSUME NEW w \in SchemaVersions, Still(w) PROVE Still(w)'
    <2>1. PICK s \in Runners : ToDo(s, w) /\ Repeatable(runner[s].current_version + 1)
        BY <1>3 DEF Still
    <2>2. CASE s = r
        <3>1. ToDo(r, w)'
            BY <1>0, <1>1, <2>1, <2>2 DEF ToDo
        <3>2. Repeatable(Pending(r) + 1)
            BY <1>t, <2>1, <2>2, RepeatableUp
        <3> QED BY <1>0, <3>1, <3>2 DEF Still, Repeatable
    <2>3. CASE s # r
        BY <1>0, <2>1, <2>3 DEF Still, Repeatable, ToDo
    <2> QED BY <2>2, <2>3
<1> QED BY <1>2, <1>3

\* A step that changes no index, reaches nothing new and leaves what was to do.
LEMMA OverSame ==
    ASSUME OverInv, faults = 0, UNCHANGED <<catalog, index, build>>, RowInv', UncleanInv', ListInv',
           \A w \in SchemaVersions : Reached(w)' => Reached(w), \A w \in SchemaVersions : Still(w) => Still(w)'
    PROVE  OverInv'
<1>1. DataInv /\ \A i \in Indexes : Heals(i)
    BY DEF OverInv
<1>2. DataInv'
    BY <1>1 DEF DataInv, NoBuild, Invalid, SchemaVersions, Indexes
<1>3. ASSUME NEW i \in Indexes PROVE Heals(i)'
    <2>1. \A w \in SchemaVersions : w # 0
        BY DEF SchemaVersions
    <2>2. /\ \A w \in SchemaVersions : Reached(w)' => Reached(w) \/ w = 0
          /\ \A w \in SchemaVersions : w # 0 /\ Still(w) => Still(w)'
        OBVIOUS
    <2>3. Heals(i) /\ index'[i] = index[i] /\ (0 \in SchemaVersions => ~Touches(0, i))
        BY <1>1, <2>1
    <2> QED BY <2>2, <2>3, HealsKept
<1> QED BY <1>2, <1>3 DEF OverInv, Indexes

\* No run but r lists anything, and r lists no new name.
LEMMA ListKept ==
    ASSUME RunInv, ListInv, NEW r \in Runners, NEW pc, NEW v, NEW cleaned, NEW names, Becomes(r, pc, v, cleaned, names),
           pc # "drop"
    PROVE  ListInv'
<1>1. \A s \in Runners : runner'[s].pc = "drop" => runner'[s] = runner[s]
    BY StepView
<1> QED BY <1>1 DEF ListInv

\* The conflict-free files are those from the first online one on.
LEMMA RepeatableFiles ==
    ASSUME RepeatableTail, NEW v \in SchemaVersions
    PROVE  /\ Repeatable(v) => Migration[v].conflicts = {}
           /\ ~Repeatable(v) /\ (\E i : Touches(v, i)) => v \in Migration[v].conflicts
<1>1. Repeatable(v) <=> \E u \in SchemaVersions : u <= v /\ Migration[u].online
    BY DEF Repeatable, IsOnline
<1> QED BY <1>1 DEF RepeatableTail, Touches

LEMMA ReachedBelow ==
    ASSUME RunInv, NEW u \in SchemaVersions, NEW v \in SchemaVersions, u < v, Reached(v)
    PROVE  Reached(u)
<1>t. version \in Nat /\ u \in Nat /\ v \in Nat /\ \A r \in Runners : runner[r].current_version \in Nat
    BY RunTypes, Table
<1>1. \A r \in Runners : Did(r, v) => Did(r, u)
    BY <1>t DEF Did
<1> QED BY <1>1, <1>t DEF Reached

LEMMA NoBuildNoInvalid ==
    ASSUME DataInv, build = NoBuild, NEW i \in Indexes
    PROVE  index[i] # Invalid
BY DEF DataInv

\* The parts that a step on the indexes leaves to show.
LEMMA OverIndexes ==
    ASSUME DataInv', RowInv', UncleanInv', ListInv', \A i \in Indexes : Heals(i)'
    PROVE  OverInv'
BY DEF OverInv, Indexes

LEMMA DataNext ==
    ASSUME \A v \in SchemaVersions : ~IsOnline(v) /\ Reached(v)' => v \in catalog',
           build'.client # "orphan",
           \A i \in Indexes : index'[i] = Invalid => build' # NoBuild /\ build'.of = i,
           \A i \in Indexes : index'[i] \in SchemaVersions => i \in Migration[index'[i]].creates
    PROVE  DataInv'
BY DEF DataInv, NoBuild, Invalid, SchemaVersions, Indexes

LEMMA HealsNext ==
    ASSUME NEW i \in Indexes,
           \A d \in SchemaVersions : i \in Migration[d].drops /\ index'[i] \in SchemaVersions /\ index'[i] < d /\ Reached(d)'
               => Repeatable(index'[i]) /\ Still(d)',
           \A l \in SchemaVersions : LastCreates(l, i) /\ index'[i] \notin SchemaVersions /\ Reached(l)' => Repeatable(l) /\ Still(l)'
    PROVE  Heals(i)'
BY DEF Heals, Repeatable, LastCreates, SchemaVersions, Touches

LEMMA CatalogOver ==
    ASSUME RepeatableTail, TwoRunners, RunInv, OverInv, faults = 0, NEW r \in Runners, ApplyCatalog(r)
    PROVE  OverInv'
<1> DEFINE u == Pending(r)
<1>0. DataInv /\ (\A i \in Indexes : Heals(i)) /\ ListInv /\ RowInv /\ UncleanInv /\ MigrationTypeOK
    BY DEF OverInv, RunInv
<1>1. runner[r].pc = "ddl" /\ ~IsOnline(u) /\ u \in SchemaVersions /\ UNCHANGED build
    BY CatalogEffect
<1>t. /\ u \in Nat /\ u = runner[r].current_version + 1 /\ runner[r].current_version \in Nat /\ SchemaVersions \subseteq Nat
      /\ index \in [Indexes -> IndexState]
    BY <1>1, RunTypes, Table
<1>2. Migrating(r) /\ runner[r].pc # "bump"
    BY <1>1 DEF Migrating, Applying
<1>3. CASE Migration[u].conflicts \cap catalog # {} /\ Becomes(r, "idle", 0, FALSE, {}) /\ UNCHANGED <<version, catalog, index>>
    <2>1. ~Repeatable(runner[r].current_version + 1)
        <3>1. Migration[u].conflicts # {}
            BY <1>3
        <3> QED BY <1>1, <1>t, <3>1, RepeatableFiles
    <2>2. RowInv' /\ UncleanInv'
        BY <1>0, <1>2, <1>3, <2>1, RowLeave
    <2>3. /\ \A w \in SchemaVersions : Reached(w)' => Reached(w)
          /\ \A w \in SchemaVersions : Still(w) => Still(w)'
        BY <1>2, <1>3, <2>1, ReachLeave
    <2>4. ListInv'
        BY <1>0, <1>3, ListKept
    <2> QED BY <1>1, <1>3, <2>2, <2>3, <2>4, OverSame
<1>4. CASE /\ Migration[u].conflicts \cap catalog = {} /\ (Migration[u].locks => build = NoBuild)
           /\ Becomes(r, "next", u, runner[r].cleaned, runner[r].names)
           /\ version' = u /\ catalog' = catalog \cup {u} /\ index' = CatalogIndex(Migration[u], u)
    <2>1. RowInv' /\ UncleanInv'
        BY <1>0, <1>1, <1>2, <1>4, RowAdvance
    <2>2. /\ \A w \in SchemaVersions : Reached(w)' => Reached(w) \/ w = u
          /\ \A w \in SchemaVersions : w # u /\ Still(w) => Still(w)'
          /\ \A w \in SchemaVersions : u < w /\ Repeatable(u) => Still(w)'
        BY <1>2, <1>4, ReachFile
    <2>3. ListInv'
        BY <1>0, <1>4, ListKept
    <2>4. \A i \in Indexes :
             /\ ~Touches(u, i) => index'[i] = index[i]
             /\ i \in Migration[u].drops => index'[i] = Absent
             /\ i \in Migration[u].creates => index'[i] = IF index[i] = Absent THEN u ELSE index[i]
        BY <1>0, <1>1, <1>4, CatalogIndexes
    <2>5. ASSUME NEW i \in Indexes, Touches(u, i)
          PROVE  /\ build = NoBuild /\ index[i] # Invalid /\ index[i] \in SchemaVersions \cup {Absent}
                 /\ (i \in Migration[u].creates \/ i \in Migration[u].drops)
        <3>1. build = NoBuild /\ (i \in Migration[u].creates \/ i \in Migration[u].drops)
            BY <1>1, <1>4, <2>5, Table DEF Touches
        <3>2. index[i] # Invalid
            BY <1>0, <3>1, NoBuildNoInvalid
        <3>3. index[i] \in IndexState
            BY <1>t
        <3>4. index[i] \in SchemaVersions \cup {Absent}
            BY <3>2, <3>3, IndexStates
        <3> QED BY <3>1, <3>2, <3>4
    <2>6. ASSUME NEW w \in SchemaVersions, u < w, Reached(w)', \E i : Touches(u, i)
          PROVE  Repeatable(u)
        <3>1. Reached(w)
            BY <1>t, <2>2, <2>6
        <3>2. u \in catalog
            BY <1>0, <1>1, <2>6, <3>1, ReachedBelow DEF DataInv
        <3> QED BY <1>1, <1>4, <2>6, <3>2, RepeatableFiles
    <2>7. DataInv'
        <3>1. \A v \in SchemaVersions : ~IsOnline(v) /\ Reached(v)' => v \in catalog'
            BY <1>0, <1>4, <2>2 DEF DataInv
        <3>2. build'.client # "orphan"
            BY <1>0, <1>1 DEF DataInv
        <3>3. ASSUME NEW i \in Indexes, index'[i] = Invalid PROVE build' # NoBuild /\ build'.of = i
            <4>1. ~Touches(u, i)
                BY <1>1, <2>4, <2>5, <3>3, IndexStates
            <4> QED BY <1>0, <1>1, <2>4, <3>3, <4>1 DEF DataInv
        <3>4. ASSUME NEW i \in Indexes, index'[i] \in SchemaVersions PROVE i \in Migration[index'[i]].creates
            <4>1. CASE index'[i] = index[i]
                BY <1>0, <3>4, <4>1 DEF DataInv
            <4>2. CASE index'[i] # index[i]
                BY <2>4, <2>5, <3>4, <4>2, IndexStates
            <4> QED BY <4>1, <4>2
        <3> QED BY <3>1, <3>2, <3>3, <3>4, DataNext
    <2>8. ASSUME NEW i \in Indexes PROVE Heals(i)'
        <3>1. CASE ~Touches(u, i)
            <4>1. Heals(i) /\ index'[i] = index[i]
                BY <1>0, <2>4, <3>1
            <4> QED BY <2>2, <3>1, <4>1, HealsKept
        <3>2. CASE i \in Migration[u].drops
            <4>1. index'[i] \notin SchemaVersions /\ Touches(u, i)
                BY <2>4, <3>2, IndexStates DEF Touches
            <4>2. ASSUME NEW l \in SchemaVersions, LastCreates(l, i), Reached(l)' PROVE Repeatable(l) /\ Still(l)'
                <5>1. u <= l /\ u # l
                    BY <1>1, <3>2, <4>1, <4>2, Table DEF LastCreates
                <5>2. u < l /\ l \in Nat
                    BY <1>t, <5>1
                <5>3. Repeatable(u)
                    BY <2>6, <4>1, <4>2, <5>2
                <5>4. Repeatable(l)
                    BY <1>t, <5>2, <5>3, RepeatableUp
                <5> QED BY <2>2, <5>2, <5>3, <5>4
            <4> QED BY <4>1, <4>2, HealsNext
        <3>3. CASE i \in Migration[u].creates
            <4>1. Touches(u, i) /\ index'[i] \in SchemaVersions
                BY <1>1, <2>4, <2>5, <3>3 DEF Touches
            <4>2. ASSUME NEW d \in SchemaVersions, i \in Migration[d].drops, index'[i] < d, Reached(d)'
                  PROVE  Repeatable(index'[i]) /\ Still(d)'
                <5>0. d # u
                    BY <1>1, <3>3, <4>2, Table
                <5>1. CASE index[i] = Absent
                    <6>1. index'[i] = u
                        BY <2>4, <3>3, <5>1
                    <6>2. Repeatable(u)
                        BY <2>6, <4>1, <4>2, <6>1
                    <6> QED BY <2>2, <4>2, <6>1, <6>2
                <5>2. CASE index[i] # Absent
                    <6>1. index'[i] = index[i]
                        BY <2>4, <3>3, <5>2
                    <6>2. Reached(d)
                        BY <2>2, <4>2, <5>0
                    <6>3. Repeatable(index[i]) /\ Still(d)
                        BY <1>0, <4>1, <4>2, <6>1, <6>2 DEF Heals
                    <6> QED BY <2>2, <5>0, <6>1, <6>3
                <5> QED BY <5>1, <5>2
            <4> QED BY <4>1, <4>2, HealsNext
        <3> QED BY <3>1, <3>2, <3>3 DEF Touches
    <2> QED BY <2>1, <2>3, <2>7, <2>8, OverIndexes
<1>5. \/ Migration[u].conflicts \cap catalog # {} /\ Becomes(r, "idle", 0, FALSE, {}) /\ UNCHANGED <<version, catalog, index>>
      \/ /\ Migration[u].conflicts \cap catalog = {} /\ (Migration[u].locks => build = NoBuild)
         /\ Becomes(r, "next", u, runner[r].cleaned, runner[r].names)
         /\ version' = u /\ catalog' = catalog \cup {u} /\ index' = CatalogIndex(Migration[u], u)
    BY CatalogEffect
<1> HIDE DEF u
<1> QED BY <1>3, <1>4, <1>5

\* A step of an online file on its index i, by r that is at it.
LEMMA OnlineOver ==
    ASSUME TwoRunners, RunInv, OverInv, faults = 0, NEW r \in Runners, runner[r].pc \in {"ddl", "building"},
           Pending(r) \in SchemaVersions, IsOnline(Pending(r)), NEW i \in Indexes, Touches(Pending(r), i),
           index' \in [Indexes -> IndexState], \A j \in Indexes : j # i => index'[j] = index[j],
           UNCHANGED <<version, catalog>>, build' = NoBuild, build # NoBuild => build.of = i,
           Becomes(r, "bump", runner[r].current_version, runner[r].cleaned, runner[r].names),
           \/ i \in Migration[Pending(r)].drops /\ index'[i] = Absent
           \/ i \in Migration[Pending(r)].creates /\ index'[i] = Pending(r)
           \/ i \in Migration[Pending(r)].creates /\ index'[i] \in SchemaVersions /\ index'[i] = index[i]
    PROVE  OverInv'
<1> DEFINE u == Pending(r)
<1>0. DataInv /\ (\A j \in Indexes : Heals(j)) /\ ListInv /\ RowInv /\ UncleanInv
    BY DEF OverInv
<1>t. u \in Nat /\ SchemaVersions \subseteq Nat
    BY Table
<1>1. Migrating(r) /\ runner[r].pc # "bump"
    BY DEF Migrating, Applying
<1>2. RowInv' /\ UncleanInv'
    BY <1>0, <1>1, RowSame DEF Applying
<1>3. /\ \A w \in SchemaVersions : Reached(w)' => Reached(w) \/ w = u
      /\ \A w \in SchemaVersions : w # u /\ Still(w) => Still(w)'
      /\ \A w \in SchemaVersions : u < w /\ Repeatable(u) => Still(w)'
    BY <1>1, ReachFile
<1>4. ListInv'
    BY <1>0, ListKept
<1>5. Repeatable(u)
    BY <1>t DEF Repeatable
<1>6. \A j \in Indexes : j # i => ~Touches(u, j)
    BY OnlineTouchesOne
<1>7. DataInv'
    <2>1. \A v \in SchemaVersions : ~IsOnline(v) /\ Reached(v)' => v \in catalog'
        BY <1>0, <1>3 DEF DataInv
    <2>2. build'.client # "orphan"
        BY DEF NoBuild
    <2>3. ASSUME NEW j \in Indexes PROVE index'[j] # Invalid
        <3>1. CASE j = i
            BY <3>1, IndexStates
        <3>2. CASE j # i
            BY <1>0, <3>2 DEF DataInv
        <3> QED BY <3>1, <3>2
    <2>4. ASSUME NEW j \in Indexes, index'[j] \in SchemaVersions PROVE j \in Migration[index'[j]].creates
        <3>1. CASE index'[j] = index[j]
            BY <1>0, <2>4, <3>1 DEF DataInv
        <3>2. CASE index'[j] # index[j]
            BY <2>4, <3>2, IndexStates
        <3> QED BY <3>1, <3>2
    <2> QED BY <2>1, <2>2, <2>3, <2>4, DataNext
<1>8. ASSUME NEW j \in Indexes PROVE Heals(j)'
    <2>1. CASE j # i
        <3>1. Heals(j) /\ index'[j] = index[j] /\ ~Touches(u, j)
            BY <1>0, <1>6, <2>1
        <3> QED BY <1>3, <3>1, HealsKept
    <2>2. CASE j = i /\ i \in Migration[u].drops /\ index'[i] = Absent
        <3>1. index'[j] \notin SchemaVersions
            BY <2>2, IndexStates
        <3>2. ASSUME NEW l \in SchemaVersions, LastCreates(l, j) PROVE Repeatable(l) /\ Still(l)'
            <4>1. u <= l /\ u # l
                BY <2>2, <3>2, Table DEF LastCreates
            <4>2. u < l /\ l \in Nat
                <5>1. u \in Nat /\ l \in Nat
                    BY <1>t
                <5> HIDE DEF u
                <5> QED BY <4>1, <5>1
            <4>3. Repeatable(l)
                BY <1>5, <1>t, <4>2, RepeatableUp
            <4> QED BY <1>3, <1>5, <4>2, <4>3
        <3> QED BY <3>1, <3>2, HealsNext
    <2>3. CASE j = i /\ i \in Migration[u].creates /\ index'[i] = u
        <3>1. ASSUME NEW d \in SchemaVersions, index'[j] < d PROVE Repeatable(index'[j]) /\ Still(d)'
            BY <1>3, <1>5, <2>3, <3>1
        <3>2. index'[j] \in SchemaVersions
            BY <2>3
        <3> QED BY <3>1, <3>2, HealsNext
    <2>4. CASE j = i /\ i \in Migration[u].creates /\ index'[i] \in SchemaVersions /\ index'[i] = index[i]
        <3>1. ASSUME NEW d \in SchemaVersions, j \in Migration[d].drops, index'[j] < d, Reached(d)' PROVE Repeatable(index'[j]) /\ Still(d)'
            <4>1. d # u
                BY <2>4, <3>1, Table
            <4> QED BY <1>0, <1>3, <2>4, <3>1, <4>1 DEF Heals
        <3> QED BY <2>4, <3>1, HealsNext
    <2> QED BY <2>1, <2>2, <2>3, <2>4
<1> QED BY <1>2, <1>4, <1>7, <1>8, OverIndexes

\* The clean-up drops an index that r is about to create.
LEMMA CleanOver ==
    ASSUME RunInv, OverInv, faults = 0, NEW r \in Runners, runner[r].pc = "drop", NEW i \in runner[r].names,
           i \in Indexes, build = NoBuild, index' = [index EXCEPT ![i] = Absent],
           Becomes(r, "drop", runner[r].current_version, runner[r].cleaned, runner[r].names \ {i}),
           UNCHANGED <<version, catalog, build>>
    PROVE  OverInv'
<1>0. DataInv /\ (\A j \in Indexes : Heals(j)) /\ ListInv /\ RowInv /\ UncleanInv /\ MigrationTypeOK
    BY DEF OverInv, RunInv
<1>t. runner[r].current_version \in Nat /\ SchemaVersions \subseteq Nat /\ Pending(r) = runner[r].current_version + 1
    BY RunTypes, Table
<1>1. Migrating(r) /\ runner[r].pc # "bump" /\ Pending(r) \in SchemaVersions /\ IsOnline(Pending(r))
    BY DEF Migrating, Applying, RunInv, PcInv
<1>2. RowInv' /\ UncleanInv'
    BY <1>0, <1>1, RowSame DEF Applying
<1>3. /\ \A w \in SchemaVersions : Reached(w)' => Reached(w)
      /\ \A w \in SchemaVersions : Still(w) => Still(w)'
    BY <1>1, ReachSame DEF Applying
<1>i. index'[i] = Absent /\ \A j \in Indexes : j # i => index'[j] = index[j]
    BY <1>0, IndexStates, SomeIndexChanges
<1>4. PICK v \in SchemaVersions : IsOnline(v) /\ i \in Migration[v].creates /\ runner[r].current_version < v
    BY <1>0 DEF ListInv
<1>5. ListInv'
    <2>1. \A s \in Runners : s # r => runner'[s] = runner[s]
        BY StepView
    <2>2. runner'[r].names \subseteq runner[r].names /\ runner'[r].current_version = runner[r].current_version
        BY StepView
    <2> QED BY <1>0, <2>1, <2>2 DEF ListInv
<1>6. DataInv'
    <2>1. \A w \in SchemaVersions : ~IsOnline(w) /\ Reached(w)' => w \in catalog'
        BY <1>0, <1>3 DEF DataInv
    <2>2. build'.client # "orphan"
        BY <1>0 DEF DataInv
    <2>3. \A j \in Indexes : index'[j] # Invalid
        BY <1>0, <1>i, IndexStates, NoBuildNoInvalid
    <2>4. \A j \in Indexes : index'[j] \in SchemaVersions => j \in Migration[index'[j]].creates
        BY <1>0, <1>i, IndexStates DEF DataInv
    <2> QED BY <2>1, <2>2, <2>3, <2>4, DataNext
<1>7. ASSUME NEW j \in Indexes PROVE Heals(j)'
    <2>1. CASE j # i
        <3>1. \A w \in SchemaVersions : w # 0
            BY DEF SchemaVersions
        <3>2. Heals(j) /\ index'[j] = index[j] /\ (0 \in SchemaVersions => ~Touches(0, j))
            BY <1>0, <1>i, <2>1, <3>1
        <3>3. /\ \A w \in SchemaVersions : Reached(w)' => Reached(w) \/ w = 0
              /\ \A w \in SchemaVersions : w # 0 /\ Still(w) => Still(w)'
            BY <1>3
        <3> QED BY <3>2, <3>3, HealsKept
    <2>2. CASE j = i
        <3>1. index'[j] \notin SchemaVersions
            BY <1>i, <2>2, IndexStates
        <3>2. ASSUME NEW l \in SchemaVersions, LastCreates(l, j) PROVE Repeatable(l) /\ Still(l)'
            <4>1. v <= l
                BY <1>4, <2>2, <3>2 DEF LastCreates, Touches
            <4>2. Repeatable(l)
                BY <1>4, <4>1 DEF Repeatable
            <4>3. runner[r].current_version < l
                BY <1>4, <1>t, <4>1
            <4>4. ToDo(r, l)
                BY <1>1, <1>t, <4>3 DEF ToDo, Did
            <4>5. Repeatable(runner[r].current_version + 1)
                BY <1>1, <1>t DEF Repeatable
            <4>6. Still(l)
                BY <4>4, <4>5 DEF Still
            <4> QED BY <1>3, <4>2, <4>6
        <3> QED BY <3>1, <3>2, HealsNext
    <2> QED BY <2>1, <2>2
<1> QED BY <1>2, <1>5, <1>6, <1>7, OverIndexes

LEMMA NextOver ==
    ASSUME RepeatableTail, TwoRunners, RunInv, OverInv, MigrationNext
    PROVE  OverInv'
<1> USE DEF Applying
<1>0. /\ MigrationTypeOK /\ PcInv /\ BuildInv /\ index \in [Indexes -> IndexState] /\ faults \in Nat
      /\ faults = 0 => DataInv /\ ListInv /\ RowInv /\ UncleanInv
    BY Table DEF RunInv, MigrationTypeOK, OverInv
<1>1. ASSUME faults = 0, NEW r \in Runners, LaunchMigrates(r) PROVE OverInv'
    <2>1. runner[r].pc = "idle" /\ Becomes(r, "check", 0, FALSE, {}) /\ UNCHANGED <<version, catalog, index, build>>
        BY <1>1, LaunchEffect
    <2>2. ~Migrating(r) /\ "check" \notin Applying
        BY <2>1 DEF Migrating
    <2>3. RowInv' /\ UncleanInv'
        BY <1>0, <1>1, <2>1, <2>2, RowSame
    <2>4. (\A w : Reached(w)' <=> Reached(w)) /\ \A w : Still(w) => Still(w)'
        BY <2>1, <2>2, ReachSame
    <2>5. ListInv'
        BY <1>0, <1>1, <2>1, ListKept
    <2> QED BY <1>1, <2>1, <2>3, <2>4, <2>5, OverSame
<1>2. ASSUME faults = 0, NEW r \in Runners, CheckRelations(r) PROVE OverInv'
    <2>1. /\ runner[r].pc = "check" /\ Becomes(r, "create", runner[r].current_version, runner[r].cleaned, runner[r].names)
          /\ UNCHANGED <<version, catalog, index, build>>
        BY <1>2, CheckEffect
    <2>2. ~Migrating(r) /\ "create" \notin Applying
        BY <2>1 DEF Migrating
    <2>3. RowInv' /\ UncleanInv'
        BY <1>0, <1>2, <2>1, <2>2, RowSame
    <2>4. (\A w : Reached(w)' <=> Reached(w)) /\ \A w : Still(w) => Still(w)'
        BY <2>1, <2>2, ReachSame
    <2>5. ListInv'
        BY <1>0, <1>2, <2>1, ListKept
    <2> QED BY <1>2, <2>1, <2>3, <2>4, <2>5, OverSame
<1>3. ASSUME faults = 0, NEW r \in Runners, CreateRelations(r) PROVE OverInv'
    <2>1. runner[r].pc = "create" /\ UNCHANGED <<version, catalog, index, build>>
        BY <1>3, CreateEffect
    <2>2. ~Migrating(r) /\ "idle" \notin Applying
        BY <2>1 DEF Migrating
    <2>3. CASE Becomes(r, "idle", 0, FALSE, {})
        <3>1. RowInv' /\ UncleanInv'
            BY <1>0, <1>3, <2>1, <2>2, <2>3, RowSame
        <3>2. (\A w : Reached(w)' <=> Reached(w)) /\ \A w : Still(w) => Still(w)'
            BY <2>1, <2>2, <2>3, ReachSame
        <3>3. ListInv'
            BY <1>0, <1>3, <2>3, ListKept
        <3> QED BY <1>3, <2>1, <3>1, <3>2, <3>3, OverSame
    <2>4. CASE Becomes(r, "next", version, FALSE, {})
        <3>1. RowInv' /\ UncleanInv'
            BY <1>0, <1>3, <2>1, <2>2, <2>4, RowJoin
        <3>2. (\A w : Reached(w)' <=> Reached(w)) /\ \A w : Still(w) => Still(w)'
            BY <2>1, <2>2, <2>4, ReachJoin
        <3>3. ListInv'
            BY <1>0, <1>3, <2>4, ListKept
        <3> QED BY <1>3, <2>1, <3>1, <3>2, <3>3, OverSame
    <2> QED BY <1>3, <2>3, <2>4, CreateEffect
<1>4. ASSUME faults = 0, NEW r \in Runners, NextMigration(r) PROVE OverInv'
    <2>1. runner[r].pc = "next" /\ UNCHANGED <<version, catalog, index, build>>
        BY <1>4, NextEffect
    <2>2. Migrating(r)
        BY <2>1 DEF Migrating
    <2>3. CASE runner[r].current_version >= LatestVersion /\ Becomes(r, "idle", 0, FALSE, {})
        <3>1. RowInv' /\ UncleanInv'
            BY <1>0, <1>4, <2>1, <2>2, <2>3, RowLeave
        <3>2. (\A w \in SchemaVersions : Reached(w)' => Reached(w)) /\ \A w \in SchemaVersions : Still(w) => Still(w)'
            BY <2>1, <2>2, <2>3, ReachLeave
        <3>3. ListInv'
            BY <1>0, <1>4, <2>3, ListKept
        <3> QED BY <1>4, <2>1, <3>1, <3>2, <3>3, OverSame
    <2>4. CASE ~(runner[r].current_version >= LatestVersion /\ Becomes(r, "idle", 0, FALSE, {}))
        <3>0. PICK pc \in {"list", "ddl"} :
                 /\ Becomes(r, pc, runner[r].current_version, runner[r].cleaned, runner[r].names)
                 /\ Pending(r) \in SchemaVersions
                 /\ pc = "list" <=> IsOnline(Pending(r)) /\ ~runner[r].cleaned
            BY <1>4, <2>4, NextEffect
        <3>1. RowInv' /\ UncleanInv'
            BY <1>0, <1>4, <2>1, <2>2, <3>0, RowSame
        <3>2. (\A w : Reached(w)' <=> Reached(w)) /\ \A w : Still(w) => Still(w)'
            BY <2>1, <2>2, <3>0, ReachSame
        <3>3. ListInv'
            BY <1>0, <1>4, <3>0, ListKept
        <3> QED BY <1>4, <2>1, <3>1, <3>2, <3>3, OverSame
    <2> QED BY <2>3, <2>4
<1>5. ASSUME faults = 0, NEW r \in Runners, ListInvalidIndexes(r) PROVE OverInv'
    <2> DEFINE names == {i \in Indexes : index[i] = Invalid}
    <2>1. /\ runner[r].pc = "list" /\ Becomes(r, "drop", runner[r].current_version, runner[r].cleaned, names)
          /\ UNCHANGED <<version, catalog, index, build>>
        BY <1>5, ListEffect
    <2>2. Migrating(r) /\ Pending(r) \in SchemaVersions /\ ~runner[r].cleaned
        BY <1>0, <2>1 DEF Migrating, PcInv
    <2>3. ASSUME NEW i \in names
          PROVE  \E v \in SchemaVersions : IsOnline(v) /\ i \in Migration[v].creates /\ runner[r].current_version < v
        <3>1. build # NoBuild /\ build.of = i /\ build.client # "orphan"
            BY <1>0, <1>5, <2>3 DEF DataInv
        <3>2. build.client \in Runners
            BY <1>0, <3>1 DEF MigrationTypeOK
        <3>3. PICK s \in Runners : s = build.client
            BY <3>2
        <3>4. /\ build.by \in SchemaVersions /\ IsOnline(build.by) /\ i \in Migration[build.by].creates
              /\ runner[s].pc = "building" /\ build.by = Pending(s)
            BY <1>0, <3>1, <3>3 DEF BuildInv
        <3>5. s # r /\ Migrating(s)
            BY <2>1, <3>4 DEF Migrating
        <3>6. /\ runner[r].current_version \in Nat /\ runner[s].current_version \in Nat /\ LatestVersion \in Nat
              /\ Pending(s) = runner[s].current_version + 1 /\ Pending(r) = runner[r].current_version + 1
              /\ runner[r].current_version < LatestVersion
            BY <2>2, RunTypes, Table
        <3>7. NoOnlineBetween(r, s)
            BY <1>0, <1>5, <2>2, <3>5, <3>6 DEF UncleanInv
        <3>8. runner[r].current_version < build.by
            BY <3>4, <3>6, <3>7 DEF NoOnlineBetween
        <3> QED BY <3>4, <3>8
    <2> HIDE DEF names
    <2>4. RowInv' /\ UncleanInv'
        BY <1>0, <1>5, <2>1, <2>2, RowSame
    <2>5. (\A w : Reached(w)' <=> Reached(w)) /\ \A w : Still(w) => Still(w)'
        BY <2>1, <2>2, ReachSame
    <2>6. ListInv'
        <3>1. \A s \in Runners : s # r => runner'[s] = runner[s]
            BY <2>1, StepView
        <3>2. runner'[r].names = names /\ runner'[r].current_version = runner[r].current_version
            BY <2>1, StepView
        <3> QED BY <1>0, <1>5, <2>3, <3>1, <3>2 DEF ListInv
    <2> QED BY <1>5, <2>1, <2>4, <2>5, <2>6, OverSame
<1>6. ASSUME faults = 0, NEW r \in Runners, DropInvalidIndex(r) PROVE OverInv'
    <2>1. runner[r].pc = "drop" /\ UNCHANGED <<version, catalog, build>>
        BY <1>6, CleanEffect
    <2>2. Migrating(r)
        BY <2>1 DEF Migrating
    <2>3. CASE Becomes(r, "ddl", runner[r].current_version, TRUE, {}) /\ UNCHANGED index
        <3>1. RowInv' /\ UncleanInv'
            BY <1>0, <1>6, <2>1, <2>2, <2>3, RowSame
        <3>2. (\A w : Reached(w)' <=> Reached(w)) /\ \A w : Still(w) => Still(w)'
            BY <2>1, <2>2, <2>3, ReachSame
        <3>3. ListInv'
            BY <1>0, <1>6, <2>3, ListKept
        <3> QED BY <1>6, <2>1, <2>3, <3>1, <3>2, <3>3, OverSame
    <2>4. ASSUME NEW i \in runner[r].names, i \in Indexes, build = NoBuild, index' = [index EXCEPT ![i] = Absent],
                 Becomes(r, "drop", runner[r].current_version, runner[r].cleaned, runner[r].names \ {i})
          PROVE  OverInv'
        BY <1>6, <2>1, <2>4, CleanOver
    <2> QED BY <1>6, <2>3, <2>4, CleanEffect
<1>7. ASSUME faults = 0, NEW r \in Runners, ApplyCatalog(r) PROVE OverInv'
    BY <1>7, CatalogOver
<1>8. ASSUME faults = 0, NEW r \in Runners, DropOnline(r) PROVE OverInv'
    <2>1. /\ runner[r].pc = "ddl" /\ IsOnline(Pending(r)) /\ Pending(r) \in SchemaVersions /\ build = NoBuild
          /\ Becomes(r, "bump", runner[r].current_version, runner[r].cleaned, runner[r].names)
          /\ UNCHANGED <<version, catalog, build>>
        BY <1>8, DropOnlineEffect
    <2>2. PICK i \in Migration[Pending(r)].drops : index' = [index EXCEPT ![i] = Absent]
        BY <1>8, DropOnlineEffect
    <2>3. i \in Indexes /\ Touches(Pending(r), i)
        BY <2>1, <2>2, Table DEF Touches
    <2>4. /\ index' \in [Indexes -> IndexState] /\ index'[i] = Absent
          /\ \A j \in Indexes : j # i => index'[j] = index[j]
        BY <1>0, <2>2, <2>3, SomeIndexChanges, IndexStates
    <2> QED BY <1>8, <2>1, <2>2, <2>3, <2>4, OnlineOver
<1>9. ASSUME faults = 0, NEW r \in Runners, CreateOnline(r) PROVE OverInv'
    <2>1. /\ runner[r].pc = "ddl" /\ IsOnline(Pending(r)) /\ Pending(r) \in SchemaVersions /\ build = NoBuild
          /\ UNCHANGED <<version, catalog>>
        BY <1>9, CreateOnlineEffect
    <2>2. PICK i \in Migration[Pending(r)].creates :
             \/ /\ index[i] = Absent /\ index' = [index EXCEPT ![i] = Invalid]
                /\ build' = [of |-> i, by |-> Pending(r), client |-> r]
                /\ Becomes(r, "building", runner[r].current_version, runner[r].cleaned, runner[r].names)
             \/ /\ index[i] # Absent /\ UNCHANGED <<index, build>>
                /\ Becomes(r, "bump", runner[r].current_version, runner[r].cleaned, runner[r].names)
        BY <1>9, CreateOnlineEffect
    <2>3. i \in Indexes /\ Touches(Pending(r), i)
        BY <2>1, <2>2, Table DEF Touches
    <2>4. Migrating(r) /\ DataInv /\ \A j \in Indexes : Heals(j) /\ index[j] # Invalid
        BY <1>0, <1>9, <2>1, NoBuildNoInvalid DEF Migrating, OverInv
    <2>5. CASE /\ index[i] # Absent /\ UNCHANGED <<index, build>>
               /\ Becomes(r, "bump", runner[r].current_version, runner[r].cleaned, runner[r].names)
        <3>1. index[i] \in IndexState /\ index[i] # Invalid
            BY <1>0, <2>3, <2>4
        <3>2. index[i] \in SchemaVersions
            BY <2>5, <3>1, IndexStates
        <3>3. index' \in [Indexes -> IndexState] /\ build' = NoBuild /\ index'[i] = index[i] /\ index'[i] \in SchemaVersions
            BY <1>0, <2>1, <2>5, <3>2
        <3>4. \A j \in Indexes : j # i => index'[j] = index[j]
            BY <2>5
        <3> QED BY <1>9, <2>1, <2>2, <2>3, <2>5, <3>3, <3>4, OnlineOver
    <2>6. CASE /\ index[i] = Absent /\ index' = [index EXCEPT ![i] = Invalid]
               /\ build' = [of |-> i, by |-> Pending(r), client |-> r]
               /\ Becomes(r, "building", runner[r].current_version, runner[r].cleaned, runner[r].names)
        <3>1. RowInv' /\ UncleanInv'
            BY <1>0, <1>9, <2>1, <2>4, <2>6, RowSame
        <3>2. (\A w : Reached(w)' <=> Reached(w)) /\ \A w : Still(w) => Still(w)'
            BY <2>1, <2>4, <2>6, ReachSame
        <3>3. ListInv'
            BY <1>0, <1>9, <2>6, ListKept
        <3>4. index'[i] = Invalid /\ \A j \in Indexes : j # i => index'[j] = index[j]
            BY <1>0, <2>3, <2>6, SomeIndexChanges, IndexStates
        <3>5. DataInv'
            <4>1. \A w \in SchemaVersions : ~IsOnline(w) /\ Reached(w)' => w \in catalog'
                BY <2>1, <2>4, <3>2 DEF DataInv
            <4>2. build'.client = r /\ build'.of = i
                BY <2>6
            <4>3. build'.client # "orphan" /\ build' # NoBuild
                BY <4>2, Table DEF NoBuild
            <4>4. \A j \in Indexes : index'[j] = Invalid => build' # NoBuild /\ build'.of = j
                BY <2>4, <3>4, <4>2, <4>3
            <4>5. \A j \in Indexes : index'[j] \in SchemaVersions => j \in Migration[index'[j]].creates
                BY <2>4, <3>4, IndexStates DEF DataInv
            <4> QED BY <4>1, <4>3, <4>4, <4>5, DataNext
        <3>6. ASSUME NEW j \in Indexes PROVE Heals(j)'
            <4>1. index'[j] = index[j] \/ (index[j] \notin SchemaVersions /\ index'[j] \notin SchemaVersions)
                BY <2>6, <3>4, IndexStates
            <4>2. \A d \in SchemaVersions : j \in Migration[d].drops /\ index'[j] \in SchemaVersions /\ index'[j] < d /\ Reached(d)'
                     => Repeatable(index'[j]) /\ Still(d)'
                BY <2>4, <3>2, <4>1 DEF Heals
            <4>3. \A l \in SchemaVersions : LastCreates(l, j) /\ index'[j] \notin SchemaVersions /\ Reached(l)' => Repeatable(l) /\ Still(l)'
                BY <2>4, <3>2, <4>1 DEF Heals
            <4> QED BY <4>2, <4>3, HealsNext
        <3> QED BY <3>1, <3>3, <3>5, <3>6, OverIndexes
    <2> QED BY <2>2, <2>5, <2>6
<1>10. ASSUME faults = 0, NEW r \in Runners, BuildDone(r) PROVE OverInv'
    <2>1. /\ runner[r].pc = "building" /\ IsOnline(Pending(r)) /\ Pending(r) \in SchemaVersions /\ build' = NoBuild
          /\ Becomes(r, "bump", runner[r].current_version, runner[r].cleaned, runner[r].names)
          /\ UNCHANGED <<version, catalog>>
        BY <1>10, BuildDoneEffect
    <2>2. PICK i \in Migration[Pending(r)].creates : build.of = i /\ index' = [index EXCEPT ![i] = Pending(r)]
        BY <1>10, BuildDoneEffect
    <2>3. i \in Indexes /\ Touches(Pending(r), i)
        BY <2>1, <2>2, Table DEF Touches
    <2>4. /\ index' \in [Indexes -> IndexState] /\ index'[i] = Pending(r)
          /\ \A j \in Indexes : j # i => index'[j] = index[j]
        BY <1>0, <2>1, <2>2, <2>3, SomeIndexChanges, IndexStates
    <2> QED BY <1>10, <2>1, <2>2, <2>3, <2>4, OnlineOver
<1>11. ASSUME faults = 0, NEW r \in Runners, BumpOnline(r) PROVE OverInv'
    <2>1. /\ runner[r].pc = "bump" /\ IsOnline(Pending(r)) /\ Pending(r) \in SchemaVersions /\ version' = Pending(r)
          /\ Becomes(r, "next", Pending(r), runner[r].cleaned, runner[r].names)
          /\ UNCHANGED <<catalog, index, build>>
        BY <1>11, BumpEffect
    <2>2. Migrating(r) /\ runner[r].cleaned
        BY <1>0, <2>1 DEF Migrating, PcInv
    <2>3. RowInv' /\ UncleanInv'
        BY <1>0, <1>11, <2>1, <2>2, RowAdvance
    <2>4. (\A w \in SchemaVersions : Reached(w)' => Reached(w)) /\ \A w \in SchemaVersions : Still(w) => Still(w)'
        BY <2>1, ReachBump
    <2>5. ListInv'
        BY <1>0, <1>11, <2>1, ListKept
    <2> QED BY <1>11, <2>1, <2>3, <2>4, <2>5, OverSame
<1>12. ASSUME faults = 0, OrphanEnds PROVE OverInv'
    BY <1>0, <1>12, OrphanEffect DEF DataInv
<1>13. ASSUME NEW r \in Runners, Crash(r) \/ StatementFails(r) PROVE OverInv'
    <2>1. faults' = faults + 1
        BY <1>13, CrashEffect, FailEffect
    <2> QED BY <1>0, <2>1 DEF OverInv
<1>14. ASSUME faults # 0, UNCHANGED faults PROVE OverInv'
    BY <1>14 DEF OverInv
<1>15. (\A r \in Runners : ~Crash(r) /\ ~StatementFails(r)) => UNCHANGED faults
    BY LaunchEffect, CheckEffect, CreateEffect, NextEffect, ListEffect, CleanEffect, CatalogEffect, DropOnlineEffect,
       CreateOnlineEffect, BuildDoneEffect, BumpEffect, OrphanEffect DEF MigrationNext, Step
<1> QED BY <1>1, <1>2, <1>3, <1>4, <1>5, <1>6, <1>7, <1>8, <1>9, <1>10, <1>11, <1>12, <1>13, <1>14, <1>15
        DEF MigrationNext, Step

\* Two launches that overlap without a crash or a failed statement end with the complete schema, for
\* every table of files whose tail can be applied again (RepeatableTail): what one run drops or
\* leaves behind the other one, which still has that file to do, puts right.
THEOREM TwoLaunchesHeal ==
    ASSUME RepeatableTail, TwoRunners
    PROVE  MigrationSpec => []OverlapHeals
<1>1. MigrationInit => RunInv /\ OverInv
    BY InitRun, InitOver
<1>2. RunInv /\ OverInv /\ [MigrationNext]_(migration_vars) => (RunInv /\ OverInv)'
    <2>1. RunInv /\ UNCHANGED migration_vars => RunInv'
        BY DEF RunInv, MigrationTypeOK, PcInv, BuildInv, migration_vars, db, Pending
    <2>2. OverInv /\ UNCHANGED migration_vars => OverInv'
        <3> SUFFICES ASSUME OverInv, UNCHANGED migration_vars PROVE OverInv'
            OBVIOUS
        <3>1. UNCHANGED <<version, catalog, index, build, runner, faults>>
            BY DEF migration_vars, db
        <3>2. \A w : (Reached(w)' <=> Reached(w)) /\ (Still(w)' <=> Still(w))
            BY <3>1 DEF Reached, Still, Did, ToDo, Migrating
        <3>3. \A i \in Indexes : Heals(i) => Heals(i)'
            BY <3>1, <3>2 DEF Heals
        <3>4. DataInv => DataInv'
            BY <3>1, <3>2 DEF DataInv
        <3>5. ListInv /\ RowInv /\ UncleanInv => ListInv' /\ RowInv' /\ UncleanInv'
            BY <3>1 DEF ListInv, RowInv, UncleanInv, NoOnlineBetween, Migrating
        <3> QED BY <3>1, <3>3, <3>4, <3>5 DEF OverInv, Indexes
    <2> QED BY <2>1, <2>2, NextRun, NextOver
<1>3. RunInv /\ OverInv => OverlapHeals
    BY OverHeals
<1> QED BY <1>1, <1>2, <1>3, PTL DEF MigrationSpec
====
