---- MODULE DurableQueueProofs ----
(*
 * Proofs about DurableQueue, for every number of executors and workflows, all priorities, delays and
 * handlers, and every combination of limits.
 *)
EXTENDS DurableQueue, FiniteSetTheorems, TLAPS

----
(* Operators: the order of the queue and its first rows *)

LEMMA WorkflowsFinite ==
    /\ IsFiniteSet(Workflows)
    /\ \A S \in SUBSET Workflows : IsFiniteSet(S) /\ Cardinality(S) \in Nat
    /\ \A S, T \in SUBSET Workflows : S \subseteq T => Cardinality(S) <= Cardinality(T)
<1>1. IsFiniteSet(Workflows)
    BY QueueAssumption, FS_Interval DEF Workflows
<1>2. \A S \in SUBSET Workflows : IsFiniteSet(S) /\ Cardinality(S) \in Nat
    BY <1>1, FS_Subset, FS_CardinalityType
<1>3. ASSUME NEW T \in SUBSET Workflows, NEW S \in SUBSET T
      PROVE  Cardinality(S) <= Cardinality(T)
    BY <1>2, FS_Subset
<1> QED BY <1>1, <1>2, <1>3

\* Before is a strict total order of the rows.
LEMMA BeforeIsOrder ==
    /\ \A v \in Workflows : ~Before(v, v)
    /\ \A u, v, w \in Workflows : Before(u, v) /\ Before(v, w) => Before(u, w)
    /\ \A v, w \in Workflows : v = w \/ Before(v, w) \/ Before(w, v)
<1>1. \A v \in Workflows : v \in Nat /\ Priority[v] \in Nat
    BY QueueAssumption DEF Workflows
<1> QED BY <1>1 DEF Before

\* LIMIT k returns rows of S, at most k of them, and nothing is passed over.
LEMMA FirstBounds ==
    ASSUME NEW S \in SUBSET Workflows, NEW k \in Int
    PROVE  /\ First(k, S) \subseteq S
           /\ k \in Nat => Cardinality(First(k, S)) <= k
           /\ \A v \in S, w \in First(k, S) : Before(v, w) => v \in First(k, S)
<1> DEFINE Pred(w) == {v \in S : Before(v, w)}
           rank == [w \in S |-> Cardinality(Pred(w))]
<1>1. \A w \in S : Pred(w) \in SUBSET S /\ rank[w] \in Nat /\ IsFiniteSet(Pred(w))
    BY WorkflowsFinite
<1>2. ASSUME NEW v \in S, NEW w \in S, Before(v, w)
      PROVE  rank[v] < rank[w]
    <2>1. Pred(v) \subseteq Pred(w)
        BY <1>2, BeforeIsOrder
    <2>2. v \in Pred(w) /\ v \notin Pred(v)
        BY <1>2, BeforeIsOrder
    <2>3. Cardinality(Pred(v)) <= Cardinality(Pred(w))
          /\ (Cardinality(Pred(w)) = Cardinality(Pred(v)) => Pred(w) = Pred(v))
        <3> HIDE DEF Pred
        <3> QED BY <1>1, <2>1, FS_Subset
    <2> QED BY <1>1, <2>2, <2>3
<1>3. First(k, S) = {w \in S : rank[w] < k}
    BY DEF First
<1>4. /\ \A w \in S : rank[w] \in Nat /\ w \in Workflows
      /\ \A v, w \in S : Before(v, w) => rank[v] < rank[w]
    BY <1>1, <1>2
<1> HIDE DEF rank, Pred
<1>5. ASSUME k \in Nat PROVE Cardinality(First(k, S)) <= k
    <2> DEFINE F == First(k, S)
               f == [w \in F |-> rank[w]]
    <2>1. f \in [F -> 0 .. k - 1]
        BY <1>3, <1>5, <1>4
    <2>2. \A v, w \in F : f[v] = f[w] => v = w
        BY <1>3, <1>4, BeforeIsOrder
    <2>3. f \in Injection(F, 0 .. k - 1)
        BY <2>1, <2>2 DEF Injection, IsInjective
    <2>4. IsFiniteSet(0 .. k - 1) /\ Cardinality(0 .. k - 1) = k
        BY <1>5, FS_Interval
    <2> HIDE DEF f, F
    <2>5. Cardinality(F) <= Cardinality(0 .. k - 1)
        BY <2>3, <2>4, FS_Injection
    <2> QED BY <2>4, <2>5 DEF F
<1>6. ASSUME NEW v \in S, NEW w \in First(k, S), Before(v, w) PROVE v \in First(k, S)
    BY <1>3, <1>6, <1>4
<1> QED BY <1>3, <1>5, <1>6

----
(* The inductive invariant *)

\* A running task owns its row, which at most a cancellation has taken from it; a task whose outcome
\* is written has a final row; an executor that is down or recovering runs nothing, and what it is
\* still to put back is its own.
OwnInv ==
    \A e \in Executors, w \in Workflows :
        /\ tasks[e][w] = "running" =>
              row[w].status = "CANCELLED" \/ (row[w].status = "PENDING" /\ row[w].executor_id = e)
        /\ tasks[e][w] = "written" => row[w].status \in {"FINISHED", "CANCELLED"}
        /\ runner[e].at \in {"down", "launch"} => tasks[e][w] = "none"
        /\ w \in runner[e].todo =>
              /\ runner[e].at = "launch"
              /\ row[w].status = "CANCELLED" \/ (row[w].status = "PENDING" /\ row[w].executor_id = e)

\* A row lock is held by one transaction that is about to claim, on a row that is still ENQUEUED.
LockInv ==
    \A e \in Executors, w \in Workflows : w \in runner[e].locked =>
        /\ runner[e].at = "claim"
        /\ row[w].status = "ENQUEUED"
        /\ \A d \in Executors : w \in runner[d].locked => d = e

\* A row of a snapshot that is no longer ENQUEUED is known to be changed.
SnapInv ==
    \A e \in Executors, w \in Workflows :
        runner[e].at \in {"select", "claim"} /\ w \in runner[e].snap =>
            /\ row[w].status \notin {"ABSENT", "DELAYED"}
            /\ row[w].status # "ENQUEUED" => w \in runner[e].stale

\* The tasks that occupy a worker slot of e.
Busy(e) == {w \in Workflows : tasks[e][w] # "none"}

\* The worker count is exact, and the count an iteration read can only have become too large.
CountInv ==
    \A e \in Executors :
        /\ worker_counts[e] = Cardinality(Busy(e))
        /\ runner[e].at = "claim" => Cardinality(runner[e].locked) <= runner[e].quota
        /\ WorkerConcurrency # None =>
              /\ Cardinality(Busy(e)) <= WorkerConcurrency
              /\ runner[e].at = "count" => Cardinality(Busy(e)) <= runner[e].local
              /\ runner[e].at \in {"select", "claim"} =>
                    Cardinality(Busy(e)) + runner[e].quota <= WorkerConcurrency

\* The rows a transaction under a global limit wants, and all that could be PENDING once it has them:
\* what is PENDING, and what is in the queue up to the last of them.
Wanted(r) == First(r.quota, r.snap)
Pending(rows) == {w \in Workflows : rows[w].status = "PENDING"}
Reach(rows, S) ==
    Pending(rows) \cup {z \in Workflows : /\ rows[z].status = "ENQUEUED"
                                         /\ \E x \in S : z = x \/ Before(z, x)}

\* rows2 is rows after a transaction has claimed C.
Claims(rows, rows2, C) ==
    /\ \A w \in C : rows[w].status = "ENQUEUED" /\ rows2[w].status = "PENDING"
    /\ \A w \in Workflows \ C : rows2[w] = rows[w]

\* Without overtaking, no open transaction can reach beyond the limit.
GlobalInv ==
    GlobalConcurrency # None =>
        /\ \A e \in Executors : runner[e].at = "claim" => runner[e].locked = Wanted(runner[e])
        /\ ~overtaken =>
              /\ Cardinality(Pending(row)) <= GlobalConcurrency
              /\ \A e \in Executors : runner[e].at \in {"select", "claim"} =>
                    Cardinality(Reach(row, Wanted(runner[e]))) <= GlobalConcurrency

Inv == TypeOK /\ OwnInv /\ ClaimedOnce /\ LockInv /\ SnapInv /\ CountInv /\ GlobalInv

\* What a step of others leaves as it is in a runner.
Same(q, r) ==
    /\ r.at = q.at /\ r.local = q.local /\ r.quota = q.quota
    /\ r.snap = q.snap /\ r.locked = q.locked /\ r.todo = q.todo
    /\ q.stale \subseteq r.stale

\* A change of rows is noted by the open transactions and leaves the runners as they are otherwise.
LEMMA Touched ==
    ASSUME NEW runners \in [Executors -> Runner], NEW S \in SUBSET Workflows
    PROVE  /\ Touch(runners, S) \in [Executors -> Runner]
           /\ \A d \in Executors :
                /\ Same(runners[d], Touch(runners, S)[d])
                /\ runners[d].at \in {"select", "claim"} => S \subseteq Touch(runners, S)[d].stale
<1> SUFFICES ASSUME NEW d \in Executors
             PROVE  /\ Touch(runners, S)[d] \in Runner
                    /\ Same(runners[d], Touch(runners, S)[d])
                    /\ runners[d].at \in {"select", "claim"} => S \subseteq Touch(runners, S)[d].stale
    BY DEF Touch
<1> DEFINE r == runners[d]
<1>1. r \in Runner
    OBVIOUS
<1>2. Touch(runners, S)[d] = IF r.at \in {"select", "claim"} THEN [r EXCEPT !.stale = r.stale \cup S] ELSE r
    BY DEF Touch
<1> HIDE DEF r
<1>3. r.stale \cup S \in SUBSET Workflows
    BY <1>1 DEF Runner
<1>4. CASE r.at \in {"select", "claim"}
    BY <1>1, <1>2, <1>3, <1>4 DEF Runner, Same, r
<1>5. CASE r.at \notin {"select", "claim"}
    BY <1>1, <1>2, <1>5 DEF Runner, Same, r
<1> QED BY <1>4, <1>5

LEMMA RestingOK ==
    ASSUME NEW place \in Places
    PROVE  /\ Resting(place) \in Runner /\ Resting(place).at = place
           /\ Resting(place).locked = {} /\ Resting(place).todo = {} /\ Resting(place).snap = {}
    BY DEF Resting, Runner

LEMMA Limits ==
    /\ WorkerConcurrency # None => WorkerConcurrency \in Nat
    /\ GlobalConcurrency # None => GlobalConcurrency \in Nat
    /\ RateLimit # None => RateLimit \in Nat
    BY QueueAssumption

\* What could be PENDING does not grow when rows leave, and when rows join behind.
LEMMA ReachShrinks ==
    ASSUME NEW rows, NEW rows2, NEW S \in SUBSET Workflows,
           \A w \in Workflows :
                /\ rows2[w].status = "PENDING" => rows[w].status = "PENDING"
                /\ rows2[w].status = "ENQUEUED" => \/ rows[w].status \in {"ENQUEUED", "PENDING"}
                                                 \/ \A x \in S : w # x /\ ~Before(w, x)
    PROVE  /\ Cardinality(Pending(rows2)) <= Cardinality(Pending(rows))
           /\ Cardinality(Reach(rows2, S)) <= Cardinality(Reach(rows, S))
<1>1. Pending(rows2) \subseteq Pending(rows) /\ Pending(rows) \subseteq Workflows
    BY DEF Pending
<1>2. Reach(rows2, S) \subseteq Reach(rows, S) /\ Reach(rows, S) \subseteq Workflows
    BY DEF Reach, Pending
<1> QED BY <1>1, <1>2, WorkflowsFinite

\* Steps that claim nothing and open no transaction keep the global limit out of reach.
LEMMA GlobalShrinks ==
    ASSUME TypeOK, GlobalInv, runner' \in [Executors -> Runner], overtaken' \in BOOLEAN,
           overtaken => overtaken',
           \A d \in Executors : runner'[d].at \in {"select", "claim"} =>
                /\ runner[d].at \in {"select", "claim"}
                /\ runner'[d].quota = runner[d].quota /\ runner'[d].snap = runner[d].snap,
           \A d \in Executors : runner'[d].at = "claim" /\ GlobalConcurrency # None =>
                runner'[d].locked = Wanted(runner[d]),
           \A w \in Workflows :
                /\ row'[w].status = "PENDING" => row[w].status = "PENDING"
                /\ row'[w].status = "ENQUEUED" =>
                      \/ row[w].status \in {"ENQUEUED", "PENDING"}
                      \/ overtaken'
                      \/ \A d \in Executors : runner[d].at \in {"select", "claim"} =>
                            \A x \in runner[d].snap : w # x /\ ~Before(w, x)
    PROVE  GlobalInv'
<1> SUFFICES ASSUME GlobalConcurrency # None PROVE GlobalInv'
    BY DEF GlobalInv
<1>1. GlobalConcurrency \in Nat
    BY Limits
<1>2. \A d \in Executors : runner[d] \in Runner /\ runner[d].snap \in SUBSET Workflows /\ runner[d].quota \in Nat
    BY DEF TypeOK, Runner
<1>3. \A d \in Executors : runner'[d].at \in {"select", "claim"} => Wanted(runner'[d]) = Wanted(runner[d])
    BY DEF Wanted
<1>4. ASSUME NEW S \in SUBSET Workflows, ~overtaken',
             \A w \in Workflows : row'[w].status = "ENQUEUED" =>
                 \/ row[w].status \in {"ENQUEUED", "PENDING"}
                 \/ \A x \in S : w # x /\ ~Before(w, x)
      PROVE  /\ Cardinality(Pending(row')) <= Cardinality(Pending(row))
             /\ Cardinality(Reach(row', S)) <= Cardinality(Reach(row, S))
    BY <1>4, ReachShrinks
<1>5. ASSUME ~overtaken' PROVE Cardinality(Pending(row')) <= GlobalConcurrency
    <2>1. {} \in SUBSET Workflows
        OBVIOUS
    <2>2. Cardinality(Pending(row')) <= Cardinality(Pending(row))
        BY <1>4, <1>5, <2>1
    <2>3. Cardinality(Pending(row)) <= GlobalConcurrency
        BY <1>5 DEF GlobalInv
    <2>4. Cardinality(Pending(row)) \in Nat /\ Cardinality(Pending(row')) \in Nat
        BY WorkflowsFinite DEF Pending
    <2> QED BY <1>1, <2>2, <2>3, <2>4
<1>6. ASSUME ~overtaken', NEW d \in Executors, runner'[d].at \in {"select", "claim"}
      PROVE  Cardinality(Reach(row', Wanted(runner'[d]))) <= GlobalConcurrency
    <2>1. PICK S \in SUBSET Workflows : S = Wanted(runner[d]) /\ S \subseteq runner[d].snap
        BY <1>2, FirstBounds DEF Wanted
    <2>2. \A w \in Workflows : row'[w].status = "ENQUEUED" =>
            \/ row[w].status \in {"ENQUEUED", "PENDING"}
            \/ \A x \in S : w # x /\ ~Before(w, x)
        BY <1>6, <2>1
    <2>3. Cardinality(Reach(row', S)) <= Cardinality(Reach(row, S))
        BY <1>4, <1>6, <2>2
    <2>4. Cardinality(Reach(row, S)) <= GlobalConcurrency
        BY <1>6, <2>1 DEF GlobalInv
    <2>5. Cardinality(Reach(row, S)) \in Nat /\ Cardinality(Reach(row', S)) \in Nat
        BY WorkflowsFinite DEF Reach, Pending
    <2> QED BY <1>1, <1>3, <1>6, <2>1, <2>3, <2>4, <2>5
<1> QED BY <1>3, <1>5, <1>6 DEF GlobalInv

\* Rows of the queue change but no claim, task or transaction does: they join, or are cancelled
\* while nobody holds them.
LEMMA RowStep ==
    ASSUME Inv, row' \in [Workflows -> Row], runner' \in [Executors -> Runner],
           elapsed' \subseteq Workflows, overtaken' \in BOOLEAN, disruptions' \in Nat,
           UNCHANGED <<tasks, worker_counts>>,
           \A d \in Executors : Same(runner[d], runner'[d]),
           \A w \in Workflows :
                \/ row'[w].status = row[w].status /\ row'[w].executor_id = row[w].executor_id
                \/ row[w].status \in {"ABSENT", "DELAYED"} /\ row'[w].status \in {"DELAYED", "ENQUEUED"}
                \/ /\ row'[w].status = "CANCELLED" /\ ~Locked(w)
                   /\ \A d \in Executors : runner[d].at \in {"select", "claim"} => w \in runner'[d].stale,
           GlobalInv'
    PROVE  Inv'
<1>1. TypeOK'
    BY DEF Inv, TypeOK
<1>2. OwnInv'
    BY DEF Inv, OwnInv, Same
<1>3. LockInv'
    BY DEF Inv, LockInv, Same, Locked
<1>4. SnapInv'
    BY DEF Inv, SnapInv, Same
<1>5. CountInv'
    BY DEF Inv, CountInv, Same, Busy
<1> QED BY <1>1, <1>2, <1>3, <1>4, <1>5 DEF Inv, ClaimedOnce

\* One runner moves on by itself: nothing happens to rows and tasks.
LEMMA RunnerMoves ==
    ASSUME Inv, NEW e \in Executors, NEW r \in Runner, runner' = [runner EXCEPT ![e] = r],
           UNCHANGED <<row, elapsed, tasks, worker_counts, overtaken, disruptions>>,
           r.at \in {"down", "launch"} => runner[e].at \in {"down", "launch"},
           \A w \in r.todo :
                /\ r.at = "launch"
                /\ row[w].status = "CANCELLED" \/ (row[w].status = "PENDING" /\ row[w].executor_id = e),
           \A w \in r.locked :
                /\ r.at = "claim" /\ row[w].status = "ENQUEUED"
                /\ \A d \in Executors \ {e} : w \notin runner[d].locked,
           r.at \in {"select", "claim"} => \A w \in r.snap :
                /\ row[w].status \notin {"ABSENT", "DELAYED"}
                /\ row[w].status # "ENQUEUED" => w \in r.stale,
           r.at = "claim" => Cardinality(r.locked) <= r.quota,
           WorkerConcurrency # None =>
                /\ r.at = "count" => Cardinality(Busy(e)) <= r.local
                /\ r.at \in {"select", "claim"} => Cardinality(Busy(e)) + r.quota <= WorkerConcurrency,
           GlobalInv'
    PROVE  Inv'
<1>1. /\ runner' \in [Executors -> Runner] /\ runner'[e] = r
      /\ \A d \in Executors \ {e} : runner'[d] = runner[d]
    BY DEF Inv, TypeOK
<1>2. TypeOK'
    BY <1>1 DEF Inv, TypeOK
<1>3. OwnInv'
    BY <1>1 DEF Inv, OwnInv
<1>4. LockInv'
    BY <1>1 DEF Inv, LockInv
<1>5. SnapInv'
    BY <1>1 DEF Inv, SnapInv
<1>6. CountInv'
    BY <1>1 DEF Inv, CountInv, Busy
<1> QED BY <1>2, <1>3, <1>4, <1>5, <1>6 DEF Inv, ClaimedOnce

LEMMA InitInv == Init => Inv
<1> SUFFICES ASSUME Init PROVE Inv
    OBVIOUS
<1>1. "down" \in Places
    BY DEF Places
<1>2. TypeOK
    BY <1>1, RestingOK DEF Init, TypeOK, Row, Statuses
<1>3. /\ \A e \in Executors : runner[e] = Resting("down") /\ Busy(e) = {}
      /\ \A w \in Workflows : row[w].status = "ABSENT"
      /\ \A e \in Executors, w \in Workflows : tasks[e][w] = "none"
    BY DEF Init, Busy
<1>4. OwnInv /\ ClaimedOnce /\ LockInv /\ SnapInv
    BY <1>1, <1>3, RestingOK DEF OwnInv, ClaimedOnce, LockInv, SnapInv
<1>5. CountInv
    <2>1. \A e \in Executors : /\ Cardinality(Busy(e)) = 0 /\ runner[e].at = "down"
                              /\ worker_counts[e] = 0
        BY <1>1, <1>3, RestingOK, FS_EmptySet DEF Init
    <2> QED BY <2>1, Limits DEF CountInv
<1>6. GlobalInv
    <2>1. Pending(row) = {}
        BY <1>3 DEF Pending
    <2> QED BY <1>1, <1>3, <2>1, RestingOK, FS_EmptySet, Limits DEF GlobalInv
<1> QED BY <1>2, <1>4, <1>5, <1>6 DEF Inv

----
(* Clients *)

LEMMA EnqueueInv == ASSUME Inv, Enqueue PROVE Inv'
<1>1. PICK w \in Workflows :
        /\ row[w].status = "ABSENT"
        /\ row' = [row EXCEPT ![w].status = IF w \in Delayed THEN "DELAYED" ELSE "ENQUEUED"]
        /\ overtaken' = (overtaken \/ (w \notin Delayed /\ Overtakes({w})))
        /\ UNCHANGED <<elapsed, runner, tasks, worker_counts, disruptions>>
    BY DEF Enqueue, WithStatus
<1>2. /\ row' \in [Workflows -> Row]
      /\ row'[w].status = IF w \in Delayed THEN "DELAYED" ELSE "ENQUEUED"
      /\ \A v \in Workflows \ {w} : row'[v] = row[v]
    BY <1>1 DEF Inv, TypeOK, Row, Statuses
<1>3. \A d \in Executors : runner[d] \in Runner /\ Same(runner[d], runner[d])
    BY DEF Inv, TypeOK, Same
<1>4. overtaken' \in BOOLEAN /\ (overtaken => overtaken')
    BY <1>1 DEF Inv, TypeOK
<1>5. ASSUME w \notin Delayed, ~overtaken', NEW d \in Executors, runner[d].at \in {"select", "claim"},
             NEW x \in runner[d].snap
      PROVE  w # x /\ ~Before(w, x)
    <2>1. x \in Workflows
        BY <1>3 DEF Runner
    <2>2. ~Before(w, x)
        BY <1>1, <1>5, <2>1 DEF Overtakes
    <2>3. w # x
        BY <1>1, <1>5, <2>1 DEF Inv, SnapInv
    <2> QED BY <2>2, <2>3
<1>6. GlobalInv'
    <2>1. \A d \in Executors : runner[d].at = "claim" /\ GlobalConcurrency # None => runner[d].locked = Wanted(runner[d])
        BY DEF Inv, GlobalInv
    <2>2. \A v \in Workflows :
            /\ row'[v].status = "PENDING" => row[v].status = "PENDING"
            /\ row'[v].status = "ENQUEUED" =>
                  \/ row[v].status \in {"ENQUEUED", "PENDING"}
                  \/ overtaken'
                  \/ \A d \in Executors : runner[d].at \in {"select", "claim"} =>
                        \A x \in runner[d].snap : v # x /\ ~Before(v, x)
        BY <1>2, <1>5
    <2> QED BY <1>1, <1>4, <2>1, <2>2, GlobalShrinks DEF Inv, TypeOK
<1> QED BY <1>1, <1>2, <1>3, <1>4, <1>6, RowStep DEF Inv, TypeOK

\* A step that leaves the status of every row alone, or takes rows out of the queue.
LEMMA GlobalKept ==
    ASSUME Inv, runner' \in [Executors -> Runner], UNCHANGED overtaken,
           \A d \in Executors : Same(runner[d], runner'[d]),
           \A w \in Workflows :
                /\ row'[w].status = "PENDING" => row[w].status = "PENDING"
                /\ row'[w].status = "ENQUEUED" => row[w].status \in {"ENQUEUED", "PENDING"}
    PROVE  GlobalInv'
    BY GlobalShrinks DEF Inv, TypeOK, GlobalInv, Same

LEMMA DelayElapsesInv == ASSUME Inv, NEW w \in Workflows, DelayElapses(w) PROVE Inv'
<1>1. \A d \in Executors : Same(runner[d], runner'[d])
    BY DEF DelayElapses, Same
<1>2. GlobalInv'
    BY <1>1, GlobalKept DEF DelayElapses, Inv, TypeOK
<1> QED BY <1>1, <1>2, RowStep DEF DelayElapses, Inv, TypeOK

LEMMA WindowPassesInv == ASSUME Inv, NEW w \in Workflows, WindowPasses(w) PROVE Inv'
<1>1. \A d \in Executors : Same(runner[d], runner'[d])
    BY DEF WindowPasses, Same
<1>2. /\ row' \in [Workflows -> Row]
      /\ \A v \in Workflows : row'[v].status = row[v].status /\ row'[v].executor_id = row[v].executor_id
    BY DEF WindowPasses, Inv, TypeOK, Row
<1>3. GlobalInv'
    BY <1>1, <1>2, GlobalKept DEF WindowPasses, Inv, TypeOK
<1> QED BY <1>1, <1>2, <1>3, RowStep DEF WindowPasses, Inv, TypeOK

LEMMA CancelInv == ASSUME Inv, NEW w \in Workflows, Cancel(w) PROVE Inv'
<1>1. runner \in [Executors -> Runner] /\ runner' = Touch(runner, {w})
    BY DEF Cancel, Inv, TypeOK
<1>2. /\ runner' \in [Executors -> Runner]
      /\ \A d \in Executors : /\ Same(runner[d], runner'[d])
                              /\ runner[d].at \in {"select", "claim"} => w \in runner'[d].stale
    BY <1>1, Touched
<1>3. /\ row' \in [Workflows -> Row] /\ row'[w].status = "CANCELLED"
      /\ \A v \in Workflows \ {w} : row'[v] = row[v]
    BY DEF Cancel, Inv, TypeOK, Row, Statuses
<1>4. ~Locked(w) /\ disruptions' \in Nat
    BY DEF Cancel, Inv, TypeOK
<1>5. GlobalInv'
    BY <1>2, <1>3, GlobalKept DEF Cancel
<1>6. /\ elapsed' \subseteq Workflows /\ overtaken' \in BOOLEAN
      /\ UNCHANGED <<tasks, worker_counts>>
    BY DEF Cancel, Inv, TypeOK
<1>7. \A v \in Workflows :
        \/ row'[v].status = row[v].status /\ row'[v].executor_id = row[v].executor_id
        \/ /\ row'[v].status = "CANCELLED" /\ ~Locked(v)
           /\ \A d \in Executors : runner[d].at \in {"select", "claim"} => v \in runner'[d].stale
    BY <1>2, <1>3, <1>4
<1> QED BY <1>2, <1>3, <1>4, <1>5, <1>6, <1>7, RowStep

----
(* Runners *)

LEMMA PromoteInv == ASSUME Inv, NEW e \in Executors, Promote(e) PROVE Inv'
<1> DEFINE due == {w \in elapsed : row[w].status = "DELAYED"}
           touched == Touch(runner, due)
           mine == [touched[e] EXCEPT !.at = "count", !.local = worker_counts[e]]
<1>1. /\ runner \in [Executors -> Runner] /\ due \in SUBSET Workflows
      /\ row \in [Workflows -> Row] /\ worker_counts[e] \in Nat
    BY DEF Inv, TypeOK
<1>2. /\ touched \in [Executors -> Runner]
      /\ \A d \in Executors : Same(runner[d], touched[d])
    BY <1>1, Touched
<1>3. runner' = [touched EXCEPT ![e] = mine]
    BY DEF Promote
<1>4. /\ row' = [w \in Workflows |-> IF w \in due THEN [row[w] EXCEPT !.status = "ENQUEUED"] ELSE row[w]]
      /\ overtaken' = (overtaken \/ Overtakes(due)) /\ runner[e].at = "sleep"
      /\ UNCHANGED <<elapsed, tasks, worker_counts, disruptions>>
    BY DEF Promote
<1> HIDE DEF touched
<1>5. /\ mine \in Runner /\ mine.at = "count" /\ mine.local = worker_counts[e]
      /\ mine.locked = touched[e].locked /\ mine.todo = touched[e].todo
    BY <1>1, <1>2 DEF Runner, Places
<1> HIDE DEF mine
<1>6. /\ runner' \in [Executors -> Runner] /\ runner'[e] = mine
      /\ \A d \in Executors \ {e} : Same(runner[d], runner'[d])
    BY <1>2, <1>3, <1>5
<1>7. mine.locked = {} /\ mine.todo = {}
    <2>1. \A w \in Workflows : w \notin runner[e].locked /\ w \notin runner[e].todo
        BY <1>4 DEF Inv, LockInv, OwnInv
    <2>2. runner[e].locked \subseteq Workflows /\ runner[e].todo \subseteq Workflows
        BY <1>1 DEF Runner
    <2> QED BY <1>2, <1>5, <2>1, <2>2 DEF Same
<1>8. /\ row' \in [Workflows -> Row]
      /\ \A w \in due : row[w].status = "DELAYED" /\ row'[w].status = "ENQUEUED"
      /\ \A w \in Workflows \ due : row'[w] = row[w]
    BY <1>1, <1>4 DEF Row, Statuses
<1>9. overtaken' \in BOOLEAN /\ (overtaken => overtaken')
    BY <1>4 DEF Inv, TypeOK
<1>10. ASSUME ~overtaken', NEW d \in Executors, runner[d].at \in {"select", "claim"},
             NEW x \in runner[d].snap, NEW w \in due
      PROVE  w # x /\ ~Before(w, x)
    <2>1. x \in Workflows
        BY <1>1 DEF Runner
    <2>2. ~Before(w, x)
        BY <1>4, <1>10, <2>1 DEF Overtakes
    <2>3. w # x
        BY <1>10, <2>1 DEF Inv, SnapInv
    <2> QED BY <2>2, <2>3
<1> HIDE DEF due
<1>11. TypeOK'
    BY <1>4, <1>6, <1>8, <1>9 DEF Inv, TypeOK
<1>12. OwnInv' /\ ClaimedOnce'
    <2>1. ASSUME NEW d \in Executors, NEW w \in Workflows
          PROVE  /\ tasks'[d][w] = tasks[d][w]
                 /\ runner'[d].at \in {"down", "launch"} => runner'[d].at = runner[d].at
                 /\ w \in runner'[d].todo => w \in runner[d].todo /\ runner'[d].at = runner[d].at
        BY <1>4, <1>5, <1>6, <1>7 DEF Same
    <2>2. ASSUME NEW w \in Workflows
          PROVE  row[w].status # "DELAYED" => row'[w] = row[w]
        BY <1>8
    <2> QED BY <2>1, <2>2 DEF Inv, OwnInv, ClaimedOnce
<1>13. LockInv'
    BY <1>6, <1>7, <1>8 DEF Inv, LockInv, Same
<1>14. SnapInv'
    BY <1>5, <1>6, <1>8 DEF Inv, SnapInv, Same
<1>15. CountInv'
    <2>1. \A d \in Executors : Busy(d)' = Busy(d)
        BY <1>4 DEF Busy
    <2>2. worker_counts[e] = Cardinality(Busy(e))
        BY DEF Inv, CountInv
    <2> QED BY <1>1, <1>4, <1>5, <1>6, <2>1, <2>2 DEF Inv, CountInv, Same
<1>16. GlobalInv'
    <2>1. \A d \in Executors : runner'[d].at \in {"select", "claim"} =>
            /\ runner[d].at = runner'[d].at /\ runner'[d].quota = runner[d].quota
            /\ runner'[d].snap = runner[d].snap /\ runner'[d].locked = runner[d].locked
        BY <1>5, <1>6 DEF Same
    <2>2. \A d \in Executors : runner'[d].at = "claim" /\ GlobalConcurrency # None =>
            runner'[d].locked = Wanted(runner[d])
        BY <2>1 DEF Inv, GlobalInv
    <2>3. \A v \in Workflows :
            /\ row'[v].status = "PENDING" => row[v].status = "PENDING"
            /\ row'[v].status = "ENQUEUED" =>
                  \/ row[v].status \in {"ENQUEUED", "PENDING"}
                  \/ overtaken'
                  \/ \A d \in Executors : runner[d].at \in {"select", "claim"} =>
                        \A x \in runner[d].snap : v # x /\ ~Before(v, x)
        BY <1>8, <1>10
    <2> QED BY <1>6, <1>9, <2>1, <2>2, <2>3, GlobalShrinks DEF Inv
<1> QED BY <1>11, <1>12, <1>13, <1>14, <1>15, <1>16 DEF Inv

\* max_tasks leaves room under both limits.
LEMMA MaxTasksBounds ==
    ASSUME NEW local \in Nat, NEW pending \in Nat
    PROVE  /\ MaxTasks(local, pending) \in Nat
           /\ WorkerConcurrency # None /\ MaxTasks(local, pending) > 0 =>
                local + MaxTasks(local, pending) <= WorkerConcurrency
           /\ GlobalConcurrency # None /\ MaxTasks(local, pending) > 0 =>
                pending + MaxTasks(local, pending) <= GlobalConcurrency
    BY Limits, QueueAssumption DEF MaxTasks, MinOf, Positive

LEMMA CountStepInv == ASSUME Inv, NEW e \in Executors, Count(e) PROVE Inv'
<1> DEFINE num_recent == IF RateLimit = None THEN 0 ELSE Cardinality(Recent)
           pending == Cardinality(WithStatus({"PENDING"}))
           quota == MaxTasks(runner[e].local, pending)
           snap == WithStatus({"ENQUEUED"})
           new == [runner[e] EXCEPT !.at = "select", !.quota = quota, !.num_recent = num_recent,
                                    !.snap = snap]
           r == IF RateOpen(num_recent) /\ quota > 0 THEN new ELSE Resting("sleep")
<1>1. /\ runner[e].at = "count" /\ runner' = [runner EXCEPT ![e] = r]
      /\ UNCHANGED <<row, elapsed, tasks, worker_counts, overtaken, disruptions>>
    BY DEF Count
<1>2. /\ runner[e] \in Runner /\ runner[e].local \in Nat /\ pending \in Nat
      /\ num_recent \in Nat /\ snap \in SUBSET Workflows
    BY WorkflowsFinite DEF Inv, TypeOK, Runner, WithStatus, Recent
<1>3. quota \in Nat
    BY <1>2, MaxTasksBounds
<1>4. /\ \A w \in snap : row[w].status = "ENQUEUED"
      /\ runner[e].locked = {} /\ runner[e].todo = {}
    <2>1. \A w \in Workflows : w \notin runner[e].locked /\ w \notin runner[e].todo
        BY <1>1 DEF Inv, LockInv, OwnInv
    <2> QED BY <1>2, <2>1 DEF WithStatus, Runner
<1>5. WithStatus({"PENDING"}) = Pending(row)
    BY DEF WithStatus, Pending
<1> HIDE DEF num_recent, pending, quota, snap
<1>6. /\ new \in Runner /\ new.at = "select" /\ new.quota = quota /\ new.snap = snap
      /\ new.locked = {} /\ new.todo = {}
    BY <1>2, <1>3, <1>4 DEF Runner, Places
<1>7. /\ Resting("sleep") \in Runner /\ Resting("sleep").at = "sleep"
      /\ Resting("sleep").locked = {} /\ Resting("sleep").todo = {}
    BY RestingOK DEF Places
<1>8. \/ r = Resting("sleep")
      \/ r = new /\ quota > 0
    OBVIOUS
<1> HIDE DEF new, r
<1>9. r \in Runner /\ r.at \in {"sleep", "select"} /\ r.locked = {} /\ r.todo = {}
      /\ (r.at = "select" => r = new /\ quota > 0)
    BY <1>6, <1>7, <1>8
<1>10. ASSUME WorkerConcurrency # None, r.at = "select"
      PROVE  Cardinality(Busy(e)) + r.quota <= WorkerConcurrency
    <2>1. Cardinality(Busy(e)) <= runner[e].local /\ Cardinality(Busy(e)) \in Nat
        BY <1>1, <1>10, WorkflowsFinite DEF Inv, CountInv, Busy
    <2>2. runner[e].local + quota <= WorkerConcurrency
        BY <1>2, <1>9, <1>10, MaxTasksBounds DEF quota
    <2> QED BY <1>2, <1>3, <1>6, <1>9, <1>10, <2>1, <2>2, Limits
<1>11. GlobalInv'
    <2>1. \A d \in Executors : runner'[d] = IF d = e THEN r ELSE runner[d]
        BY <1>1 DEF Inv, TypeOK
    <2>2. ASSUME GlobalConcurrency # None, r.at = "select"
          PROVE  Cardinality(Reach(row, Wanted(r))) <= GlobalConcurrency
        <3> DEFINE W == First(quota, snap)
        <3>1. Wanted(r) = W
            BY <1>6, <1>9, <2>2 DEF Wanted
        <3>2. W \subseteq snap /\ Cardinality(W) <= quota
              /\ \A v \in snap, w \in W : Before(v, w) => v \in W
            BY <1>2, <1>3, FirstBounds
        <3> HIDE DEF W
        <3>3. Reach(row, W) = Pending(row) \cup W
            <4>1. snap = {w \in Workflows : row[w].status = "ENQUEUED"}
                BY DEF snap, WithStatus
            <4> QED BY <3>2, <4>1 DEF Reach
        <3>4. Cardinality(Pending(row) \cup W) =
                Cardinality(Pending(row)) + Cardinality(W) - Cardinality(Pending(row) \cap W)
            BY <1>2, <3>2, WorkflowsFinite, FS_Union DEF Pending
        <3>5. Cardinality(Pending(row)) \in Nat /\ Cardinality(W) \in Nat
              /\ Cardinality(Pending(row) \cap W) \in Nat
            BY <1>2, <3>2, WorkflowsFinite DEF Pending
        <3>6. Cardinality(Pending(row)) + quota <= GlobalConcurrency
            BY <1>2, <1>5, <1>9, <2>2, MaxTasksBounds DEF quota, pending
        <3> QED BY <1>3, <2>2, <3>1, <3>2, <3>3, <3>4, <3>5, <3>6, Limits
    <2> QED BY <1>1, <1>9, <2>1, <2>2 DEF Inv, GlobalInv
<1>12. r.at = "select" => r.snap = snap
    BY <1>6, <1>9
<1> QED BY <1>1, <1>4, <1>9, <1>10, <1>11, <1>12, RunnerMoves

LEMMA SelectInv == ASSUME Inv, NEW e \in Executors, Select(e) PROVE Inv'
<1> DEFINE mine == runner[e]
           seen == IF Snapshot THEN mine.snap ELSE WithStatus({"ENQUEUED"})
           changed == IF Snapshot THEN mine.stale ELSE {}
           free == {w \in seen : ~Locked(w)}
           wanted == First(mine.quota, IF SkipsLocked THEN free ELSE seen)
           granted == wanted # {} /\ wanted \subseteq free \ changed
           new == [mine EXCEPT !.at = "claim", !.locked = wanted]
           r == IF granted THEN new ELSE Resting("sleep")
<1>1. /\ mine.at = "select" /\ runner' = [runner EXCEPT ![e] = r]
      /\ UNCHANGED <<row, elapsed, tasks, worker_counts, overtaken, disruptions>>
    BY DEF Select
<1>2. /\ mine \in Runner /\ mine.quota \in Nat /\ mine.snap \in SUBSET Workflows
      /\ seen \in SUBSET Workflows /\ free \in SUBSET Workflows
    BY DEF Inv, TypeOK, Runner, WithStatus
<1>3. wanted \in SUBSET Workflows /\ Cardinality(wanted) <= mine.quota
    <2>1. PICK S \in SUBSET Workflows : wanted = First(mine.quota, S)
        BY <1>2
    <2>2. PICK k \in Nat : k = mine.quota
        BY <1>2
    <2>3. k \in Int
        BY <2>2
    <2>4. First(k, S) \subseteq S /\ Cardinality(First(k, S)) <= k
        BY <2>3, FirstBounds
    <2> HIDE DEF wanted, mine
    <2> QED BY <2>1, <2>2, <2>4
<1>4. GlobalConcurrency # None => wanted = Wanted(mine)
    BY DEF SkipsLocked, Snapshot, Wanted
<1>5. ASSUME granted, NEW w \in wanted
      PROVE  row[w].status = "ENQUEUED" /\ \A d \in Executors : w \notin runner[d].locked
    <2>1. w \in free /\ w \notin changed
        BY <1>5
    <2>2. ~Locked(w) /\ w \in seen
        BY <2>1
    <2>3. CASE Snapshot
        BY <1>1, <1>2, <2>1, <2>2, <2>3 DEF Inv, SnapInv, Locked
    <2>4. CASE ~Snapshot
        BY <2>2, <2>4 DEF WithStatus, Locked
    <2> QED BY <2>3, <2>4
<1> HIDE DEF seen, changed, free, wanted, granted
<1>6. /\ new \in Runner /\ new.at = "claim" /\ new.locked = wanted /\ new.todo = mine.todo
      /\ new.quota = mine.quota /\ new.snap = mine.snap /\ new.stale = mine.stale
    BY <1>2, <1>3 DEF Runner, Places
<1>7. /\ Resting("sleep") \in Runner /\ Resting("sleep").at = "sleep"
      /\ Resting("sleep").locked = {} /\ Resting("sleep").todo = {}
    BY RestingOK DEF Places
<1>8. (r = new /\ granted) \/ r = Resting("sleep")
    OBVIOUS
<1>9. mine.todo = {}
    BY <1>1, <1>2 DEF Inv, OwnInv, Runner
<1> HIDE DEF mine, new, r
<1>10. /\ r \in Runner /\ r.at \in {"sleep", "claim"} /\ r.todo = {}
       /\ r.at = "sleep" => r.locked = {}
       /\ r.at = "claim" => /\ granted /\ r.locked = wanted /\ r.quota = mine.quota
                            /\ r.snap = mine.snap /\ r.stale = mine.stale
    BY <1>6, <1>7, <1>8, <1>9
<1>11. GlobalInv'
    <2>1. \A d \in Executors : runner'[d] = IF d = e THEN r ELSE runner[d]
        BY <1>1 DEF Inv, TypeOK
    <2>2. runner' \in [Executors -> Runner]
        BY <1>1, <1>10 DEF Inv, TypeOK
    <2>3. \A d \in Executors : runner'[d].at = "claim" /\ GlobalConcurrency # None =>
            runner'[d].locked = Wanted(runner[d])
        BY <1>4, <1>10, <2>1 DEF Inv, GlobalInv, mine
    <2>4. \A d \in Executors : runner'[d].at \in {"select", "claim"} =>
            /\ runner[d].at \in {"select", "claim"}
            /\ runner'[d].quota = runner[d].quota /\ runner'[d].snap = runner[d].snap
        BY <1>1, <1>10, <2>1 DEF mine
    <2> QED BY <1>1, <2>2, <2>3, <2>4, GlobalShrinks DEF Inv, TypeOK
<1>12. r.at = "claim" => \A w \in r.snap :
            /\ row[w].status \notin {"ABSENT", "DELAYED"}
            /\ row[w].status # "ENQUEUED" => w \in r.stale
    BY <1>1, <1>2, <1>10 DEF Inv, SnapInv, mine
<1>13. WorkerConcurrency # None /\ r.at = "claim" => Cardinality(Busy(e)) + r.quota <= WorkerConcurrency
    BY <1>1, <1>10 DEF Inv, CountInv, mine
<1>14. \A w \in r.locked : /\ r.at = "claim" /\ row[w].status = "ENQUEUED"
                          /\ \A d \in Executors \ {e} : w \notin runner[d].locked
    BY <1>5, <1>10
<1>15. r.at = "claim" => Cardinality(r.locked) <= r.quota
    BY <1>3, <1>10
<1> QED BY <1>1, <1>10, <1>11, <1>12, <1>13, <1>14, <1>15, RunnerMoves

\* A claim takes a first part of the rows it holds.
LEMMA ClaimableLocked ==
    ASSUME NEW r \in Runner
    PROVE  Claimable(r) \in SUBSET r.locked
<1>1. r.locked \in SUBSET Workflows /\ (RateLimit # None => RateLimit - r.num_recent \in Int)
    BY Limits DEF Runner
<1> QED BY <1>1, FirstBounds DEF Claimable

\* What one transaction claims stays within what it or the other one could reach.
LEMMA ClaimWithinReach ==
    ASSUME NEW rows, NEW rows2, NEW C \in SUBSET Workflows, NEW W \in SUBSET Workflows,
           NEW V \in SUBSET Workflows, C \subseteq W, Claims(rows, rows2, C)
    PROVE  /\ Pending(rows2) \subseteq Reach(rows, W)
           /\ \/ Reach(rows2, V) \subseteq Reach(rows, V)
              \/ Reach(rows2, V) \subseteq Reach(rows, W)
<1> USE DEF Claims
<1>1. Pending(rows2) = Pending(rows) \cup C
    BY DEF Pending
<1>2. C \subseteq Reach(rows, W) /\ Pending(rows) \subseteq Reach(rows, W) /\ Pending(rows) \subseteq Reach(rows, V)
    BY DEF Reach
<1>3. CASE C \subseteq Reach(rows, V)
    BY <1>1, <1>2, <1>3 DEF Reach, Pending
<1>4. ASSUME NEW y \in C, y \notin Reach(rows, V)
      PROVE  Reach(rows2, V) \subseteq Reach(rows, W)
    <2>1. \A x \in V : Before(x, y)
        BY <1>4, BeforeIsOrder DEF Reach
    <2>2. \A z \in Workflows, x \in V : z = x \/ Before(z, x) => Before(z, y)
        BY <1>4, <2>1, BeforeIsOrder
    <2> QED BY <1>1, <1>2, <2>2 DEF Reach
<1> QED BY <1>1, <1>2, <1>3, <1>4

LEMMA ClaimInv == ASSUME Inv, NEW e \in Executors, Claim(e) PROVE Inv'
<1> DEFINE claimed == Claimable(runner[e])
           started == claimed \cap Registered[e]
           touched == Touch(runner, claimed)
<1>1. /\ runner[e].at = "claim"
      /\ row' = [w \in Workflows |->
            IF w \in claimed
            THEN [status |-> "PENDING", executor_id |-> e, recent |-> RateLimit # None]
            ELSE row[w]]
      /\ runner' = [touched EXCEPT ![e] = Resting("sleep")]
      /\ tasks' = [tasks EXCEPT ![e] = [w \in Workflows |-> IF w \in started THEN "running" ELSE tasks[e][w]]]
      /\ worker_counts' = [worker_counts EXCEPT ![e] = worker_counts[e] + Cardinality(started)]
      /\ UNCHANGED <<elapsed, overtaken, disruptions>>
    BY DEF Claim, inc_worker
<1>2. /\ runner \in [Executors -> Runner] /\ runner[e] \in Runner /\ row \in [Workflows -> Row]
      /\ worker_counts \in [Executors -> Nat]
      /\ tasks \in [Executors -> [Workflows -> {"none", "running", "written"}]]
    BY DEF Inv, TypeOK
<1>3. /\ claimed \subseteq runner[e].locked /\ runner[e].locked \in SUBSET Workflows
      /\ claimed \in SUBSET Workflows /\ started \in SUBSET Workflows /\ started \subseteq claimed
    BY <1>2, ClaimableLocked DEF Runner
<1>4. \A w \in claimed : /\ row[w].status = "ENQUEUED"
                        /\ \A d \in Executors : w \in runner[d].locked => d = e
    BY <1>3 DEF Inv, LockInv
<1>5. \A w \in claimed, d \in Executors : tasks[d][w] = "none" /\ w \notin runner[d].todo
    BY <1>2, <1>3, <1>4 DEF Inv, OwnInv
<1>6. /\ touched \in [Executors -> Runner]
      /\ \A d \in Executors : /\ Same(runner[d], touched[d])
                              /\ runner[d].at \in {"select", "claim"} => claimed \subseteq touched[d].stale
    BY <1>2, <1>3, Touched
<1>7. /\ Resting("sleep") \in Runner /\ Resting("sleep").at = "sleep"
      /\ Resting("sleep").locked = {} /\ Resting("sleep").todo = {}
    BY RestingOK DEF Places
<1> HIDE DEF claimed, started, touched
<1>8. /\ runner' \in [Executors -> Runner] /\ runner'[e] = Resting("sleep")
      /\ \A d \in Executors \ {e} :
            /\ Same(runner[d], runner'[d])
            /\ runner[d].at \in {"select", "claim"} => claimed \subseteq runner'[d].stale
    BY <1>1, <1>6, <1>7
<1>9. /\ row' \in [Workflows -> Row]
      /\ \A w \in claimed : row'[w].status = "PENDING" /\ row'[w].executor_id = e
      /\ \A w \in Workflows \ claimed : row'[w] = row[w]
    <2>1. [status |-> "PENDING", executor_id |-> e, recent |-> RateLimit # None] \in Row
        BY DEF Row, Statuses
    <2> QED BY <1>1, <1>2, <1>3, <2>1
<1>10. /\ tasks' \in [Executors -> [Workflows -> {"none", "running", "written"}]]
       /\ \A d \in Executors, w \in Workflows :
            tasks'[d][w] = IF d = e /\ w \in started THEN "running" ELSE tasks[d][w]
    BY <1>1, <1>2
<1>11. Cardinality(started) \in Nat /\ Cardinality(started) <= Cardinality(runner[e].locked)
       /\ Cardinality(runner[e].locked) \in Nat
    BY <1>3, WorkflowsFinite
<1>12. TypeOK'
    <2>1. worker_counts' \in [Executors -> Nat]
        BY <1>1, <1>2, <1>11
    <2> QED BY <1>1, <1>8, <1>9, <1>10, <2>1 DEF Inv, TypeOK
<1>13. OwnInv'
    <2> SUFFICES ASSUME NEW d \in Executors, NEW w \in Workflows
                 PROVE  OwnInv!(d, w)'
        BY DEF OwnInv
    <2>1. OwnInv!(d, w)
        BY DEF Inv, OwnInv
    <2>2. CASE w \in claimed
        BY <1>3, <1>5, <1>7, <1>8, <1>9, <1>10, <2>2 DEF Same
    <2>3. CASE w \notin claimed
        BY <1>3, <1>7, <1>8, <1>9, <1>10, <2>1, <2>3 DEF Same
    <2> QED BY <2>2, <2>3
<1>14. ClaimedOnce'
    BY <1>3, <1>5, <1>10 DEF Inv, ClaimedOnce
<1>15. LockInv'
    BY <1>4, <1>7, <1>8, <1>9 DEF Inv, LockInv, Same
<1>16. SnapInv'
    <2> SUFFICES ASSUME NEW d \in Executors, NEW w \in Workflows,
                        runner'[d].at \in {"select", "claim"}, w \in runner'[d].snap
                 PROVE  /\ row'[w].status \notin {"ABSENT", "DELAYED"}
                        /\ row'[w].status # "ENQUEUED" => w \in runner'[d].stale
        BY DEF SnapInv
    <2>1. d # e /\ runner[d].at \in {"select", "claim"} /\ w \in runner[d].snap
          /\ runner[d].stale \subseteq runner'[d].stale /\ claimed \subseteq runner'[d].stale
        BY <1>7, <1>8 DEF Same
    <2> QED BY <1>9, <2>1 DEF Inv, SnapInv
<1>17. CountInv'
    <2>1. Busy(e)' = Busy(e) \cup started /\ Busy(e) \cap started = {}
        BY <1>3, <1>5, <1>10 DEF Busy
    <2>2. \A d \in Executors \ {e} : Busy(d)' = Busy(d)
        BY <1>10 DEF Busy
    <2>3. IsFiniteSet(Busy(e)) /\ IsFiniteSet(started) /\ Cardinality(Busy(e)) \in Nat
        BY <1>3, WorkflowsFinite DEF Busy
    <2>4. Cardinality(Busy(e) \cup started) = Cardinality(Busy(e)) + Cardinality(started)
        <3>1. Cardinality(Busy(e) \cup started) =
                Cardinality(Busy(e)) + Cardinality(started) - Cardinality(Busy(e) \cap started)
            BY <2>3, FS_Union
        <3>2. Cardinality(Busy(e) \cap started) = 0
            BY <2>1, FS_EmptySet
        <3> QED BY <1>11, <2>3, <3>1, <3>2
    <2>5. worker_counts'[e] = worker_counts[e] + Cardinality(started)
          /\ \A d \in Executors \ {e} : worker_counts'[d] = worker_counts[d]
        BY <1>1, <1>2
    <2>6. WorkerConcurrency # None => Cardinality(Busy(e)) + Cardinality(started) <= WorkerConcurrency
        <3>1. Cardinality(runner[e].locked) <= runner[e].quota /\ runner[e].quota \in Nat
            BY <1>1, <1>2 DEF Inv, CountInv, Runner
        <3>2. WorkerConcurrency # None => Cardinality(Busy(e)) + runner[e].quota <= WorkerConcurrency
            BY <1>1 DEF Inv, CountInv
        <3> QED BY <1>11, <2>3, <3>1, <3>2, Limits
    <2>7. CountInv!(e)'
        BY <1>7, <1>8, <2>1, <2>4, <2>5, <2>6 DEF Inv, CountInv
    <2>8. ASSUME NEW d \in Executors \ {e} PROVE CountInv!(d)'
        BY <1>8, <2>2, <2>5 DEF Inv, CountInv, Same
    <2> QED BY <2>7, <2>8 DEF CountInv
<1>18. GlobalInv'
    <2> SUFFICES ASSUME GlobalConcurrency # None PROVE GlobalInv'
        BY DEF GlobalInv
    <2>1. \A d \in Executors \ {e} : Wanted(runner'[d]) = Wanted(runner[d])
        BY <1>8 DEF Same, Wanted
    <2>2. runner[e].locked = Wanted(runner[e])
        BY <1>1 DEF Inv, GlobalInv
    <2>3. ASSUME ~overtaken', NEW S \in SUBSET Workflows, Cardinality(Reach(row, S)) <= GlobalConcurrency
          PROVE  /\ Cardinality(Pending(row')) <= GlobalConcurrency
                 /\ Cardinality(Reach(row', S)) <= GlobalConcurrency
        <3>1. PICK W \in SUBSET Workflows : W = runner[e].locked
            BY <1>3
        <3>2. Cardinality(Reach(row, W)) <= GlobalConcurrency
            BY <1>1, <2>2, <2>3, <3>1 DEF Inv, GlobalInv
        <3>3. /\ Pending(row') \subseteq Reach(row, W)
              /\ \/ Reach(row', S) \subseteq Reach(row, S)
                 \/ Reach(row', S) \subseteq Reach(row, W)
            <4>1. PICK C \in SUBSET Workflows : C = claimed
                BY <1>3
            <4>2. /\ C \subseteq W
                  /\ \A w \in C : row[w].status = "ENQUEUED" /\ row'[w].status = "PENDING"
                  /\ \A w \in Workflows \ C : row'[w] = row[w]
                BY <1>3, <1>4, <1>9, <3>1, <4>1
            <4>3. C \subseteq W /\ Claims(row, row', C)
                BY <4>2 DEF Claims
            <4> QED BY <4>3, ClaimWithinReach
        <3>4. /\ Reach(row, W) \in SUBSET Workflows /\ Reach(row, S) \in SUBSET Workflows
              /\ Reach(row', S) \in SUBSET Workflows /\ Pending(row') \in SUBSET Workflows
            BY DEF Reach, Pending
        <3>5. /\ Cardinality(Pending(row')) <= Cardinality(Reach(row, W))
              /\ \/ Cardinality(Reach(row', S)) <= Cardinality(Reach(row, S))
                 \/ Cardinality(Reach(row', S)) <= Cardinality(Reach(row, W))
            BY <3>3, <3>4, WorkflowsFinite
        <3>6. /\ Cardinality(Reach(row, W)) \in Nat /\ Cardinality(Reach(row, S)) \in Nat
              /\ Cardinality(Reach(row', S)) \in Nat /\ Cardinality(Pending(row')) \in Nat
            BY <3>4, WorkflowsFinite
        <3> QED BY <2>3, <3>2, <3>5, <3>6, Limits
    <2>4. ASSUME NEW d \in Executors, runner'[d].at \in {"select", "claim"}
          PROVE  d # e /\ runner'[d].at = runner[d].at /\ runner'[d].locked = runner[d].locked
        BY <1>7, <1>8, <2>4 DEF Same
    <2>5. \A d \in Executors : Wanted(runner[d]) \in SUBSET Workflows
        <3> SUFFICES ASSUME NEW d \in Executors PROVE Wanted(runner[d]) \in SUBSET Workflows
            OBVIOUS
        <3>1. PICK S \in SUBSET Workflows, k \in Nat : S = runner[d].snap /\ k = runner[d].quota
            BY <1>2 DEF Runner
        <3> QED BY <3>1, FirstBounds DEF Wanted
    <2>6. \A d \in Executors : runner'[d].at = "claim" => runner'[d].locked = Wanted(runner'[d])
        BY <2>1, <2>4 DEF Inv, GlobalInv
    <2>7. ASSUME ~overtaken' PROVE Cardinality(Pending(row')) <= GlobalConcurrency
        <3>1. PICK S \in SUBSET Workflows : S = Wanted(runner[e])
            BY <2>5
        <3>2. Cardinality(Reach(row, S)) <= GlobalConcurrency
            BY <1>1, <2>7, <3>1 DEF Inv, GlobalInv
        <3> QED BY <2>3, <2>7, <3>2
    <2>8. ASSUME ~overtaken', NEW d \in Executors, runner'[d].at \in {"select", "claim"}
          PROVE  Cardinality(Reach(row', Wanted(runner'[d]))) <= GlobalConcurrency
        <3>1. PICK S \in SUBSET Workflows : S = Wanted(runner[d])
            BY <2>5
        <3>2. d # e /\ runner[d].at \in {"select", "claim"}
            BY <2>4, <2>8
        <3>3. Cardinality(Reach(row, S)) <= GlobalConcurrency
            BY <1>1, <2>8, <3>1, <3>2 DEF Inv, GlobalInv
        <3> QED BY <2>1, <2>3, <2>8, <3>1, <3>2, <3>3
    <2> QED BY <2>6, <2>7, <2>8 DEF GlobalInv
<1> QED BY <1>12, <1>13, <1>14, <1>15, <1>16, <1>17, <1>18 DEF Inv

\* A step of others that only ends tasks, or takes a row from nobody's lock, keeps counts exact.
LEMMA FewerTasks ==
    ASSUME NEW S \in SUBSET Workflows, NEW w \in S
    PROVE  Cardinality(S \ {w}) = Cardinality(S) - 1 /\ Cardinality(S) >= 1
    BY WorkflowsFinite, FS_RemoveElement

----
(* Tasks *)

LEMMA WriteOutcomeInv ==
    ASSUME Inv, NEW e \in Executors, NEW w \in Workflows, WriteOutcome(e, w) PROVE Inv'
<1>1. runner \in [Executors -> Runner] /\ runner' = Touch(runner, {w})
    BY DEF WriteOutcome, Inv, TypeOK
<1>2. /\ runner' \in [Executors -> Runner]
      /\ \A d \in Executors : /\ Same(runner[d], runner'[d])
                              /\ runner[d].at \in {"select", "claim"} => w \in runner'[d].stale
    BY <1>1, Touched
<1>3. /\ tasks[e][w] = "running" /\ row[w].status \in {"PENDING", "CANCELLED"}
      /\ row[w].status = "PENDING" => row[w].executor_id = e
      /\ UNCHANGED <<elapsed, worker_counts, overtaken, disruptions>>
    BY DEF WriteOutcome, Inv, OwnInv
<1>4. /\ row' \in [Workflows -> Row] /\ row'[w].status \in {"FINISHED", "CANCELLED"}
      /\ \A v \in Workflows \ {w} : row'[v] = row[v]
    BY DEF WriteOutcome, Inv, TypeOK, Row, Statuses
<1>5. /\ tasks' \in [Executors -> [Workflows -> {"none", "running", "written"}]]
      /\ \A d \in Executors, v \in Workflows :
            tasks'[d][v] = IF d = e /\ v = w THEN "written" ELSE tasks[d][v]
    BY DEF WriteOutcome, Inv, TypeOK
<1>6. TypeOK'
    BY <1>2, <1>3, <1>4, <1>5 DEF Inv, TypeOK
<1>7. row[w].status = "CANCELLED" => row'[w].status = "CANCELLED"
    BY DEF WriteOutcome, Inv, TypeOK, Row
<1>8. OwnInv'
    <2> SUFFICES ASSUME NEW d \in Executors, NEW v \in Workflows PROVE OwnInv!(d, v)'
        BY DEF OwnInv
    <2>1. OwnInv!(d, v) /\ OwnInv!(e, w)
        BY DEF Inv, OwnInv
    <2>2. CASE v # w
        BY <1>2, <1>4, <1>5, <2>1, <2>2 DEF Same
    <2>3. CASE v = w
        <3>1. CASE d = e
            BY <1>2, <1>3, <1>4, <1>5, <1>7, <2>1, <2>3, <3>1 DEF Same
        <3>2. CASE d # e
            <4>1. row[w].status = "PENDING" => w \notin runner[d].todo
                BY <1>3, <2>1, <2>3, <3>2
            <4>2. tasks[d][w] # "running"
                BY <1>3, <3>2 DEF Inv, ClaimedOnce
            <4> QED BY <1>2, <1>3, <1>4, <1>5, <1>7, <2>1, <2>3, <3>2, <4>1, <4>2 DEF Same
        <3> QED BY <3>1, <3>2
    <2> QED BY <2>2, <2>3
<1>9. ClaimedOnce'
    BY <1>5 DEF Inv, ClaimedOnce
<1>10. LockInv'
    BY <1>2, <1>3, <1>4 DEF Inv, LockInv, Same
<1>11. SnapInv'
    BY <1>2, <1>4 DEF Inv, SnapInv, Same
<1>12. CountInv'
    <2>1. \A d \in Executors : Busy(d)' = Busy(d)
        BY <1>3, <1>5 DEF Busy
    <2> QED BY <1>2, <1>3, <2>1 DEF Inv, CountInv, Same
<1>13. GlobalInv'
    BY <1>2, <1>3, <1>4, GlobalKept
<1> QED BY <1>6, <1>8, <1>9, <1>10, <1>11, <1>12, <1>13 DEF Inv

LEMMA DecWorkerInv ==
    ASSUME Inv, NEW e \in Executors, NEW w \in Workflows, DecWorker(e, w) PROVE Inv'
<1>1. tasks[e][w] = "written" /\ UNCHANGED <<row, elapsed, runner, overtaken, disruptions>>
    BY DEF DecWorker
<1>2. /\ tasks' \in [Executors -> [Workflows -> {"none", "running", "written"}]]
      /\ \A d \in Executors, v \in Workflows :
            tasks'[d][v] = IF d = e /\ v = w THEN "none" ELSE tasks[d][v]
    BY DEF DecWorker, Inv, TypeOK
<1>3. /\ Busy(e) \in SUBSET Workflows /\ w \in Busy(e) /\ Busy(e)' = Busy(e) \ {w}
      /\ \A d \in Executors \ {e} : Busy(d)' = Busy(d)
    BY <1>1, <1>2 DEF Busy
<1>4. /\ Cardinality(Busy(e) \ {w}) = Cardinality(Busy(e)) - 1 /\ Cardinality(Busy(e)) >= 1
      /\ Cardinality(Busy(e)) \in Nat
    <2>1. PICK S \in SUBSET Workflows : S = Busy(e)
        BY <1>3
    <2> QED BY <1>3, <2>1, FewerTasks, WorkflowsFinite
<1>5. worker_counts[e] = Cardinality(Busy(e))
    BY DEF Inv, CountInv
<1>6. /\ worker_counts' \in [Executors -> Nat] /\ worker_counts'[e] = Cardinality(Busy(e)) - 1
      /\ \A d \in Executors \ {e} : worker_counts'[d] = worker_counts[d]
    BY <1>4, <1>5 DEF DecWorker, Inv, TypeOK
<1>7. TypeOK'
    BY <1>1, <1>2, <1>6 DEF Inv, TypeOK
<1>8. OwnInv' /\ ClaimedOnce'
    BY <1>1, <1>2 DEF Inv, OwnInv, ClaimedOnce
<1>9. LockInv' /\ SnapInv'
    BY <1>1 DEF Inv, LockInv, SnapInv
<1>10. CountInv'
    <2>1. CountInv!(e)'
        <3>1. runner \in [Executors -> Runner] /\ runner[e].local \in Nat /\ runner[e].quota \in Nat
            BY DEF Inv, TypeOK, Runner
        <3>2. CountInv!(e)
            BY DEF Inv, CountInv
        <3> QED BY <1>1, <1>3, <1>4, <1>6, <3>1, <3>2, Limits
    <2>2. ASSUME NEW d \in Executors \ {e} PROVE CountInv!(d)'
        BY <1>1, <1>3, <1>6 DEF Inv, CountInv
    <2> QED BY <2>1, <2>2 DEF CountInv
<1>11. GlobalInv'
    <2>1. \A d \in Executors : Same(runner[d], runner'[d])
        BY <1>1 DEF Same
    <2> QED BY <1>1, <2>1, GlobalKept DEF Inv, TypeOK
<1> QED BY <1>7, <1>8, <1>9, <1>10, <1>11 DEF Inv

----
(* Crash and restart *)

\* A runner that leaves its transaction, or opens none, adds nothing to the global limit.
LEMMA GlobalRested ==
    ASSUME Inv, NEW e \in Executors, NEW r \in Runner, r.at \notin {"select", "claim"},
           runner' = [runner EXCEPT ![e] = r], UNCHANGED <<row, overtaken>>
    PROVE  GlobalInv'
<1>1. \A d \in Executors : runner'[d] = IF d = e THEN r ELSE runner[d]
    BY DEF Inv, TypeOK
<1> QED BY <1>1 DEF Inv, GlobalInv

LEMMA CrashInv == ASSUME Inv, NEW e \in Executors, Crash(e) PROVE Inv'
<1> DEFINE r == Resting("down")
<1>1. /\ r \in Runner /\ r.at = "down" /\ r.locked = {} /\ r.todo = {}
    BY RestingOK DEF Places
<1>2. runner' = [runner EXCEPT ![e] = r] /\ UNCHANGED <<row, elapsed, overtaken>>
    BY DEF Crash
<1> HIDE DEF r
<1>3. /\ runner' \in [Executors -> Runner]
      /\ \A d \in Executors : runner'[d] = IF d = e THEN r ELSE runner[d]
    BY <1>1, <1>2 DEF Inv, TypeOK
<1>4. /\ tasks' \in [Executors -> [Workflows -> {"none", "running", "written"}]]
      /\ \A d \in Executors, v \in Workflows :
            tasks'[d][v] = IF d = e THEN "none" ELSE tasks[d][v]
    BY DEF Crash, Inv, TypeOK
<1>5. /\ worker_counts' \in [Executors -> Nat]
      /\ \A d \in Executors : worker_counts'[d] = IF d = e THEN 0 ELSE worker_counts[d]
    BY DEF Crash, Inv, TypeOK
<1>6. TypeOK'
    <2>1. disruptions' \in Nat
        BY DEF Crash, Inv, TypeOK
    <2> QED BY <1>2, <1>3, <1>4, <1>5, <2>1 DEF Inv, TypeOK
<1>7. OwnInv' /\ ClaimedOnce'
    BY <1>1, <1>2, <1>3, <1>4 DEF Inv, OwnInv, ClaimedOnce
<1>8. LockInv' /\ SnapInv'
    BY <1>1, <1>2, <1>3 DEF Inv, LockInv, SnapInv
<1>9. CountInv'
    <2>1. Cardinality(Busy(e)') = 0 /\ \A d \in Executors \ {e} : Busy(d)' = Busy(d)
        <3>1. Busy(e)' = {} /\ \A d \in Executors \ {e} : Busy(d)' = Busy(d)
            BY <1>4 DEF Busy
        <3> QED BY <3>1, FS_EmptySet
    <2>2. CountInv!(e)'
        BY <1>1, <1>3, <1>5, <2>1, Limits
    <2>3. ASSUME NEW d \in Executors \ {e} PROVE CountInv!(d)'
        BY <1>3, <1>5, <2>1 DEF Inv, CountInv
    <2> QED BY <2>2, <2>3 DEF CountInv
<1>10. GlobalInv'
    BY <1>1, <1>2, GlobalRested
<1> QED BY <1>6, <1>7, <1>8, <1>9, <1>10 DEF Inv

LEMMA LaunchInv == ASSUME Inv, NEW e \in Executors, Launch(e) PROVE Inv'
<1> DEFINE own == {w \in WithStatus({"PENDING"}) : row[w].executor_id = e}
           r == [Resting("launch") EXCEPT !.todo = own]
<1>1. /\ runner[e].at = "down" /\ runner' = [runner EXCEPT ![e] = r]
      /\ UNCHANGED <<row, elapsed, tasks, worker_counts, overtaken, disruptions>>
    BY DEF Launch
<1>2. own \in SUBSET Workflows /\ \A w \in own : row[w].status = "PENDING" /\ row[w].executor_id = e
    BY DEF WithStatus
<1>3. /\ Resting("launch") \in Runner /\ Resting("launch").at = "launch"
      /\ Resting("launch").locked = {}
    BY RestingOK DEF Places
<1> HIDE DEF own
<1>4. r \in Runner /\ r.at = "launch" /\ r.locked = {} /\ r.todo = own
    BY <1>2, <1>3 DEF Runner
<1> HIDE DEF r
<1>5. GlobalInv'
    BY <1>1, <1>4, GlobalRested
<1> QED BY <1>1, <1>2, <1>4, <1>5, RunnerMoves

LEMMA RequeueInv == ASSUME Inv, NEW e \in Executors, Requeue(e) PROVE Inv'
<1>1. PICK w \in Workflows :
        /\ w \in runner[e].todo
        /\ row' = [row EXCEPT ![w] =
                IF row[w].status = "PENDING"
                THEN [row[w] EXCEPT !.status = "ENQUEUED", !.recent = FALSE]
                ELSE row[w]]
        /\ runner' = [Touch(runner, {w}) EXCEPT ![e].todo = @ \ {w}]
        /\ UNCHANGED <<elapsed, tasks, worker_counts, overtaken, disruptions>>
    BY DEF Requeue, Inv, TypeOK, Runner
<1> DEFINE touched == Touch(runner, {w})
<1>2. runner \in [Executors -> Runner] /\ row \in [Workflows -> Row]
    BY DEF Inv, TypeOK
<1>3. /\ touched \in [Executors -> Runner]
      /\ \A d \in Executors : /\ Same(runner[d], touched[d])
                              /\ runner[d].at \in {"select", "claim"} => w \in touched[d].stale
    BY <1>2, Touched
<1>4. runner' = [touched EXCEPT ![e] = [touched[e] EXCEPT !.todo = touched[e].todo \ {w}]]
    BY <1>1
<1> HIDE DEF touched
<1>5. /\ runner' \in [Executors -> Runner]
      /\ \A d \in Executors \ {e} : runner'[d] = touched[d]
      /\ runner'[e].at = touched[e].at /\ runner'[e].local = touched[e].local
      /\ runner'[e].quota = touched[e].quota /\ runner'[e].snap = touched[e].snap
      /\ runner'[e].locked = touched[e].locked /\ runner'[e].stale = touched[e].stale
      /\ runner'[e].todo = touched[e].todo \ {w}
    BY <1>3, <1>4 DEF Runner
<1>6. \A d \in Executors :
        /\ runner'[d].at = runner[d].at /\ runner'[d].local = runner[d].local
        /\ runner'[d].quota = runner[d].quota /\ runner'[d].snap = runner[d].snap
        /\ runner'[d].locked = runner[d].locked /\ runner[d].stale \subseteq runner'[d].stale
        /\ runner'[d].todo = IF d = e THEN runner[d].todo \ {w} ELSE runner[d].todo
        /\ runner[d].at \in {"select", "claim"} => w \in runner'[d].stale
    <2> SUFFICES ASSUME NEW d \in Executors
                 PROVE  <1>6!(d)
        OBVIOUS
    <2>1. CASE d = e
        BY <1>3, <1>5, <2>1 DEF Same
    <2>2. CASE d # e
        BY <1>3, <1>5, <2>2 DEF Same
    <2> QED BY <2>1, <2>2
<1>7. /\ runner[e].at = "launch" /\ row[w].status \in {"PENDING", "CANCELLED"}
      /\ row[w].status = "PENDING" => row[w].executor_id = e
    BY <1>1, <1>2 DEF Inv, OwnInv
<1>8. /\ row' \in [Workflows -> Row]
      /\ row'[w].status = IF row[w].status = "PENDING" THEN "ENQUEUED" ELSE row[w].status
      /\ \A v \in Workflows \ {w} : row'[v] = row[v]
    BY <1>1, <1>2 DEF Row, Statuses
<1>9. TypeOK'
    BY <1>1, <1>5, <1>8 DEF Inv, TypeOK
<1>10. OwnInv'
    <2> SUFFICES ASSUME NEW d \in Executors, NEW v \in Workflows PROVE OwnInv!(d, v)'
        BY DEF OwnInv
    <2>1. OwnInv!(d, v) /\ OwnInv!(e, w)
        BY DEF Inv, OwnInv
    <2>2. /\ tasks'[d][v] = tasks[d][v] /\ runner'[d].at = runner[d].at
          /\ v \in runner'[d].todo => v \in runner[d].todo /\ (d = e => v # w)
        <3>1. /\ runner'[d].at = runner[d].at
              /\ runner'[d].todo = IF d = e THEN runner[d].todo \ {w} ELSE runner[d].todo
            BY <1>6
        <3>2. tasks' = tasks
            BY <1>1
        <3> QED BY <3>1, <3>2
    <2>3. CASE v # w
        BY <1>8, <2>1, <2>2, <2>3
    <2>4. CASE v = w
        <3>1. tasks[e][w] = "none"
            BY <1>7, <2>1
        <3>2. d # e /\ row[w].status = "PENDING" => tasks[d][w] = "none" /\ w \notin runner[d].todo
            <4>1. tasks[d][w] \in {"none", "running", "written"}
                BY DEF Inv, TypeOK
            <4> QED BY <1>7, <2>1, <2>4, <4>1
        <3>3. row[w].status = "CANCELLED" => row'[w].status = "CANCELLED"
            BY <1>8
        <3> QED BY <1>7, <2>1, <2>2, <2>4, <3>1, <3>2, <3>3
    <2> QED BY <2>3, <2>4
<1>11. LockInv' /\ ClaimedOnce'
    <2>1. \A d \in Executors : runner'[d].locked = runner[d].locked /\ runner'[d].at = runner[d].at
        BY <1>6
    <2>2. \A v \in Workflows : row[v].status = "ENQUEUED" => row'[v].status = "ENQUEUED"
        BY <1>7, <1>8
    <2>3. LockInv'
        BY <2>1, <2>2 DEF Inv, LockInv
    <2> QED BY <1>1, <2>3 DEF Inv, ClaimedOnce
<1>12. SnapInv'
    BY <1>6, <1>7, <1>8 DEF Inv, SnapInv
<1>13. CountInv'
    <2>1. \A d \in Executors : Busy(d)' = Busy(d)
        BY <1>1 DEF Busy
    <2> QED BY <1>1, <1>6, <2>1 DEF Inv, CountInv
<1>14. GlobalInv'
    <2>1. \A d \in Executors : runner'[d].at = "claim" /\ GlobalConcurrency # None =>
            runner'[d].locked = Wanted(runner[d])
        BY <1>6 DEF Inv, GlobalInv
    <2>2. \A v \in Workflows :
            /\ row'[v].status = "PENDING" => row[v].status = "PENDING"
            /\ row'[v].status = "ENQUEUED" => row[v].status \in {"ENQUEUED", "PENDING"}
        BY <1>8
    <2> QED BY <1>1, <1>5, <1>6, <2>1, <2>2, GlobalShrinks DEF Inv, TypeOK
<1> QED BY <1>9, <1>10, <1>11, <1>12, <1>13, <1>14 DEF Inv

LEMMA StartRunnerInv == ASSUME Inv, NEW e \in Executors, StartRunner(e) PROVE Inv'
<1> DEFINE r == Resting("sleep")
<1>1. r \in Runner /\ r.at = "sleep" /\ r.locked = {} /\ r.todo = {}
    BY RestingOK DEF Places
<1>2. /\ runner' = [runner EXCEPT ![e] = r]
      /\ UNCHANGED <<row, elapsed, tasks, worker_counts, overtaken, disruptions>>
    BY DEF StartRunner
<1> HIDE DEF r
<1>3. GlobalInv'
    BY <1>1, <1>2, GlobalRested
<1> QED BY <1>1, <1>2, <1>3, RunnerMoves

----
(* The theorems *)

LEMMA NextInv == Inv /\ [Next]_vars => Inv'
<1> SUFFICES ASSUME Inv, [Next]_vars PROVE Inv'
    OBVIOUS
<1>1. CASE UNCHANGED vars
    BY <1>1 DEF vars, Inv, TypeOK, OwnInv, ClaimedOnce, LockInv, SnapInv, CountInv, Busy, GlobalInv
<1>2. CASE Enqueue
    BY <1>2, EnqueueInv
<1>3. ASSUME NEW w \in Workflows, DelayElapses(w) \/ WindowPasses(w) \/ Cancel(w) PROVE Inv'
    BY <1>3, DelayElapsesInv, WindowPassesInv, CancelInv
<1>4. ASSUME NEW e \in Executors, RunnerStep(e) PROVE Inv'
    BY <1>4, PromoteInv, CountStepInv, SelectInv, ClaimInv DEF RunnerStep
<1>5. ASSUME NEW e \in Executors, LaunchStep(e) \/ Crash(e) PROVE Inv'
    BY <1>5, LaunchInv, RequeueInv, StartRunnerInv, CrashInv DEF LaunchStep
<1>6. ASSUME NEW e \in Executors, NEW w \in Workflows, TaskStep(e, w) PROVE Inv'
    BY <1>6, WriteOutcomeInv, DecWorkerInv DEF TaskStep
<1> QED BY <1>1, <1>2, <1>3, <1>4, <1>5, <1>6 DEF Next

LEMMA Invariance == Spec => []Inv
    BY InitInv, NextInv, PTL DEF Spec

\* Rows, runners and tasks stay well formed; in particular dec_worker, a plain decrement, is called
\* only for a task that inc_worker counted, so that no worker count ever goes below zero.
THEOREM QueueTypeCorrect == Spec => []TypeOK
<1>1. Inv => TypeOK
    BY DEF Inv
<1> QED BY <1>1, Invariance, PTL

\* The poll loop reads its worker count before it opens the dequeue transaction, and tasks end in
\* between; still a process never runs more tasks than worker_concurrency, because only its own
\* loop adds tasks, and it holds no more rows than max_tasks allowed.
THEOREM WorkerLimit == Spec => []WorkerLimitHolds
<1>1. Inv => WorkerLimitHolds
    BY DEF Inv, CountInv, Busy, WorkerLimitHolds
<1> QED BY <1>1, Invariance, PTL

\* Two tasks never run one workflow: a claim needs an ENQUEUED row that it has locked, and a restart
\* puts back only rows of its own executor, whose tasks died with the process.
THEOREM SingleClaim == Spec => []ClaimedOnce
<1>1. Inv => ClaimedOnce
    BY DEF Inv
<1> QED BY <1>1, Invariance, PTL

\* With a global limit the dequeue transactions of any number of executors together never exceed it, as
\* long as no row joins the queue ahead of rows that an open transaction sees: what is PENDING and what
\* lies in the queue up to the last row a transaction wants never exceeds the limit.
THEOREM GlobalLimitInOrder == Spec => []InOrderGlobalLimitHolds
<1>1. WithStatus({"PENDING"}) = Pending(row)
    BY DEF WithStatus, Pending
<1>2. Inv => InOrderGlobalLimitHolds
    BY <1>1 DEF Inv, GlobalInv, InOrderGlobalLimitHolds, GlobalLimitHolds
<1> QED BY <1>2, Invariance, PTL

====
