---- MODULE ChildWorkflowsProofs ----
(*
 * For any parents, children, executors, handlers and bounds, provided that no two parents name the
 * same child: a PENDING workflow is never out of reach of a task or a recovery, and all executions of a
 * parent are told the same outcome of a child that was neither cancelled nor listed by a request.
 *
 * Both need what the code keeps between the child's row and the parent's mapping (MapInv): the row of
 * a child exists exactly when a mapping does, mappings are made in the order of the body, and a
 * parent that has gone past a child has seen it end. Then the upsert of start_workflow can take over
 * the executor_id of a row only when the row is terminal (ChildSettled), which is what keeps the
 * PENDING ones covered (Covered) and the undisturbed ones run by one task at most (Sole), whatever
 * happens to their parents.
 *)
EXTENDS ChildWorkflows, FiniteSetTheorems, TLAPS

\* Parents do not share children: by default a child's id is the parent's with the step id appended.
OwnChildren ==
    \A p, q \in Parents : \A m \in Positions(p), n \in Positions(q) :
        ChildOf[p][m] = ChildOf[q][n] => p = q

Status(w) == workflow_status[w].status

\* A child's row exists exactly when a position of a parent maps to it, and the positions of a body are
\* mapped in order.
MapInv ==
    /\ \A p \in Parents : \A n \in Positions(p) :
          child_workflow_id[p][n] # "none" =>
             /\ child_workflow_id[p][n] = ChildOf[p][n]
             /\ Status(ChildOf[p][n]) # "ABSENT"
             /\ \A m \in Positions(p) : m < n => child_workflow_id[p][m] # "none"
    /\ \A c \in Children : Status(c) # "ABSENT" =>
          \E p \in Parents : \E n \in Positions(p) : child_workflow_id[p][n] = c

\* A parent's body is at one of its positions; it has seen the children before it end.
ParentOk(k) ==
    /\ k.at \in {"check_child", "start", "await", "poll", "outcome"}
    /\ k.n \in Positions(k.wf)
    /\ \A m \in Positions(k.wf) : m < k.n =>
          child_workflow_id[k.wf][m] # "none" /\ Status(ChildOf[k.wf][m]) \in Terminal
    /\ k.at \in {"await", "poll"} => child_workflow_id[k.wf][k.n] # "none"

\* A task k runs a workflow that has a row, in a process that lives.
BodyOk(k) ==
    /\ k.at # "await" => k.rx = 0
    /\ k.at # "idle" =>
          /\ k.wf \in Workflows /\ k.on \in Executors
          /\ executor[k.on] # "down"
          /\ Status(k.wf) # "ABSENT"
          /\ k.wf \in Parents => ParentOk(k)
          /\ k.wf \in Children => k.at \in {"check", "record", "outcome"}

\* The owned handle that task k waits on is fed by a task of the child, in the same process.
HandleOk(k) ==
    k.at = "await" =>
        /\ k.rx \in Tasks
        /\ task[k.rx].at # "idle" /\ task[k.rx].on = k.on /\ task[k.rx].wf = ChildOf[k.wf][k.n]

TaskInv == \A t \in Tasks : BodyOk(task[t]) /\ HandleOk(task[t])

\* What a recovery has listed has a row; a dead-lettered row has counted its attempts; the executor
\* of a PENDING row has a handler for it.
RowInv ==
    /\ \A e \in Executors : /\ \A w \in recovering[e] : Status(w) # "ABSENT"
                            /\ executor[e] = "down" => recovering[e] = {}
    /\ \A w \in Workflows :
          /\ Status(w) = "MAX_RECOVERY_ATTEMPTS_EXCEEDED" => workflow_status[w].recovery_attempts >= 2
          /\ Status(w) = "PENDING" => /\ workflow_status[w].executor_id \in Executors
                                      /\ w \in Registered[workflow_status[w].executor_id]

Running(k, w, e) == k.at # "idle" /\ k.wf = w /\ k.on = e

Runs(t, w) == task[t].at # "idle" /\ task[t].wf = w

\* A PENDING workflow runs on the executor of its row, or will when that executor is launched.
Covered(w) ==
    LET e == workflow_status[w].executor_id IN
    \/ \E t \in Tasks : Running(task[t], w, e)
    \/ executor[e] = "down"
    \/ executor[e] = "launching" /\ w \in recovering[e]

CoverInv == used["panics"] = 0 => \A w \in Workflows : Status(w) = "PENDING" => Covered(w)

\* Workflow w has one owner, which runs at most one task for it, and none once it has ended.
Sole(w) ==
    /\ \A t \in Tasks : Runs(t, w) =>
          /\ Status(w) = "PENDING" /\ workflow_status[w].executor_id = task[t].on
          /\ \A s \in Tasks : Runs(s, w) => s = t
    /\ \A e \in Executors : w \in recovering[e] =>
          /\ executor[e] = "launching" /\ Status(w) = "PENDING" /\ workflow_status[w].executor_id = e
          /\ \A t \in Tasks : ~Runs(t, w)

\* The attempts of a dead-lettered workflow are those of the limit.
AttemptsOk(w, row) ==
    /\ row.status # "CANCELLED"
    /\ row.status = "PENDING" /\ MaxRetries[w] > 0 => row.recovery_attempts <= MaxRetries[w] + 1
    /\ row.status = "MAX_RECOVERY_ATTEMPTS_EXCEEDED" => row.recovery_attempts = MaxRetries[w] + 2

\* What get_result has returned is what the child's row says.
ToldOk(p, n) ==
    observed[p][n] # {} =>
        /\ child_workflow_id[p][n] # "none" /\ Status(ChildOf[p][n]) \in Terminal
        /\ observed[p][n] = {AwaitOutcome(workflow_status[ChildOf[p][n]])}

\* What holds of a workflow that was neither cancelled nor listed by a recovery request.
SoleInv ==
    /\ \A w \in Workflows : w \notin disturbed => Sole(w) /\ AttemptsOk(w, workflow_status[w])
    /\ \A p \in Parents : \A n \in Positions(p) : ChildOf[p][n] \notin disturbed => ToldOk(p, n)

Inv == TypeOK /\ MapInv /\ TaskInv /\ RowInv /\ CoverInv /\ SoleInv

----
(* Lemmas about bodies, rows and fresh tasks. *)

LEMMA Constants ==
    /\ Parents \subseteq Workflows /\ Children \subseteq Workflows /\ Parents \cap Children = {}
    /\ "none" \notin Workflows /\ "none" \notin Executors
    /\ 0 \notin Tasks
    /\ \A p \in Parents : /\ Positions(p) \subseteq Nat /\ 1 \in Positions(p)
                          /\ \A n \in Positions(p) : n >= 1 /\ ChildOf[p][n] \in Children
                          /\ \A n \in Positions(p) : n # Len(ChildOf[p]) => n + 1 \in Positions(p)
BY ChildAssumption DEF Workflows, Positions

\* Rows, once there, stay; what has ended stays so; what is mapped stays mapped.
Grows ==
    /\ \A w \in Workflows : /\ Status(w) # "ABSENT" => Status(w)' # "ABSENT"
                            /\ Status(w) \in Terminal => Status(w)' \in Terminal
    /\ \A p \in Parents : \A n \in Positions(p) :
          child_workflow_id[p][n] # "none" => child_workflow_id'[p][n] # "none"

LEMMA BodyGrows ==
    ASSUME NEW k, BodyOk(k), Grows, k.at # "idle" => executor'[k.on] # "down"
    PROVE  BodyOk(k)'
<1>1. ASSUME k.wf \in Parents, ParentOk(k) PROVE ParentOk(k)'
  BY <1>1, Constants DEF ParentOk, Grows
<1>2. QED
  BY <1>1 DEF BodyOk, Grows

\* The mappings survive a step that makes no child's row and changes no mapping.
LEMMA MapKept ==
    ASSUME MapInv, UNCHANGED child_workflow_id,
           \A w \in Workflows : Status(w) # "ABSENT" => Status(w)' # "ABSENT",
           \A c \in Children : Status(c) = "ABSENT" => Status(c)' = "ABSENT"
    PROVE  MapInv'
BY Constants DEF MapInv

LEMMA FreshOk ==
    ASSUME NEW w \in Workflows, NEW e \in Executors
    PROVE  LET k == FreshTask(w, e)
           IN  /\ k \in Task /\ k.wf = w /\ k.on = e /\ k.rx = 0
               /\ k.at # "idle" /\ k.at # "await"
BY DEF FreshTask, IdleTask, Task

LEMMA UpsertOk ==
    ASSUME TypeOK, NEW w \in Workflows, NEW e \in Executors, NEW i \in {0, 1}
    PROVE  LET row == Upsert(w, e, i)
           IN  /\ row \in Row /\ row.executor_id = e
               /\ Status(w) = "ABSENT" => row.status = "PENDING" /\ row.recovery_attempts = 1
               /\ Status(w) # "ABSENT" =>
                     /\ row.status = Status(w)
                     /\ row.recovery_attempts = workflow_status[w].recovery_attempts + i
<1>1. workflow_status[w] \in Row
  BY DEF TypeOK
<1>2. CASE Status(w) = "ABSENT"
  BY <1>2 DEF Upsert, Status, Row, Statuses
<1>3. CASE Status(w) # "ABSENT"
  <2>1. PICK r \in Row : r = workflow_status[w]
    BY <1>1
  <2>2. r.recovery_attempts + i \in Nat
    BY DEF Row
  <2>3. Upsert(w, e, i) = [r EXCEPT !.executor_id = e, !.recovery_attempts = r.recovery_attempts + i]
    BY <1>3, <2>1 DEF Upsert, Status
  <2>4. [r EXCEPT !.executor_id = e, !.recovery_attempts = r.recovery_attempts + i] \in Row
    BY <2>2 DEF Row
  <2>5. QED
    BY <1>3, <2>1, <2>3, <2>4 DEF Status, Row
<1>4. QED
  BY <1>2, <1>3

\* A buried row has ended, and its attempts exceed the limit.
LEMMA BuryOk ==
    ASSUME NEW w \in Workflows, NEW row \in Row, DeadLettered(w, row), row.status # "ABSENT"
    PROVE  /\ Bury(row) \in Row /\ Bury(row).status \in Terminal
           /\ Bury(row).executor_id = row.executor_id
           /\ Bury(row).recovery_attempts = row.recovery_attempts
           /\ row.recovery_attempts >= 2 /\ MaxRetries[w] > 0
           /\ row.recovery_attempts > MaxRetries[w] + 1
           /\ Bury(row).status = IF row.status = "PENDING" THEN "MAX_RECOVERY_ATTEMPTS_EXCEEDED" ELSE row.status
<1>1. MaxRetries[w] \in Nat
  BY ChildAssumption
<1>2. QED
  BY <1>1 DEF DeadLettered, Bury, Row, Terminal, Statuses

\* A child that is mapped elsewhere when a parent comes to start it has ended: the mapping is of an
\* earlier position of the same body.
LEMMA ChildSettled ==
    ASSUME OwnChildren, TypeOK, MapInv, TaskInv, NEW t \in Tasks, task[t].at = "start",
           child_workflow_id[task[t].wf][task[t].n] = "none",
           Status(ChildOf[task[t].wf][task[t].n]) # "ABSENT"
    PROVE  Status(ChildOf[task[t].wf][task[t].n]) \in Terminal
<1>1. PICK p, n : p = task[t].wf /\ n = task[t].n
  OBVIOUS
<1>2. p \in Parents /\ ParentOk(task[t]) /\ n \in Positions(p)
  <2>1. BodyOk(task[t])
    BY DEF TaskInv
  <2>2. p \in Parents
    BY <1>1, <2>1 DEF BodyOk, Workflows
  <2>3. QED
    BY <1>1, <2>1, <2>2 DEF BodyOk, ParentOk
<1>3. ChildOf[p][n] \in Children
  BY <1>2, Constants
<1>4. PICK q \in Parents : \E m \in Positions(q) : child_workflow_id[q][m] = ChildOf[p][n]
  BY <1>1, <1>3 DEF MapInv
<1>5. PICK m \in Positions(q) : child_workflow_id[q][m] = ChildOf[p][n]
  BY <1>4
<1>6. child_workflow_id[q][m] # "none"
  BY <1>3, <1>5, Constants
<1>7. ChildOf[q][m] = ChildOf[p][n]
  BY <1>5, <1>6 DEF MapInv
<1>8. q = p
  BY <1>2, <1>7 DEF OwnChildren
<1>9. m < n
  <2>1. m \in Nat /\ n \in Nat /\ m # n
    BY <1>1, <1>2, <1>6, <1>8, Constants
  <2>2. ~(n < m)
    BY <1>1, <1>2, <1>6, <1>8 DEF MapInv
  <2>3. QED
    BY <2>1, <2>2
<1>10. QED
  BY <1>1, <1>2, <1>7, <1>8, <1>9 DEF ParentOk

\* A task that ends its body or moves on within a position.
LEMMA MoveOk ==
    ASSUME NEW r \in Task, BodyOk(r), r.at # "idle", NEW k \in Task,
           k.wf = r.wf, k.on = r.on, k.n = r.n, k.rx = 0, k.at \notin {"idle", "await"},
           r.wf \in Parents =>
              /\ k.at \in {"check_child", "start", "poll", "outcome"}
              /\ k.at = "poll" => child_workflow_id[k.wf][k.n] # "none",
           r.wf \in Children => k.at \in {"check", "record", "outcome"}
    PROVE  BodyOk(k)
<1>1. r.wf \in Parents => ParentOk(k)
  BY DEF BodyOk, ParentOk
<1>2. QED
  BY <1>1 DEF BodyOk

\* What a parent does when get_result returns, once its child has ended.
LEMMA ObserveOk ==
    ASSUME NEW r \in Task, BodyOk(r)', r.at \in {"await", "poll"}, NEW o,
           Status(ChildOf[r.wf][r.n])' \in Terminal
    PROVE  LET k == Observe(r, o)
           IN  /\ k \in Task /\ k.wf = r.wf /\ k.on = r.on /\ k.rx = 0
               /\ k.at \notin {"idle", "await"}
               /\ BodyOk(k)'
<1> DEFINE k == Observe(r, o)
<1>1. r.wf \in Parents /\ ParentOk(r)' /\ r.n \in Positions(r.wf) /\ r.n \in Nat
  <2>1. r.wf \in Parents
    BY DEF BodyOk, Workflows
  <2>2. QED
    BY <2>1, Constants DEF BodyOk, ParentOk
<1>2. CASE o # <<"ok">> \/ r.n = Len(ChildOf[r.wf])
  <2>1. k \in Task /\ k.wf = r.wf /\ k.on = r.on /\ k.n = r.n /\ k.rx = 0 /\ k.at = "outcome"
    BY <1>2 DEF Observe, Task
  <2> HIDE DEF k
  <2>2. ParentOk(k)'
    BY <1>1, <2>1 DEF ParentOk
  <2>3. BodyOk(k)'
    BY <1>1, <2>1, <2>2, Constants DEF BodyOk
  <2>4. QED
    BY <2>1, <2>3 DEF k
<1>3. CASE o = <<"ok">> /\ r.n # Len(ChildOf[r.wf])
  <2>1. k \in Task /\ k.wf = r.wf /\ k.on = r.on /\ k.n = r.n + 1 /\ k.rx = 0 /\ k.at = "check_child"
    <3>1. k = [r EXCEPT !.at = "check_child", !.rx = 0, !.n = r.n + 1]
      BY <1>3 DEF Observe
    <3>2. r.n + 1 \in Nat
      BY <1>1
    <3>3. QED
      BY <3>1, <3>2 DEF Task
  <2> HIDE DEF k
  <2>2. ParentOk(k)'
    <3>1. k.n \in Positions(k.wf)
      BY <1>1, <1>3, <2>1, Constants
    <3>2. ASSUME NEW m \in Positions(k.wf), m < k.n
          PROVE  child_workflow_id'[k.wf][m] # "none" /\ Status(ChildOf[k.wf][m])' \in Terminal
      <4>1. m < r.n \/ m = r.n
        BY <1>1, <2>1, <3>2, Constants
      <4>2. QED
        BY <1>1, <2>1, <4>1 DEF ParentOk
    <3>3. QED
      BY <2>1, <3>1, <3>2 DEF ParentOk
  <2>3. BodyOk(k)'
    BY <1>1, <2>1, <2>2, Constants DEF BodyOk
  <2>4. QED
    BY <2>1, <2>3 DEF k
<1>4. QED
  BY <1>2, <1>3

----
(* The invariant: the steps of single tasks. *)

LEMMA InitInv == Init => Inv
<1> SUFFICES ASSUME Init PROVE Inv
  OBVIOUS
<1>1. AbsentRow \in Row /\ AbsentRow.status = "ABSENT"
  BY DEF AbsentRow, Row, Statuses
<1>2. IdleTask \in Task /\ IdleTask.at = "idle" /\ IdleTask.rx = 0
  BY DEF IdleTask, Task
<1>3. \A w \in Workflows : Status(w) = "ABSENT"
  BY <1>1 DEF Init, Status
<1>4. \A t \in Tasks : task[t] = IdleTask
  BY DEF Init
<1>5. \A p \in Parents : \A n \in Positions(p) : child_workflow_id[p][n] = "none" /\ observed[p][n] = {}
  BY DEF Init
<1>6. TypeOK
  BY <1>1, <1>2, Constants DEF Init, TypeOK
<1>7. MapInv
  BY <1>3, <1>5, Constants DEF MapInv
<1>8. TaskInv
  BY <1>2, <1>4 DEF TaskInv, BodyOk, HandleOk
<1>9. RowInv
  BY <1>3 DEF Init, RowInv
<1>10. CoverInv
  BY <1>3 DEF CoverInv
<1>11. SoleInv
  <2>1. \A w \in Workflows : Sole(w)
    BY <1>2, <1>4 DEF Init, Sole, Runs
  <2>2. \A w \in Workflows : AttemptsOk(w, workflow_status[w])
    BY <1>3 DEF AttemptsOk, Status
  <2>3. \A p \in Parents : \A n \in Positions(p) : ToldOk(p, n)
    BY <1>5 DEF ToldOk
  <2>4. QED
    BY <2>1, <2>2, <2>3 DEF SoleInv
<1>12. QED
  BY <1>6, <1>7, <1>8, <1>9, <1>10, <1>11 DEF Inv

\* One running task goes on, for the same workflow and without a new handle, and no row, mapping,
\* executor or list changes.
LEMMA OneTask ==
    ASSUME Inv, NEW t \in Tasks, NEW k \in Task,
           task[t].at # "idle", k.at \notin {"idle", "await"}, k.rx = 0,
           k.wf = task[t].wf, k.on = task[t].on, BodyOk(k)',
           task' = [task EXCEPT ![t] = k],
           UNCHANGED <<workflow_status, child_workflow_id, executor, recovering, disturbed, used>>,
           step_output' \in [Children -> {"none", "ok", "err"}],
           observed' = [p \in Parents |-> observed'[p]],
           \A p \in Parents : observed'[p] \in [Positions(p) -> SUBSET Outcomes],
           \A p \in Parents : \A n \in Positions(p) : ChildOf[p][n] \notin disturbed => ToldOk(p, n)'
    PROVE  Inv'
<1>1. TypeOK /\ MapInv /\ TaskInv /\ RowInv /\ CoverInv /\ SoleInv
  BY DEF Inv
<1>2. task'[t] = k /\ (\A s \in Tasks : s # t => task'[s] = task[s]) /\ task' \in [Tasks -> Task]
  BY <1>1 DEF TypeOK
<1>3. \A s \in Tasks : /\ task'[s].at # "idle" <=> task[s].at # "idle"
                       /\ task'[s].wf = task[s].wf /\ task'[s].on = task[s].on
  BY <1>2
<1>4. TypeOK'
  <2>1. \A s \in Tasks : /\ task'[s].at # "idle" => task'[s].wf \in Workflows /\ task'[s].on \in Executors
                         /\ task'[s].at = "await" <=> task'[s].rx \in Tasks
    BY <1>1, <1>2, Constants DEF TypeOK
  <2>2. QED
    BY <1>1, <1>2, <2>1 DEF TypeOK
<1>5. MapInv'
  BY <1>1, MapKept DEF Status
<1>6. TaskInv'
  <2>1. ASSUME NEW s \in Tasks PROVE BodyOk(task[s])' /\ HandleOk(task[s])'
    <3>1. PICK x : x = task'[s]
      OBVIOUS
    <3>2. x = k \/ (x = task[s] /\ BodyOk(x) /\ HandleOk(x))
      BY <1>1, <1>2, <3>1 DEF TaskInv
    <3>3. HandleOk(x)
      BY <3>2 DEF HandleOk
    <3>4. BodyOk(x)'
      BY <3>2 DEF BodyOk, ParentOk, Status
    <3>5. HandleOk(x)'
      BY <3>3, <1>3 DEF HandleOk
    <3>6. QED
      BY <3>1, <3>4, <3>5 DEF BodyOk, ParentOk, Status, HandleOk
  <2>2. QED
    BY <2>1 DEF TaskInv
<1>7. RowInv'
  BY <1>1 DEF RowInv, Status
<1>8. CoverInv'
  BY <1>1, <1>3 DEF CoverInv, Covered, Running, Status
<1>9. SoleInv'
  <2>1. ASSUME NEW w \in Workflows, w \notin disturbed
        PROVE  Sole(w)' /\ AttemptsOk(w, workflow_status'[w])
    BY <1>1, <1>3, <2>1 DEF SoleInv, Sole, Runs, Status
  <2>2. QED
    BY <2>1 DEF SoleInv, AttemptsOk
<1>10. QED
  BY <1>4, <1>5, <1>6, <1>7, <1>8, <1>9 DEF Inv

\* One running task goes on and nobody has been told anything.
LEMMA OneQuietTask ==
    ASSUME Inv, NEW t \in Tasks, NEW k \in Task,
           task[t].at # "idle", k.at \notin {"idle", "await"}, k.rx = 0,
           k.wf = task[t].wf, k.on = task[t].on, BodyOk(k),
           task' = [task EXCEPT ![t] = k],
           UNCHANGED <<workflow_status, child_workflow_id, executor, recovering, observed, disturbed, used>>,
           step_output' \in [Children -> {"none", "ok", "err"}]
    PROVE  Inv'
<1>1. TypeOK /\ SoleInv
  BY DEF Inv
<1>2. BodyOk(k)'
  BY DEF BodyOk, ParentOk, Status
<1>3. \A p \in Parents : \A n \in Positions(p) : ChildOf[p][n] \notin disturbed => ToldOk(p, n)'
  BY <1>1 DEF SoleInv, ToldOk, Status
<1>4. /\ observed' = [p \in Parents |-> observed'[p]]
      /\ \A p \in Parents : observed'[p] \in [Positions(p) -> SUBSET Outcomes]
  BY <1>1 DEF TypeOK
<1>5. QED
  BY <1>2, <1>3, <1>4, OneTask

\* A running task, its workflow and what is known of it.
LEMMA RunningTask ==
    ASSUME Inv, NEW t \in Tasks, task[t].at # "idle"
    PROVE  /\ task[t] \in Task /\ BodyOk(task[t]) /\ HandleOk(task[t])
           /\ task[t].wf \in Workflows /\ task[t].on \in Executors
           /\ task[t].at \in {"check_child", "start", "await", "poll"} =>
                 /\ task[t].wf \in Parents /\ ParentOk(task[t])
                 /\ task[t].n \in Positions(task[t].wf) /\ ChildOf[task[t].wf][task[t].n] \in Children
           /\ task[t].at \in {"check", "record"} => task[t].wf \in Children
           /\ task[t].at # "await" => task[t].rx = 0
<1>1. task[t] \in Task /\ BodyOk(task[t]) /\ HandleOk(task[t])
  BY DEF Inv, TypeOK, TaskInv
<1>2. task[t].wf \in Parents => ParentOk(task[t]) /\ task[t].n \in Positions(task[t].wf)
  BY <1>1 DEF BodyOk, ParentOk
<1>3. task[t].wf \in Workflows /\ task[t].on \in Executors
  BY <1>1 DEF BodyOk
<1>4. task[t].wf \in Parents \/ task[t].wf \in Children
  BY <1>3 DEF Workflows
<1>5. QED
  BY <1>1, <1>2, <1>3, <1>4, Constants DEF BodyOk, ParentOk

LEMMA CheckChildInv ==
    ASSUME Inv, NEW t \in Tasks, CheckChild(t)
    PROVE  Inv'
<1> DEFINE at == IF child_workflow_id[task[t].wf][task[t].n] # "none" THEN "poll" ELSE "start"
           k == [task[t] EXCEPT !.at = at]
<1>1. /\ task[t].at = "check_child" /\ task' = [task EXCEPT ![t] = k]
      /\ UNCHANGED <<workflow_status, child_workflow_id, step_output, executor, recovering, observed, disturbed, used>>
  BY DEF CheckChild, check_child_workflow, tables
<1>2. task[t] \in Task /\ BodyOk(task[t]) /\ task[t].rx = 0 /\ task[t].wf \in Parents
  BY <1>1, RunningTask
<1>3. /\ k \in Task /\ k.at = at /\ k.wf = task[t].wf /\ k.on = task[t].on /\ k.n = task[t].n
      /\ k.rx = 0 /\ k.at \in {"poll", "start"}
  BY <1>2 DEF Task
<1>4. k.at = "poll" => child_workflow_id[task[t].wf][task[t].n] # "none"
  BY <1>3
<1>5. PICK r \in Task : r = task[t]
  BY <1>2
<1> HIDE DEF k
<1>6. BodyOk(k)
  <2>1. r.wf \notin Children
    BY <1>2, <1>5, Constants
  <2>2. BodyOk(r) /\ r.at # "idle"
    BY <1>1, <1>2, <1>5
  <2>3. QED
    BY <1>3, <1>4, <1>5, <2>1, <2>2, MoveOk
<1>7. step_output' \in [Children -> {"none", "ok", "err"}]
  BY <1>1 DEF Inv, TypeOK
<1>8. QED
  BY <1>1, <1>3, <1>6, <1>7, OneQuietTask

\* A task goes to its outcome or, in a child, from the check to the record of its step.
LEMMA EndBody ==
    ASSUME Inv, NEW t \in Tasks, NEW at \in {"record", "outcome"}, NEW ok \in BOOLEAN,
           task[t].at \notin {"idle", "await"}, at = "record" => task[t].at = "check",
           task' = [task EXCEPT ![t] = [task[t] EXCEPT !.at = at, !.ok = ok]],
           UNCHANGED <<workflow_status, child_workflow_id, executor, recovering, observed, disturbed, used>>,
           step_output' \in [Children -> {"none", "ok", "err"}]
    PROVE  Inv'
<1> DEFINE k == [task[t] EXCEPT !.at = at, !.ok = ok]
<1>1. task[t] \in Task /\ BodyOk(task[t]) /\ task[t].rx = 0
      /\ (task[t].at = "check" => task[t].wf \in Children)
  BY RunningTask
<1>2. PICK r \in Task : r = task[t]
  BY <1>1
<1>3. /\ k \in Task /\ k.at = at /\ k.wf = r.wf /\ k.on = r.on /\ k.n = r.n /\ k.rx = 0
  BY <1>1, <1>2 DEF Task
<1> HIDE DEF k
<1>4. BodyOk(k)
  <2>1. BodyOk(r) /\ r.at # "idle"
    BY <1>1, <1>2
  <2>2. r.wf \in Parents => at = "outcome"
    BY <1>1, <1>2, Constants
  <2>3. QED
    BY <1>3, <2>1, <2>2, MoveOk
<1>5. QED
  BY <1>2, <1>3, <1>4, OneQuietTask DEF k

LEMMA FailInv ==
    ASSUME Inv, NEW t \in Tasks, task[t].at \in {"start", "record"}, Fail(t),
           UNCHANGED <<workflow_status, child_workflow_id, step_output, executor, recovering, observed, disturbed, used>>
    PROVE  Inv'
<1>1. task' = [task EXCEPT ![t] = [task[t] EXCEPT !.at = "outcome", !.ok = FALSE]]
  BY DEF Fail
<1>2. step_output' \in [Children -> {"none", "ok", "err"}]
  BY DEF Inv, TypeOK
<1>3. QED
  BY <1>1, <1>2, EndBody

LEMMA CheckStepInv ==
    ASSUME Inv, NEW t \in Tasks, CheckStep(t)
    PROVE  Inv'
<1> DEFINE c == task[t].wf
<1>1. /\ task[t].at = "check"
      /\ UNCHANGED <<workflow_status, child_workflow_id, step_output, executor, recovering, observed, disturbed, used>>
  BY DEF CheckStep, tables
<1>2. task[t] \in Task /\ step_output' \in [Children -> {"none", "ok", "err"}]
  BY <1>1 DEF Inv, TypeOK
<1>3. PICK at \in {"record", "outcome"}, ok \in BOOLEAN :
         task' = [task EXCEPT ![t] = [task[t] EXCEPT !.at = at, !.ok = ok]]
  <2>0. task[t].ok \in BOOLEAN
    BY <1>2 DEF Task
  <2>1. CASE workflow_status[c].status = "CANCELLED"
    <3>1. task' = [task EXCEPT ![t] = [task[t] EXCEPT !.at = "outcome"]]
      BY <2>1 DEF CheckStep
    <3>2. [task[t] EXCEPT !.at = "outcome"] = [task[t] EXCEPT !.at = "outcome", !.ok = task[t].ok]
      BY <1>2 DEF Task
    <3>3. QED
      BY <2>0, <3>1, <3>2
  <2>2. CASE workflow_status[c].status # "CANCELLED" /\ step_output[c] # "none"
    <3>1. task' = [task EXCEPT ![t] = [task[t] EXCEPT !.at = "outcome", !.ok = (step_output[c] = "ok")]]
      BY <2>2 DEF CheckStep
    <3>2. (step_output[c] = "ok") \in BOOLEAN
      OBVIOUS
    <3>3. QED
      BY <3>1, <3>2
  <2>3. CASE workflow_status[c].status # "CANCELLED" /\ step_output[c] = "none"
    <3>1. task' = [task EXCEPT ![t] = [task[t] EXCEPT !.at = "record"]]
      BY <2>3 DEF CheckStep
    <3>2. [task[t] EXCEPT !.at = "record"] = [task[t] EXCEPT !.at = "record", !.ok = task[t].ok]
      BY <1>2 DEF Task
    <3>3. QED
      BY <2>0, <3>1, <3>2
  <2>4. QED
    BY <2>1, <2>2, <2>3
<1>4. QED
  BY <1>1, <1>2, <1>3, EndBody

LEMMA RecordStepInv ==
    ASSUME Inv, NEW t \in Tasks, RecordStep(t)
    PROVE  Inv'
<1> DEFINE c == task[t].wf
<1>1. /\ task[t].at = "record"
      /\ UNCHANGED <<workflow_status, child_workflow_id, executor, recovering, observed, disturbed, used>>
  BY DEF RecordStep
<1>2. c \in Children /\ step_output \in [Children -> {"none", "ok", "err"}]
  BY <1>1, RunningTask DEF Inv, TypeOK
<1>3. CASE step_output[c] # "none" /\ Fail(t) /\ UNCHANGED step_output
  BY <1>1, <1>3, FailInv
<1>4. ASSUME NEW r \in {"ok", "err"}, step_output' = [step_output EXCEPT ![c] = r],
             task' = [task EXCEPT ![t].at = "outcome", ![t].ok = (r = "ok")]
      PROVE  Inv'
  <2>1. PICK ok \in BOOLEAN : ok = (r = "ok")
    OBVIOUS
  <2>2. task' = [task EXCEPT ![t] = [task[t] EXCEPT !.at = "outcome", !.ok = ok]]
    BY <1>4, <2>1
  <2>3. step_output' \in [Children -> {"none", "ok", "err"}]
    BY <1>2, <1>4
  <2>4. QED
    BY <1>1, <2>2, <2>3, EndBody
<1>5. QED
  BY <1>3, <1>4 DEF RecordStep

----
(* What get_result returns. *)

\* What a terminal row makes of get_result is one of its outcomes, and says how the workflow ended.
LEMMA AwaitOk ==
    ASSUME NEW row \in Row, row.status \in Terminal,
           row.status = "MAX_RECOVERY_ATTEMPTS_EXCEEDED" => row.recovery_attempts >= 2
    PROVE  /\ AwaitOutcome(row) \in Outcomes
           /\ row.status = "SUCCESS" => AwaitOutcome(row) = <<"ok">>
           /\ row.status = "ERROR" => AwaitOutcome(row) = <<"err">>
           /\ row.status = "CANCELLED" => AwaitOutcome(row) = <<"cancelled">>
           /\ row.status = "MAX_RECOVERY_ATTEMPTS_EXCEEDED" =>
                 AwaitOutcome(row) = <<"dead_letter", row.recovery_attempts - 2>>
<1>1. row.status \in {"SUCCESS", "ERROR", "CANCELLED", "MAX_RECOVERY_ATTEMPTS_EXCEEDED"}
  BY DEF Terminal, Statuses
<1>2. CASE row.status = "SUCCESS"
  BY <1>2 DEF AwaitOutcome, Outcomes
<1>3. CASE row.status = "ERROR"
  BY <1>3 DEF AwaitOutcome, Outcomes
<1>4. CASE row.status = "CANCELLED"
  BY <1>4 DEF AwaitOutcome, Outcomes
<1>5. CASE row.status = "MAX_RECOVERY_ATTEMPTS_EXCEEDED"
  <2>1. AwaitOutcome(row) = <<"dead_letter", row.recovery_attempts - 2>>
    BY <1>5 DEF AwaitOutcome
  <2>2. row.recovery_attempts - 2 \in Nat
    BY <1>5 DEF Row
  <2>3. <<"dead_letter", row.recovery_attempts - 2>> \in {"dead_letter"} \X Nat
    BY <2>2
  <2>4. QED
    BY <1>5, <2>1, <2>3 DEF Outcomes
<1>6. QED
  BY <1>1, <1>2, <1>3, <1>4, <1>5

\* One position of one parent is told o.
LEMMA SawOk ==
    ASSUME TypeOK, NEW s \in Tasks, NEW o \in Outcomes, Saw(s, o),
           task[s].wf \in Parents, task[s].n \in Positions(task[s].wf)
    PROVE  /\ observed' = [p \in Parents |-> observed'[p]]
           /\ \A p \in Parents : observed'[p] \in [Positions(p) -> SUBSET Outcomes]
           /\ observed'[task[s].wf][task[s].n] = observed[task[s].wf][task[s].n] \cup {o}
           /\ \A p \in Parents : \A n \in Positions(p) :
                 (p # task[s].wf \/ n # task[s].n) => observed'[p][n] = observed[p][n]
<1>1. PICK q, m : q = task[s].wf /\ m = task[s].n
  OBVIOUS
<1>2. observed' = [observed EXCEPT ![q] = [observed[q] EXCEPT ![m] = observed[q][m] \cup {o}]]
  BY <1>1 DEF Saw
<1>3. observed = [p \in Parents |-> observed[p]]
  BY DEF TypeOK
<1>4. q \in Parents /\ m \in Positions(q)
  BY <1>1
<1>5. \A p \in Parents : observed'[p] = IF p = q THEN [observed[q] EXCEPT ![m] = observed[q][m] \cup {o}]
                                        ELSE observed[p]
  BY <1>2, <1>3, <1>4
<1>6. observed' = [p \in Parents |-> observed'[p]]
  BY <1>2, <1>3, <1>4
<1>7. \A p \in Parents : observed[p] \in [Positions(p) -> SUBSET Outcomes]
  BY DEF TypeOK
<1>8. [observed[q] EXCEPT ![m] = observed[q][m] \cup {o}] \in [Positions(q) -> SUBSET Outcomes]
  BY <1>4, <1>7
<1>9. QED
  BY <1>1, <1>4, <1>5, <1>6, <1>7, <1>8

LEMMA PollInv ==
    ASSUME Inv, NEW t \in Tasks, Poll(t)
    PROVE  Inv'
<1>1. PICK p, n : p = task[t].wf /\ n = task[t].n
  OBVIOUS
<1>2. task[t].at = "poll"
  BY DEF Poll
<1>3. TypeOK /\ MapInv /\ RowInv /\ SoleInv
  BY DEF Inv
<1>4. /\ p \in Parents /\ n \in Positions(p) /\ ParentOk(task[t]) /\ BodyOk(task[t]) /\ task[t] \in Task
      /\ ChildOf[p][n] \in Children /\ child_workflow_id[p][n] # "none"
  BY <1>1, <1>2, RunningTask DEF ParentOk
<1>5. child_workflow_id[p][n] = ChildOf[p][n]
  BY <1>3, <1>4 DEF MapInv
<1>6. PICK row : row = workflow_status[ChildOf[p][n]]
  OBVIOUS
<1>7. row \in Row /\ (row.status = "MAX_RECOVERY_ATTEMPTS_EXCEEDED" => row.recovery_attempts >= 2)
  BY <1>3, <1>4, <1>6, Constants DEF TypeOK, RowInv, Status
<1>8. PICK o : o = AwaitOutcome(row)
  OBVIOUS
<1>9. /\ row.status \in Terminal
      /\ task' = [task EXCEPT ![t] = Observe(task[t], o)]
      /\ Saw(t, o)
      /\ UNCHANGED <<workflow_status, child_workflow_id, step_output, executor, recovering, disturbed, used>>
  BY <1>1, <1>5, <1>6, <1>8 DEF Poll, tables
<1>10. o \in Outcomes
  BY <1>7, <1>8, <1>9, AwaitOk
<1>11. PICK r \in Task : r = task[t]
  BY <1>4
<1>12. BodyOk(r)' /\ Status(ChildOf[r.wf][r.n])' \in Terminal
  <2>1. BodyOk(r)
    BY <1>4, <1>11
  <2>2. BodyOk(r)'
    BY <2>1, <1>9 DEF BodyOk, ParentOk, Status
  <2>3. QED
    BY <2>2, <1>1, <1>6, <1>9, <1>11 DEF Status
<1> DEFINE k == Observe(r, o)
<1>13. /\ k \in Task /\ k.wf = r.wf /\ k.on = r.on /\ k.rx = 0 /\ k.at \notin {"idle", "await"}
       /\ BodyOk(k)'
  BY <1>2, <1>11, <1>12, ObserveOk
<1>14. /\ observed' = [q \in Parents |-> observed'[q]]
       /\ \A q \in Parents : observed'[q] \in [Positions(q) -> SUBSET Outcomes]
       /\ observed'[p][n] = observed[p][n] \cup {o}
       /\ \A q \in Parents : \A m \in Positions(q) : (q # p \/ m # n) => observed'[q][m] = observed[q][m]
  BY <1>1, <1>3, <1>4, <1>9, <1>10, SawOk
<1>15. ASSUME NEW q \in Parents, NEW m \in Positions(q), ChildOf[q][m] \notin disturbed
       PROVE  ToldOk(q, m)'
  <2>1. ToldOk(q, m)
    BY <1>3, <1>15 DEF SoleInv
  <2>2. CASE q # p \/ m # n
    BY <1>9, <1>14, <2>1, <2>2 DEF ToldOk, Status
  <2>3. CASE q = p /\ m = n
    <3>1. observed[p][n] \subseteq {o}
      BY <1>6, <1>8, <2>1, <2>3 DEF ToldOk
    <3>2. observed'[p][n] = {o}
      BY <1>14, <3>1
    <3>3. QED
      BY <1>4, <1>6, <1>8, <1>9, <2>3, <3>2 DEF ToldOk, Status
  <2>4. QED
    BY <2>2, <2>3
<1>16. task' = [task EXCEPT ![t] = k] /\ k.wf = task[t].wf /\ k.on = task[t].on /\ task[t].at # "idle"
  BY <1>2, <1>9, <1>11, <1>13
<1>17. step_output' \in [Children -> {"none", "ok", "err"}]
  BY <1>3, <1>9 DEF TypeOK
<1> HIDE DEF k
<1>18. QED
  BY <1>9, <1>13, <1>14, <1>15, <1>16, <1>17, OneTask

----
(* The invariant: rows that end, and tasks that are spawned. *)

Bounds == {"crashes", "recoveries", "cancels", "panics"}

\* Every slot holds a task of the same workflow in the same process as before, or is idle as before.
Alike(s) ==
    /\ task'[s].at # "idle" <=> task[s].at # "idle"
    /\ task'[s].wf = task[s].wf /\ task'[s].on = task[s].on

\* The handles survive a step after which every task that is waited for still runs.
LEMMA HandleKept ==
    ASSUME NEW k, HandleOk(k), k.at = "await" => Alike(k.rx)
    PROVE  HandleOk(k)'
BY DEF HandleOk, Alike

\* The row of w becomes (or stays) terminal, while running tasks at most go on within their bodies.
\* Unless it is disturbed it has no task, is not listed, and still tells get_result the same.
EndStep(w, row) ==
    /\ Status(w) # "ABSENT" /\ row.status \in Terminal
    /\ row.status = "MAX_RECOVERY_ATTEMPTS_EXCEEDED" => row.recovery_attempts >= 2
    /\ workflow_status' = [workflow_status EXCEPT ![w] = row]
    /\ UNCHANGED <<step_output, executor, observed>>
    /\ child_workflow_id' = [p \in Parents |-> child_workflow_id'[p]]
    /\ \A p \in Parents : child_workflow_id'[p] \in [Positions(p) -> Children \cup {"none"}]
    /\ \A p \in Parents : \A n \in Positions(p) :
          child_workflow_id[p][n] # "none" => child_workflow_id'[p][n] = child_workflow_id[p][n]
    /\ task' \in [Tasks -> Task]
    /\ \A s \in Tasks : Alike(s)
    /\ recovering' \in [Executors -> SUBSET Workflows]
    /\ \A e \in Executors : /\ recovering'[e] \subseteq recovering[e]
                            /\ \A v \in recovering[e] : v # w => v \in recovering'[e]
    /\ used' \in [Bounds -> Nat] /\ used'["panics"] = used["panics"]
    /\ disturbed \subseteq disturbed' /\ disturbed' \subseteq Workflows
    /\ w \notin disturbed' =>
          /\ AttemptsOk(w, row)
          /\ \A t \in Tasks : ~Runs(t, w)
          /\ \A e \in Executors : w \notin recovering'[e]
          /\ Status(w) \in Terminal => AwaitOutcome(row) = AwaitOutcome(workflow_status[w])

LEMMA RowEnds ==
    ASSUME Inv, NEW w \in Workflows, NEW row \in Row, EndStep(w, row), MapInv',
           \A s \in Tasks : task'[s] = task[s] \/ (task'[s].at # "await" /\ BodyOk(task[s])')
    PROVE  Inv'
<1> USE DEF EndStep
<1>1. TypeOK /\ MapInv /\ TaskInv /\ RowInv /\ CoverInv /\ SoleInv
  BY DEF Inv
<1>2. /\ workflow_status'[w] = row /\ workflow_status' \in [Workflows -> Row]
      /\ \A v \in Workflows : v # w => workflow_status'[v] = workflow_status[v]
  BY <1>1 DEF TypeOK
<1>3. /\ row.status # "ABSENT" /\ row.status # "PENDING"
  BY DEF Terminal
<1>4. Grows
  BY <1>2, <1>3 DEF Grows, Status
<1>5. TaskInv'
  <2>1. ASSUME NEW s \in Tasks PROVE BodyOk(task[s])' /\ HandleOk(task[s])'
    <3>1. CASE task'[s].at # "await" /\ BodyOk(task[s])'
      BY <3>1 DEF HandleOk
    <3>2. CASE task'[s] = task[s]
      <4>1. PICK x : x = task[s]
        OBVIOUS
      <4>2. BodyOk(x) /\ HandleOk(x)
        BY <1>1, <4>1 DEF TaskInv
      <4>3. x.at # "idle" => executor'[x.on] # "down"
        BY <4>2 DEF BodyOk
      <4>4. BodyOk(x)'
        BY <1>4, <4>2, <4>3, BodyGrows
      <4>5. HandleOk(x)'
        BY <4>2, HandleKept DEF HandleOk
      <4>6. QED
        BY <3>2, <4>1, <4>4, <4>5 DEF BodyOk, ParentOk, Status, HandleOk
    <3>3. QED
      BY <3>1, <3>2
  <2>2. QED
    BY <2>1 DEF TaskInv
<1>6. TypeOK'
  <2>1. \A s \in Tasks : task'[s].at = "await" <=> task'[s].rx \in Tasks
    BY <1>5, Constants DEF TaskInv, BodyOk, HandleOk
  <2>2. \A s \in Tasks : task'[s].at # "idle" => task'[s].wf \in Workflows /\ task'[s].on \in Executors
    BY <1>5 DEF TaskInv, BodyOk
  <2>3. QED
    BY <1>1, <1>2, <2>1, <2>2 DEF TypeOK, Bounds
<1>8. RowInv'
  <2>1. ASSUME NEW e \in Executors
        PROVE  /\ \A v \in recovering'[e] : Status(v)' # "ABSENT"
               /\ executor'[e] = "down" => recovering'[e] = {}
    BY <1>1, <1>2, <1>3 DEF RowInv, Status, TypeOK
  <2>2. ASSUME NEW v \in Workflows
        PROVE  /\ Status(v)' = "MAX_RECOVERY_ATTEMPTS_EXCEEDED" => workflow_status'[v].recovery_attempts >= 2
               /\ Status(v)' = "PENDING" => /\ workflow_status'[v].executor_id \in Executors
                                            /\ v \in Registered[workflow_status'[v].executor_id]
    BY <1>1, <1>2, <1>3 DEF RowInv, Status
  <2>3. QED
    BY <2>1, <2>2 DEF RowInv
<1>9. CoverInv'
  <2> SUFFICES ASSUME used["panics"] = 0, NEW v \in Workflows, Status(v)' = "PENDING" PROVE Covered(v)'
    BY DEF CoverInv
  <2>1. v # w /\ workflow_status'[v] = workflow_status[v]
    BY <1>2, <1>3 DEF Status
  <2>2. Status(v) = "PENDING" /\ Covered(v) /\ workflow_status[v].executor_id \in Executors
    BY <1>1, <2>1 DEF CoverInv, RowInv, Status
  <2>3. QED
    BY <2>1, <2>2 DEF Covered, Running, Alike
<1>10. SoleInv'
  <2>1. ASSUME NEW v \in Workflows, v \notin disturbed'
        PROVE  Sole(v)' /\ AttemptsOk(v, workflow_status'[v])
    <3>1. \A s \in Tasks : Runs(s, v)' => Runs(s, v) /\ task'[s].on = task[s].on
      BY DEF Runs, Alike
    <3>2. CASE v = w
      BY <1>2, <2>1, <3>1, <3>2 DEF Sole
    <3>3. CASE v # w
      <4>1. Sole(v) /\ AttemptsOk(v, workflow_status[v]) /\ workflow_status'[v] = workflow_status[v]
        BY <1>1, <1>2, <2>1, <3>3 DEF SoleInv
      <4>2. QED
        BY <3>1, <4>1 DEF Sole, Status
    <3>4. QED
      BY <3>2, <3>3
  <2>2. ASSUME NEW p \in Parents, NEW n \in Positions(p), ChildOf[p][n] \notin disturbed'
        PROVE  ToldOk(p, n)'
    <3>1. ChildOf[p][n] \in Workflows /\ ToldOk(p, n)
      BY <1>1, <2>2, Constants DEF SoleInv
    <3>2. CASE ChildOf[p][n] # w
      BY <1>2, <3>1, <3>2 DEF ToldOk, Status
    <3>3. CASE ChildOf[p][n] = w
      BY <1>2, <2>2, <3>1, <3>3 DEF ToldOk, Status
    <3>4. QED
      BY <3>2, <3>3
  <2>3. QED
    BY <2>1, <2>2 DEF SoleInv, AttemptsOk
<1>11. QED
  BY <1>5, <1>6, <1>8, <1>9, <1>10 DEF Inv

\* A task for w is spawned in slot s on executor e, whose upsert made row; another task may come to
\* wait on it. Unless w is disturbed no other task runs it and no recovery has it listed.
SpawnStep(w, e, row, s) ==
    /\ row.executor_id = e /\ w \in Registered[e] /\ executor[e] # "down" /\ task[s].at = "idle"
    /\ row.status = IF Status(w) = "ABSENT" THEN "PENDING" ELSE Status(w)
    /\ row.status = "MAX_RECOVERY_ATTEMPTS_EXCEEDED" => row.recovery_attempts >= 2
    /\ workflow_status' = [workflow_status EXCEPT ![w] = row]
    /\ UNCHANGED <<step_output, executor, observed, disturbed, used>>
    /\ child_workflow_id' = [p \in Parents |-> child_workflow_id'[p]]
    /\ \A p \in Parents : child_workflow_id'[p] \in [Positions(p) -> Children \cup {"none"}]
    /\ \A p \in Parents : \A n \in Positions(p) :
          child_workflow_id[p][n] # "none" => child_workflow_id'[p][n] = child_workflow_id[p][n]
    /\ task' \in [Tasks -> Task] /\ task'[s] = FreshTask(w, e)
    /\ \A u \in Tasks : u # s => Alike(u)
    /\ recovering' \in [Executors -> SUBSET Workflows]
    /\ \A d \in Executors : /\ recovering'[d] \subseteq recovering[d]
                            /\ \A v \in recovering[d] : v # w => v \in recovering'[d]
    /\ w \notin disturbed =>
          /\ AttemptsOk(w, row) /\ Status(w) \in {"ABSENT", "PENDING"}
          /\ \A t \in Tasks : ~Runs(t, w)
          /\ \A d \in Executors : w \notin recovering'[d]

LEMMA Spawn ==
    ASSUME Inv, NEW w \in Workflows, NEW e \in Executors, NEW row \in Row, NEW s \in Tasks,
           SpawnStep(w, e, row, s), MapInv',
           \A u \in Tasks : u # s => \/ task'[u] = task[u]
                                     \/ BodyOk(task[u])' /\ HandleOk(task[u])'
    PROVE  Inv'
<1> USE DEF SpawnStep
<1>1. TypeOK /\ MapInv /\ TaskInv /\ RowInv /\ CoverInv /\ SoleInv
  BY DEF Inv
<1>2. /\ workflow_status'[w] = row /\ workflow_status' \in [Workflows -> Row]
      /\ \A v \in Workflows : v # w => workflow_status'[v] = workflow_status[v]
  BY <1>1 DEF TypeOK
<1>3. row.status # "ABSENT" /\ (Status(w) \in Terminal => row.status \in Terminal)
  BY DEF Terminal
<1>4. Grows
  BY <1>2, <1>3 DEF Grows, Status
<1>5. PICK k : k = FreshTask(w, e)
  OBVIOUS
<1>6. /\ k \in Task /\ k.wf = w /\ k.on = e /\ k.rx = 0 /\ k.at # "idle" /\ k.at # "await"
      /\ task'[s] = k
  BY <1>5, FreshOk
<1>7. BodyOk(k)'
  <2>1. Status(w)' # "ABSENT" /\ executor'[e] # "down"
    BY <1>2, <1>3 DEF Status
  <2>2. w \in Parents => ParentOk(k)'
    <3>1. w \in Parents => k.at = "check_child" /\ k.n = 1
      BY <1>5 DEF FreshTask, IdleTask
    <3>2. w \in Parents => \A m \in Positions(w) : ~(m < 1)
      BY Constants
    <3>3. QED
      BY <1>6, <3>1, <3>2, Constants DEF ParentOk
  <2>3. w \in Children => k.at = "check"
    BY <1>5, Constants DEF FreshTask, IdleTask
  <2>4. QED
    BY <1>6, <2>1, <2>2, <2>3 DEF BodyOk
<1>8. TaskInv'
  <2>1. ASSUME NEW u \in Tasks PROVE BodyOk(task[u])' /\ HandleOk(task[u])'
    <3>1. CASE u = s
      BY <1>6, <1>7, <3>1 DEF BodyOk, ParentOk, Status, HandleOk
    <3>2. CASE u # s /\ task'[u] = task[u]
      <4>1. PICK x : x = task[u]
        OBVIOUS
      <4>2. BodyOk(x) /\ HandleOk(x)
        BY <1>1, <4>1 DEF TaskInv
      <4>3. x.at # "idle" => executor'[x.on] # "down"
        BY <4>2 DEF BodyOk
      <4>4. BodyOk(x)'
        BY <1>4, <4>2, <4>3, BodyGrows
      <4>5. x.at = "await" => x.rx # s /\ x.rx \in Tasks
        BY <4>2 DEF HandleOk
      <4>6. HandleOk(x)'
        BY <4>2, <4>5, HandleKept
      <4>7. QED
        BY <3>2, <4>1, <4>4, <4>6 DEF BodyOk, ParentOk, Status, HandleOk
    <3>3. QED
      BY <3>1, <3>2
  <2>2. QED
    BY <2>1 DEF TaskInv
<1>9. TypeOK'
  <2>1. \A u \in Tasks : task'[u].at = "await" <=> task'[u].rx \in Tasks
    BY <1>8, Constants DEF TaskInv, BodyOk, HandleOk
  <2>2. \A u \in Tasks : task'[u].at # "idle" => task'[u].wf \in Workflows /\ task'[u].on \in Executors
    BY <1>8 DEF TaskInv, BodyOk
  <2>3. QED
    BY <1>1, <1>2, <2>1, <2>2 DEF TypeOK
<1>10. RowInv'
  <2>1. ASSUME NEW d \in Executors
        PROVE  /\ \A v \in recovering'[d] : Status(v)' # "ABSENT"
               /\ executor'[d] = "down" => recovering'[d] = {}
    BY <1>1, <1>2, <1>3 DEF RowInv, Status, TypeOK
  <2>2. ASSUME NEW v \in Workflows
        PROVE  /\ Status(v)' = "MAX_RECOVERY_ATTEMPTS_EXCEEDED" => workflow_status'[v].recovery_attempts >= 2
               /\ Status(v)' = "PENDING" => /\ workflow_status'[v].executor_id \in Executors
                                            /\ v \in Registered[workflow_status'[v].executor_id]
    BY <1>1, <1>2 DEF RowInv, Status
  <2>3. QED
    BY <2>1, <2>2 DEF RowInv
<1>11. CoverInv'
  <2> SUFFICES ASSUME used["panics"] = 0, NEW v \in Workflows, Status(v)' = "PENDING" PROVE Covered(v)'
    BY DEF CoverInv
  <2>1. CASE v = w
    BY <1>2, <1>6, <2>1 DEF Covered, Running
  <2>2. CASE v # w
    <3>1. workflow_status'[v] = workflow_status[v]
      BY <1>2, <2>2
    <3>2. Covered(v) /\ workflow_status[v].executor_id \in Executors
      BY <1>1, <3>1 DEF CoverInv, RowInv, Status
    <3>3. ASSUME NEW t \in Tasks, Running(task[t], v, workflow_status[v].executor_id)
          PROVE  Running(task'[t], v, workflow_status[v].executor_id)
      BY <3>3 DEF Running, Alike
    <3>4. QED
      BY <2>2, <3>1, <3>2, <3>3 DEF Covered
  <2>3. QED
    BY <2>1, <2>2
<1>12. SoleInv'
  <2>1. ASSUME NEW v \in Workflows, v \notin disturbed
        PROVE  Sole(v)' /\ AttemptsOk(v, workflow_status'[v])
    <3>1. \A u \in Tasks : u # s /\ Runs(u, v)' => Runs(u, v) /\ task'[u].on = task[u].on
      BY DEF Runs, Alike
    <3>2. CASE v = w
      <4>1. row.status = "PENDING" /\ \A u \in Tasks : Runs(u, w)' => u = s
        BY <2>1, <3>1, <3>2
      <4>2. QED
        BY <1>2, <1>6, <2>1, <3>2, <4>1 DEF Sole, Status
    <3>3. CASE v # w
      <4>1. Sole(v) /\ AttemptsOk(v, workflow_status[v]) /\ workflow_status'[v] = workflow_status[v]
        BY <1>1, <1>2, <2>1, <3>3 DEF SoleInv
      <4>2. ~Runs(s, v)'
        BY <1>6, <3>3 DEF Runs
      <4>3. QED
        BY <3>1, <4>1, <4>2 DEF Sole, Status
    <3>4. QED
      BY <3>2, <3>3
  <2>2. ASSUME NEW p \in Parents, NEW n \in Positions(p), ChildOf[p][n] \notin disturbed
        PROVE  ToldOk(p, n)'
    <3>1. ChildOf[p][n] \in Workflows /\ ToldOk(p, n)
      BY <1>1, <2>2, Constants DEF SoleInv
    <3>2. CASE ChildOf[p][n] # w
      BY <1>2, <1>4, <3>1, <3>2 DEF ToldOk, Status
    <3>3. CASE ChildOf[p][n] = w
      BY <2>2, <3>1, <3>3 DEF ToldOk, Terminal
    <3>4. QED
      BY <3>2, <3>3
  <2>3. QED
    BY <2>1, <2>2 DEF SoleInv, AttemptsOk
<1>13. QED
  BY <1>8, <1>9, <1>10, <1>11, <1>12 DEF Inv

\* start_workflow without a parent: for a parent that has no row yet, or for a workflow that a
\* recovery takes off its list.
LEMMA StartInv ==
    ASSUME Inv, NEW w \in Workflows, NEW e \in Executors, NEW r \in BOOLEAN, StartWorkflow(w, e, r),
           w \in Registered[e], executor[e] # "down",
           UNCHANGED <<child_workflow_id, step_output, executor, observed, disturbed, used>>,
           ~r => w \in Parents /\ Status(w) = "ABSENT" /\ UNCHANGED recovering,
           r => w \in recovering[e] /\ recovering' = [recovering EXCEPT ![e] = @ \ {w}]
    PROVE  Inv'
<1>1. TypeOK /\ MapInv /\ TaskInv /\ RowInv /\ SoleInv
  BY DEF Inv
<1>2. r => Status(w) # "ABSENT"
  BY <1>1 DEF RowInv
<1>3. PICK i \in {0, 1} : i = IF r THEN 1 ELSE 0
  OBVIOUS
<1>4. PICK row : row = Upsert(w, e, i)
  OBVIOUS
<1>5. /\ row \in Row /\ row.executor_id = e
      /\ Status(w) = "ABSENT" => row.status = "PENDING" /\ row.recovery_attempts = 1
      /\ Status(w) # "ABSENT" =>
            /\ row.status = Status(w)
            /\ row.recovery_attempts = workflow_status[w].recovery_attempts + i
  BY <1>1, <1>4, UpsertOk
<1>6. /\ recovering' \in [Executors -> SUBSET Workflows]
      /\ \A d \in Executors : /\ recovering'[d] \subseteq recovering[d]
                              /\ \A v \in recovering[d] : v # w => v \in recovering'[d]
      /\ r => w \notin recovering'[e]
  <2>1. recovering \in [Executors -> SUBSET Workflows]
    BY <1>1 DEF TypeOK
  <2>2. CASE r
    <3>1. recovering' = [recovering EXCEPT ![e] = recovering[e] \ {w}]
      BY <2>2
    <3>2. QED
      BY <2>1, <3>1
  <2>3. CASE ~r
    BY <2>1, <2>3
  <2>4. QED
    BY <2>2, <2>3
<1>7. used' \in [Bounds -> Nat] /\ used' = used /\ task \in [Tasks -> Task] /\ MaxRetries[w] \in Nat
      /\ workflow_status[w] \in Row
  BY <1>1, ChildAssumption DEF TypeOK, Bounds
<1>8. workflow_status[w].recovery_attempts \in Nat /\ row.recovery_attempts \in Nat
  BY <1>5, <1>7 DEF Row
<1>9. w \notin disturbed =>
         /\ r => Status(w) = "PENDING" /\ workflow_status[w].executor_id = e
         /\ AttemptsOk(w, workflow_status[w])
         /\ \A t \in Tasks : ~Runs(t, w)
         /\ \A d \in Executors : w \notin recovering'[d]
  <2> SUFFICES ASSUME w \notin disturbed
               PROVE  /\ r => Status(w) = "PENDING" /\ workflow_status[w].executor_id = e
                      /\ AttemptsOk(w, workflow_status[w])
                      /\ \A t \in Tasks : ~Runs(t, w)
                      /\ \A d \in Executors : w \notin recovering'[d]
    OBVIOUS
  <2>1. Sole(w) /\ AttemptsOk(w, workflow_status[w])
    BY <1>1 DEF SoleInv
  <2>2. CASE r
    BY <1>6, <2>1, <2>2 DEF Sole
  <2>3. CASE ~r
    <3>1. Status(w) = "ABSENT"
      BY <2>3
    <3>2. \A t \in Tasks : ~Runs(t, w)
      BY <1>1, <3>1 DEF TaskInv, BodyOk, Runs
    <3>3. \A d \in Executors : w \notin recovering[d]
      BY <1>1, <3>1 DEF RowInv
    <3>4. QED
      BY <2>1, <2>3, <3>2, <3>3
  <2>4. QED
    BY <2>2, <2>3
<1>10. /\ child_workflow_id' = [p \in Parents |-> child_workflow_id'[p]]
       /\ \A p \in Parents : child_workflow_id'[p] \in [Positions(p) -> Children \cup {"none"}]
       /\ \A p \in Parents : \A n \in Positions(p) :
             child_workflow_id[p][n] # "none" => child_workflow_id'[p][n] = child_workflow_id[p][n]
  BY <1>1 DEF TypeOK
<1>11. CASE DeadLettered(w, row)
  <2>1. workflow_status' = [workflow_status EXCEPT ![w] = Bury(row)] /\ UNCHANGED task
    BY <1>3, <1>4, <1>11 DEF StartWorkflow
  <2>2. row.status # "ABSENT"
    BY <1>5
  <2>3. PICK b : b = Bury(row)
    OBVIOUS
  <2>4. /\ b \in Row /\ b.status \in Terminal /\ b.recovery_attempts = row.recovery_attempts
        /\ row.recovery_attempts >= 2 /\ MaxRetries[w] > 0 /\ row.recovery_attempts > MaxRetries[w] + 1
        /\ b.status = IF row.status = "PENDING" THEN "MAX_RECOVERY_ATTEMPTS_EXCEEDED" ELSE row.status
    BY <1>5, <1>11, <2>2, <2>3, BuryOk
  <2>5. Status(w) # "ABSENT" /\ r
    BY <1>5, <1>7, <2>4
  <2>6. w \notin disturbed => AttemptsOk(w, b) /\ Status(w) \notin Terminal
    <3> SUFFICES ASSUME w \notin disturbed PROVE AttemptsOk(w, b) /\ Status(w) \notin Terminal
      OBVIOUS
    <3>1. Status(w) = "PENDING" /\ AttemptsOk(w, workflow_status[w])
      BY <1>9, <2>5
    <3>2. workflow_status[w].recovery_attempts <= MaxRetries[w] + 1
      BY <2>4, <3>1 DEF AttemptsOk, Status
    <3>3. row.recovery_attempts = workflow_status[w].recovery_attempts + 1
      BY <1>3, <1>5, <2>5
    <3>4. b.recovery_attempts = MaxRetries[w] + 2
      BY <1>7, <1>8, <2>4, <3>2, <3>3
    <3>5. QED
      BY <1>5, <2>4, <3>1, <3>4 DEF AttemptsOk, Terminal
  <2>7. (\A s \in Tasks : Alike(s)) /\ \A s \in Tasks : task'[s] = task[s]
    BY <2>1 DEF Alike
  <2>8. disturbed' = disturbed /\ disturbed \subseteq Workflows
    BY <1>1 DEF TypeOK
  <2>9. task' \in [Tasks -> Task] /\ used'["panics"] = used["panics"]
    BY <1>7, <2>1
  <2>10. b.status = "MAX_RECOVERY_ATTEMPTS_EXCEEDED" => b.recovery_attempts >= 2
    BY <2>4
  <2>11. workflow_status' = [workflow_status EXCEPT ![w] = b]
    BY <2>1, <2>3
  <2>12. MapInv'
    BY <1>1, <1>7, <2>4, <2>5, <2>11, Constants, MapKept DEF Status, TypeOK, Terminal
  <2>13. EndStep(w, b)
    BY <1>6, <1>7, <1>9, <1>10, <2>4, <2>5, <2>6, <2>7, <2>8, <2>9, <2>10, <2>11 DEF EndStep
  <2>14. QED
    BY <2>4, <2>7, <2>12, <2>13, RowEnds
<1>12. CASE ~DeadLettered(w, row) /\ ShouldSkip(w, r)
  <2>1. workflow_status' = [workflow_status EXCEPT ![w] = row] /\ UNCHANGED task
    BY <1>3, <1>4, <1>12 DEF StartWorkflow
  <2>2. Status(w) \in {"SUCCESS", "ERROR"}
    BY <1>2, <1>12 DEF ShouldSkip, Status
  <2>3. Status(w) # "ABSENT" /\ row.status \in Terminal /\ row.status # "MAX_RECOVERY_ATTEMPTS_EXCEEDED"
    BY <1>5, <2>2 DEF Terminal, Statuses
  <2>4. w \in disturbed
    BY <1>9, <2>2
  <2>5. (\A s \in Tasks : Alike(s)) /\ \A s \in Tasks : task'[s] = task[s]
    BY <2>1 DEF Alike
  <2>6. disturbed' = disturbed /\ disturbed \subseteq Workflows
    BY <1>1 DEF TypeOK
  <2>7. task' \in [Tasks -> Task] /\ used'["panics"] = used["panics"]
    BY <1>7, <2>1
  <2>8. MapInv'
    BY <1>1, <1>7, <2>1, <2>3, Constants, MapKept DEF Status, TypeOK, Terminal
  <2>9. EndStep(w, row)
    BY <1>5, <1>6, <1>7, <1>10, <2>1, <2>3, <2>4, <2>5, <2>6, <2>7 DEF EndStep
  <2>10. QED
    BY <1>5, <2>5, <2>8, <2>9, RowEnds
<1>13. CASE ~DeadLettered(w, row) /\ ~ShouldSkip(w, r)
  <2>1. PICK s \in FreeTasks : task' = [task EXCEPT ![s] = FreshTask(w, e)]
    BY <1>3, <1>4, <1>13 DEF StartWorkflow
  <2>2. workflow_status' = [workflow_status EXCEPT ![w] = row]
    BY <1>3, <1>4, <1>13 DEF StartWorkflow
  <2>3. s \in Tasks /\ task[s].at = "idle"
    BY DEF FreeTasks
  <2>4. FreshTask(w, e) \in Task
    BY FreshOk
  <2>5. /\ task' \in [Tasks -> Task] /\ task'[s] = FreshTask(w, e)
        /\ \A u \in Tasks : u # s => task'[u] = task[u]
    BY <1>7, <2>1, <2>3, <2>4
  <2>6. /\ \A u \in Tasks : u # s => Alike(u)
        /\ \A u \in Tasks : u # s => \/ task'[u] = task[u]
                                     \/ BodyOk(task[u])' /\ HandleOk(task[u])'
    BY <2>5 DEF Alike
  <2>7. row.status = IF Status(w) = "ABSENT" THEN "PENDING" ELSE Status(w)
    BY <1>5
  <2>8. row.status = "MAX_RECOVERY_ATTEMPTS_EXCEEDED" => row.recovery_attempts >= 2
    <3>1. Status(w) = "MAX_RECOVERY_ATTEMPTS_EXCEEDED" => workflow_status[w].recovery_attempts >= 2
      BY <1>1 DEF RowInv
    <3>2. QED
      BY <1>5, <1>8, <3>1
  <2>9. w \notin disturbed => AttemptsOk(w, row) /\ Status(w) \in {"ABSENT", "PENDING"}
    <3> SUFFICES ASSUME w \notin disturbed PROVE AttemptsOk(w, row) /\ Status(w) \in {"ABSENT", "PENDING"}
      OBVIOUS
    <3>1. Status(w) \in {"ABSENT", "PENDING"} /\ row.status = "PENDING"
      BY <1>5, <1>9
    <3>2. MaxRetries[w] > 0 => row.recovery_attempts <= MaxRetries[w] + 1
      BY <1>7, <1>8, <1>13, <3>1 DEF DeadLettered
    <3>3. QED
      BY <3>1, <3>2 DEF AttemptsOk
  <2>10. MapInv'
    BY <1>1, <1>2, <2>2, <1>5, <1>7, Constants, MapKept DEF Status, TypeOK
  <2>11. w \notin disturbed =>
            /\ AttemptsOk(w, row) /\ Status(w) \in {"ABSENT", "PENDING"}
            /\ \A t \in Tasks : ~Runs(t, w)
            /\ \A d \in Executors : w \notin recovering'[d]
    BY <1>9, <2>9
  <2>12. UNCHANGED <<step_output, executor, observed, disturbed, used>> /\ row \in Row /\ row.executor_id = e
    BY <1>5
  <2>13. QED
    <3>1. SpawnStep(w, e, row, s)
      BY <1>6, <2>2, <2>3, <2>5, <2>6, <1>10, <2>7, <2>8, <2>11, <2>12 DEF SpawnStep
    <3>2. QED
      BY <2>3, <2>6, <2>10, <2>12, <3>1, Spawn
<1>14. QED
  BY <1>11, <1>12, <1>13

LEMMA RunWorkflowInv ==
    ASSUME Inv, NEW e \in Executors, NEW p \in Parents, run_workflow(e, p)
    PROVE  Inv'
<1>1. p \in Workflows
  BY Constants
<1>2. /\ StartWorkflow(p, e, FALSE) /\ p \in Registered[e] /\ executor[e] # "down" /\ Status(p) = "ABSENT"
      /\ UNCHANGED <<child_workflow_id, step_output, executor, recovering, observed, disturbed, used>>
  BY DEF run_workflow, Status
<1>3. QED
  BY <1>1, <1>2, StartInv

----
(* The invariant: launches, recovery and requests. *)

\* Executors and lists change, rows and tasks do not.
LEMMA ListStep ==
    ASSUME Inv, UNCHANGED <<tables, task, observed>>,
           executor' \in [Executors -> {"down", "launching", "up"}],
           recovering' \in [Executors -> SUBSET Workflows], used' \in [Bounds -> Nat],
           \A e \in Executors : executor[e] # "down" => executor'[e] # "down",
           \A e \in Executors : /\ \A w \in recovering'[e] : Status(w) # "ABSENT"
                                /\ executor'[e] = "down" => recovering'[e] = {},
           CoverInv', disturbed \subseteq disturbed', disturbed' \subseteq Workflows,
           \A e \in Executors : \A w \in recovering'[e] : w \notin disturbed' =>
              /\ executor'[e] = "launching" /\ Status(w) = "PENDING"
              /\ workflow_status[w].executor_id = e
              /\ \A t \in Tasks : ~Runs(t, w)
    PROVE  Inv'
<1>1. TypeOK /\ MapInv /\ TaskInv /\ RowInv /\ SoleInv
  BY DEF Inv
<1>2. UNCHANGED <<workflow_status, child_workflow_id, step_output, task, observed>>
  BY DEF tables
<1>3. TypeOK'
  BY <1>1, <1>2 DEF TypeOK, Bounds
<1>4. MapInv'
  BY <1>1, <1>2, MapKept DEF Status
<1>5. TaskInv'
  <2>1. ASSUME NEW t \in Tasks PROVE BodyOk(task[t])' /\ HandleOk(task[t])'
    <3>1. BodyOk(task[t]) /\ HandleOk(task[t])
      BY <1>1 DEF TaskInv
    <3>2. task[t].at # "idle" => executor'[task[t].on] # "down"
      BY <3>1 DEF BodyOk
    <3>3. QED
      BY <1>2, <3>1, <3>2 DEF BodyOk, ParentOk, HandleOk, Status
  <2>2. QED
    BY <2>1 DEF TaskInv
<1>6. RowInv'
  BY <1>1, <1>2 DEF RowInv, Status
<1>7. SoleInv'
  <2>1. ASSUME NEW v \in Workflows, v \notin disturbed'
        PROVE  Sole(v)' /\ AttemptsOk(v, workflow_status'[v])
    <3>1. Sole(v) /\ AttemptsOk(v, workflow_status[v])
      BY <1>1, <2>1 DEF SoleInv
    <3>2. QED
      BY <1>2, <2>1, <3>1 DEF Sole, Runs, Status
  <2>2. ASSUME NEW p \in Parents, NEW n \in Positions(p), ChildOf[p][n] \notin disturbed'
        PROVE  ToldOk(p, n)'
    BY <1>1, <1>2, <2>2 DEF SoleInv, ToldOk, Status
  <2>3. QED
    BY <2>1, <2>2 DEF SoleInv, AttemptsOk
<1>8. QED
  BY <1>3, <1>4, <1>5, <1>6, <1>7 DEF Inv

LEMMA RecoverOneInv ==
    ASSUME Inv, NEW e \in Executors, RecoverOne(e)
    PROVE  Inv'
<1>1. TypeOK /\ RowInv /\ CoverInv /\ SoleInv
  BY DEF Inv
<1>2. PICK w \in recovering[e] :
         /\ recovering' = [recovering EXCEPT ![e] = @ \ {w}]
         /\ IF w \in Registered[e] THEN StartWorkflow(w, e, TRUE) ELSE UNCHANGED <<workflow_status, task>>
         /\ UNCHANGED <<child_workflow_id, step_output, executor, observed, disturbed, used>>
  BY DEF RecoverOne
<1>3. w \in Workflows /\ executor[e] # "down"
  BY <1>1 DEF TypeOK, RowInv
<1>4. CASE w \in Registered[e]
  BY <1>2, <1>3, <1>4, StartInv
<1>5. CASE w \notin Registered[e]
  <2>1. UNCHANGED <<tables, task, observed, executor, disturbed, used>>
    BY <1>2, <1>5 DEF tables
  <2>2. /\ recovering' \in [Executors -> SUBSET Workflows]
        /\ \A d \in Executors : recovering'[d] \subseteq recovering[d]
        /\ \A d \in Executors : \A v \in recovering[d] : v \notin recovering'[d] => d = e /\ v = w
    BY <1>1, <1>2 DEF TypeOK
  <2>3. CoverInv'
    <3> SUFFICES ASSUME used["panics"] = 0, NEW v \in Workflows, Status(v)' = "PENDING" PROVE Covered(v)'
      BY <2>1 DEF CoverInv
    <3>1. UNCHANGED <<workflow_status, task, executor>> /\ Status(v) = "PENDING" /\ Covered(v)
      BY <1>1, <2>1 DEF CoverInv, Status, tables
    <3>2. workflow_status[v].executor_id \in Executors /\ v \in Registered[workflow_status[v].executor_id]
      BY <1>1, <3>1 DEF RowInv
    <3>3. v \in recovering[workflow_status[v].executor_id] => v \in recovering'[workflow_status[v].executor_id]
      BY <1>5, <2>2, <3>2
    <3>4. QED
      BY <3>1, <3>3 DEF Covered
  <2>4. \A d \in Executors : \A v \in recovering'[d] : v \notin disturbed' =>
           /\ executor'[d] = "launching" /\ Status(v) = "PENDING"
           /\ workflow_status[v].executor_id = d
           /\ \A t \in Tasks : ~Runs(t, v)
    BY <1>1, <2>1, <2>2 DEF SoleInv, Sole, TypeOK
  <2>5. /\ executor' \in [Executors -> {"down", "launching", "up"}] /\ used' \in [Bounds -> Nat]
        /\ disturbed \subseteq disturbed' /\ disturbed' \subseteq Workflows
    BY <1>1, <2>1 DEF TypeOK, Bounds
  <2>6. \A d \in Executors : /\ \A v \in recovering'[d] : Status(v) # "ABSENT"
                             /\ executor'[d] = "down" => recovering'[d] = {}
    BY <1>1, <2>1, <2>2 DEF RowInv
  <2>7. QED
    BY <2>1, <2>2, <2>3, <2>4, <2>5, <2>6, ListStep
<1>6. QED
  BY <1>4, <1>5

LEMMA LaunchInv ==
    ASSUME Inv, NEW e \in Executors, Launch(e)
    PROVE  Inv'
<1>1. TypeOK /\ TaskInv /\ RowInv /\ CoverInv /\ SoleInv
  BY DEF Inv
<1>2. /\ executor[e] = "down" /\ executor' = [executor EXCEPT ![e] = "launching"]
      /\ recovering' = [recovering EXCEPT ![e] = list_pending_for_recovery(e)]
      /\ UNCHANGED <<tables, task, observed, disturbed, used>> /\ workflow_status' = workflow_status
  BY DEF Launch, tables
<1>3. PICK list : list = list_pending_for_recovery(e)
  OBVIOUS
<1>4. /\ list \subseteq Workflows
      /\ \A w \in Workflows : w \in list <=> Status(w) = "PENDING" /\ workflow_status[w].executor_id = e
  BY <1>3 DEF list_pending_for_recovery, Status
<1>5. /\ executor' \in [Executors -> {"down", "launching", "up"}]
      /\ executor'[e] = "launching" /\ \A d \in Executors : d # e => executor'[d] = executor[d]
      /\ recovering' \in [Executors -> SUBSET Workflows]
      /\ recovering'[e] = list /\ \A d \in Executors : d # e => recovering'[d] = recovering[d]
      /\ used' \in [Bounds -> Nat]
  BY <1>1, <1>2, <1>3, <1>4 DEF TypeOK, Bounds
<1>6. CoverInv'
  <2> SUFFICES ASSUME used["panics"] = 0, NEW v \in Workflows, Status(v)' = "PENDING" PROVE Covered(v)'
    BY <1>2 DEF CoverInv
  <2>1. Status(v) = "PENDING" /\ Covered(v) /\ workflow_status[v].executor_id \in Executors
    BY <1>1, <1>2 DEF CoverInv, Status, RowInv
  <2>2. CASE workflow_status[v].executor_id = e
    BY <1>2, <1>4, <1>5, <2>1, <2>2 DEF Covered
  <2>3. CASE workflow_status[v].executor_id # e
    BY <1>2, <1>5, <2>1, <2>3 DEF Covered
  <2>4. QED
    BY <2>2, <2>3
<1>7. \A d \in Executors : /\ \A w \in recovering'[d] : Status(w) # "ABSENT"
                           /\ executor'[d] = "down" => recovering'[d] = {}
  BY <1>1, <1>4, <1>5 DEF RowInv
<1>8. ASSUME NEW d \in Executors, NEW v \in recovering'[d], v \notin disturbed'
      PROVE  /\ executor'[d] = "launching" /\ Status(v) = "PENDING"
             /\ workflow_status[v].executor_id = d
             /\ \A t \in Tasks : ~Runs(t, v)
  <2>1. Sole(v)
    BY <1>1, <1>2, <1>5, <1>8 DEF SoleInv
  <2>2. CASE d # e
    BY <1>5, <1>8, <2>1, <2>2 DEF Sole
  <2>3. CASE d = e
    <3>1. Status(v) = "PENDING" /\ workflow_status[v].executor_id = e
      BY <1>4, <1>5, <1>8, <2>3
    <3>2. \A t \in Tasks : task[t].at # "idle" => task[t].on # e
      BY <1>1, <1>2 DEF TaskInv, BodyOk
    <3>3. \A t \in Tasks : ~Runs(t, v)
      BY <2>1, <3>1, <3>2 DEF Sole, Runs
    <3>4. QED
      BY <1>5, <2>3, <3>1, <3>3
  <2>4. QED
    BY <2>2, <2>3
<1>9. \A d \in Executors : executor[d] # "down" => executor'[d] # "down"
  BY <1>2, <1>5
<1>10. disturbed \subseteq disturbed' /\ disturbed' \subseteq Workflows
  BY <1>1, <1>2 DEF TypeOK
<1>11. QED
  BY <1>2, <1>5, <1>6, <1>7, <1>8, <1>9, <1>10, ListStep

LEMMA FinishLaunchInv ==
    ASSUME Inv, NEW e \in Executors, FinishLaunch(e)
    PROVE  Inv'
<1>1. TypeOK /\ RowInv /\ CoverInv /\ SoleInv
  BY DEF Inv
<1>2. /\ executor[e] = "launching" /\ recovering[e] = {} /\ executor' = [executor EXCEPT ![e] = "up"]
      /\ UNCHANGED <<tables, recovering, task, observed, disturbed, used>> /\ workflow_status' = workflow_status
  BY DEF FinishLaunch, tables
<1>3. /\ executor' \in [Executors -> {"down", "launching", "up"}]
      /\ executor'[e] = "up" /\ \A d \in Executors : d # e => executor'[d] = executor[d]
      /\ recovering' \in [Executors -> SUBSET Workflows] /\ used' \in [Bounds -> Nat]
  BY <1>1, <1>2 DEF TypeOK, Bounds
<1>4. CoverInv'
  <2> SUFFICES ASSUME used["panics"] = 0, NEW v \in Workflows, Status(v)' = "PENDING" PROVE Covered(v)'
    BY <1>2 DEF CoverInv
  <2>1. Status(v) = "PENDING" /\ Covered(v) /\ workflow_status[v].executor_id \in Executors
    BY <1>1, <1>2 DEF CoverInv, Status, RowInv
  <2>2. QED
    BY <1>2, <1>3, <2>1 DEF Covered
<1>5. \A d \in Executors : /\ \A w \in recovering'[d] : Status(w) # "ABSENT"
                           /\ executor'[d] = "down" => recovering'[d] = {}
  BY <1>1, <1>2, <1>3 DEF RowInv
<1>6. \A d \in Executors : \A v \in recovering'[d] : v \notin disturbed' =>
         /\ executor'[d] = "launching" /\ Status(v) = "PENDING"
         /\ workflow_status[v].executor_id = d
         /\ \A t \in Tasks : ~Runs(t, v)
  BY <1>1, <1>2, <1>3 DEF SoleInv, Sole, TypeOK
<1>7. \A d \in Executors : executor[d] # "down" => executor'[d] # "down"
  BY <1>2, <1>3
<1>8. disturbed \subseteq disturbed' /\ disturbed' \subseteq Workflows
  BY <1>1, <1>2 DEF TypeOK
<1>9. QED
  BY <1>2, <1>3, <1>4, <1>5, <1>6, <1>7, <1>8, ListStep

\* Using up a bound leaves the others alone.
LEMMA SpendOk ==
    ASSUME TypeOK, NEW b \in Bounds, NEW max, Spend(b, max)
    PROVE  /\ used' \in [Bounds -> Nat] /\ used'[b] > 0
           /\ \A c \in Bounds : c # b => used'[c] = used[c]
           /\ \A c \in Bounds : used'[c] = 0 => used[c] = 0
BY DEF TypeOK, Spend, Bounds

LEMMA RecoverRequestInv ==
    ASSUME Inv, NEW e \in Executors, NEW d \in Executors, RecoverRequest(e, d)
    PROVE  Inv'
<1>1. TypeOK /\ RowInv /\ CoverInv /\ SoleInv
  BY DEF Inv
<1>2. /\ executor[e] = "up" /\ Spend("recoveries", MaxRecoveries)
      /\ recovering' = [recovering EXCEPT ![e] = list_pending_for_recovery(d)]
      /\ disturbed' = disturbed \cup list_pending_for_recovery(d)
      /\ UNCHANGED <<tables, executor, task, observed>> /\ workflow_status' = workflow_status
  BY DEF RecoverRequest, tables
<1>3. used' \in [Bounds -> Nat] /\ used'["recoveries"] > 0 /\ used'["panics"] = used["panics"]
  BY <1>1, <1>2, SpendOk DEF Bounds
<1>4. PICK list : list = list_pending_for_recovery(d)
  OBVIOUS
<1>5. list \subseteq Workflows /\ \A w \in list : Status(w) # "ABSENT"
  BY <1>4 DEF list_pending_for_recovery, Status
<1>6. /\ recovering' \in [Executors -> SUBSET Workflows] /\ recovering'[e] = list
      /\ \A x \in Executors : x # e => recovering'[x] = recovering[x]
      /\ executor' \in [Executors -> {"down", "launching", "up"}]
  BY <1>1, <1>2, <1>4, <1>5 DEF TypeOK
<1>7. CoverInv'
  <2> SUFFICES ASSUME used["panics"] = 0, NEW v \in Workflows, Status(v)' = "PENDING" PROVE Covered(v)'
    BY <1>3 DEF CoverInv
  <2>1. Status(v) = "PENDING" /\ Covered(v) /\ workflow_status[v].executor_id \in Executors
    BY <1>1, <1>2 DEF CoverInv, Status, RowInv
  <2>2. QED
    BY <1>2, <1>6, <2>1 DEF Covered
<1>8. \A x \in Executors : /\ \A w \in recovering'[x] : Status(w) # "ABSENT"
                           /\ executor'[x] = "down" => recovering'[x] = {}
  BY <1>1, <1>2, <1>5, <1>6 DEF RowInv
<1>9. ASSUME NEW x \in Executors, NEW v \in recovering'[x], v \notin disturbed'
      PROVE  /\ executor'[x] = "launching" /\ Status(v) = "PENDING"
             /\ workflow_status[v].executor_id = x
             /\ \A t \in Tasks : ~Runs(t, v)
  <2>1. v \notin list /\ v \notin disturbed /\ v \in Workflows
    BY <1>2, <1>4, <1>6, <1>9
  <2>2. x # e /\ v \in recovering[x] /\ Sole(v)
    BY <1>1, <1>6, <1>9, <2>1 DEF SoleInv
  <2>3. QED
    BY <1>2, <2>2 DEF Sole
<1>10. disturbed \subseteq disturbed' /\ disturbed' \subseteq Workflows
  BY <1>1, <1>2, <1>4, <1>5 DEF TypeOK
<1>11. QED
  BY <1>2, <1>3, <1>6, <1>7, <1>8, <1>9, <1>10, ListStep

LEMMA CancelInv ==
    ASSUME Inv, NEW w \in Workflows, cancel_workflows(w)
    PROVE  Inv'
<1>1. TypeOK /\ MapInv
  BY DEF Inv
<1>2. /\ Status(w) # "ABSENT" /\ Spend("cancels", MaxCancels)
      /\ workflow_status' = [workflow_status EXCEPT ![w].status = "CANCELLED"]
      /\ disturbed' = disturbed \cup {w}
      /\ UNCHANGED <<child_workflow_id, step_output, executor, recovering, task, observed>>
  BY DEF cancel_workflows, Status
<1>3. PICK row : row = [workflow_status[w] EXCEPT !.status = "CANCELLED"]
  OBVIOUS
<1>4. row \in Row /\ row.status = "CANCELLED" /\ row.status \in Terminal
  <2>1. PICK r \in Row : r = workflow_status[w]
    BY <1>1 DEF TypeOK
  <2>2. row = [r EXCEPT !.status = "CANCELLED"]
    BY <1>3, <2>1
  <2>3. QED
    BY <2>2 DEF Row, Terminal, Statuses
<1>5. workflow_status' = [workflow_status EXCEPT ![w] = row]
  BY <1>2, <1>3
<1>6. /\ used' \in [Bounds -> Nat] /\ used'["panics"] = used["panics"]
      /\ disturbed \subseteq disturbed' /\ disturbed' \subseteq Workflows /\ w \in disturbed'
  BY <1>1, <1>2, SpendOk DEF Bounds, TypeOK
<1>7. MapInv'
  BY <1>1, <1>2, <1>4, <1>5, Constants, MapKept DEF Status, TypeOK
<1>8. (\A s \in Tasks : Alike(s)) /\ \A s \in Tasks : task'[s] = task[s]
  BY <1>2 DEF Alike
<1>9. EndStep(w, row)
  BY <1>1, <1>2, <1>4, <1>5, <1>6, <1>8 DEF EndStep, TypeOK
<1>10. QED
  BY <1>4, <1>7, <1>8, <1>9, RowEnds

----
(* The invariant: a parent starts a child. *)

\* The mapping of the next position is made, together with the row of its child.
LEMMA MapRecorded ==
    ASSUME TypeOK, MapInv, NEW p \in Parents, NEW n \in Positions(p),
           record_child_workflow(p, n, ChildOf[p][n]),
           \A m \in Positions(p) : m < n => child_workflow_id[p][m] # "none",
           \A w \in Workflows : Status(w) # "ABSENT" => Status(w)' # "ABSENT",
           Status(ChildOf[p][n])' # "ABSENT",
           \A d \in Children : d # ChildOf[p][n] /\ Status(d) = "ABSENT" => Status(d)' = "ABSENT"
    PROVE  /\ MapInv'
           /\ child_workflow_id' = [q \in Parents |-> child_workflow_id'[q]]
           /\ \A q \in Parents : child_workflow_id'[q] \in [Positions(q) -> Children \cup {"none"}]
           /\ \A q \in Parents : \A m \in Positions(q) :
                 child_workflow_id[q][m] # "none" => child_workflow_id'[q][m] = child_workflow_id[q][m]
           /\ child_workflow_id'[p][n] # "none"
<1>1. PICK c \in Children : c = ChildOf[p][n]
  BY Constants
<1>2. /\ child_workflow_id[p][n] = "none"
      /\ child_workflow_id' = [child_workflow_id EXCEPT ![p] = [child_workflow_id[p] EXCEPT ![n] = c]]
  BY <1>1 DEF record_child_workflow
<1>3. /\ child_workflow_id = [q \in Parents |-> child_workflow_id[q]]
      /\ \A q \in Parents : child_workflow_id[q] \in [Positions(q) -> Children \cup {"none"}]
  BY DEF TypeOK
<1>4. \A q \in Parents : child_workflow_id'[q] = IF q = p THEN [child_workflow_id[p] EXCEPT ![n] = c]
                                                 ELSE child_workflow_id[q]
  BY <1>2, <1>3
<1>5. child_workflow_id' = [q \in Parents |-> child_workflow_id'[q]]
  BY <1>2, <1>3
<1>6. [child_workflow_id[p] EXCEPT ![n] = c] \in [Positions(p) -> Children \cup {"none"}]
  BY <1>3
<1>7. \A q \in Parents : child_workflow_id'[q] \in [Positions(q) -> Children \cup {"none"}]
  BY <1>3, <1>4, <1>6
<1>8. c # "none" /\ c \in Workflows
  BY Constants
<1>9. /\ child_workflow_id'[p][n] = c
      /\ \A q \in Parents : \A m \in Positions(q) :
            (q # p \/ m # n) => child_workflow_id'[q][m] = child_workflow_id[q][m]
  BY <1>3, <1>4
<1>10. \A q \in Parents : \A m \in Positions(q) :
          child_workflow_id[q][m] # "none" => child_workflow_id'[q][m] = child_workflow_id[q][m]
  BY <1>2, <1>9
<1>11. MapInv'
  <2>1. ASSUME NEW q \in Parents, NEW m \in Positions(q), child_workflow_id'[q][m] # "none"
        PROVE  /\ child_workflow_id'[q][m] = ChildOf[q][m]
               /\ Status(ChildOf[q][m])' # "ABSENT"
               /\ \A i \in Positions(q) : i < m => child_workflow_id'[q][i] # "none"
    <3>1. CASE q = p /\ m = n
      BY <1>1, <1>9, <1>10, <3>1
    <3>2. CASE q # p \/ m # n
      <4>1. child_workflow_id[q][m] # "none" /\ child_workflow_id'[q][m] = child_workflow_id[q][m]
        BY <1>9, <2>1, <3>2
      <4>2. ChildOf[q][m] \in Workflows
        BY Constants
      <4>3. QED
        BY <1>10, <4>1, <4>2 DEF MapInv
    <3>3. QED
      BY <3>1, <3>2
  <2>2. ASSUME NEW d \in Children, Status(d)' # "ABSENT"
        PROVE  \E q \in Parents : \E m \in Positions(q) : child_workflow_id'[q][m] = d
    <3>1. CASE d = c
      BY <1>9, <3>1
    <3>2. CASE d # c
      <4>1. PICK q \in Parents : \E m \in Positions(q) : child_workflow_id[q][m] = d
        BY <1>1, <2>2, <3>2 DEF MapInv
      <4>2. PICK m \in Positions(q) : child_workflow_id[q][m] = d
        BY <4>1
      <4>3. d # "none"
        BY Constants
      <4>4. child_workflow_id'[q][m] = d
        BY <1>10, <4>2, <4>3
      <4>5. QED
        BY <4>4
    <3>3. QED
      BY <3>1, <3>2
  <2>3. QED
    BY <2>1, <2>2 DEF MapInv
<1>12. QED
  BY <1>5, <1>7, <1>8, <1>9, <1>10, <1>11

\* A parent that was about to start its child has a handle to it, or has failed.
LEMMA StartedOk ==
    ASSUME NEW r \in Task, BodyOk(r)', r.at = "start", r.wf \in Parents, NEW k \in Task,
           k.wf = r.wf, k.on = r.on, k.n = r.n,
           k.at \in {"await", "poll", "outcome"}, k.at # "await" => k.rx = 0,
           k.at # "outcome" => child_workflow_id'[k.wf][k.n] # "none"
    PROVE  BodyOk(k)'
<1>1. ParentOk(r)'
  BY DEF BodyOk
<1>2. ParentOk(k)'
  BY <1>1 DEF ParentOk
<1>3. QED
  BY <1>2, Constants DEF BodyOk

\* start_workflow leaves the row of an ended child as it was, but for its executor: it ends again.
LEMMA EndedAgain ==
    ASSUME Inv, NEW c \in Children, NEW row \in Row, Status(c) # "ABSENT",
           row.recovery_attempts = workflow_status[c].recovery_attempts,
           row.status \in Terminal, c \notin disturbed => row.status = Status(c),
           row.status # Status(c) => row.recovery_attempts >= 2,
           workflow_status' = [workflow_status EXCEPT ![c] = row],
           UNCHANGED <<step_output, executor, recovering, observed, disturbed, used>>,
           MapInv',
           child_workflow_id' = [p \in Parents |-> child_workflow_id'[p]],
           \A p \in Parents : child_workflow_id'[p] \in [Positions(p) -> Children \cup {"none"}],
           \A p \in Parents : \A n \in Positions(p) :
              child_workflow_id[p][n] # "none" => child_workflow_id'[p][n] = child_workflow_id[p][n],
           NEW t \in Tasks, task[t].at = "start", NEW k \in Task, task' = [task EXCEPT ![t] = k],
           k.wf = task[t].wf, k.on = task[t].on, k.n = task[t].n, k.rx = 0,
           k.at \in {"poll", "outcome"}, k.at = "poll" => child_workflow_id'[k.wf][k.n] # "none"
    PROVE  Inv'
<1>1. TypeOK /\ RowInv /\ SoleInv
  BY DEF Inv
<1>2. c \in Workflows
  BY Constants
<1>3. /\ task' \in [Tasks -> Task] /\ task'[t] = k /\ \A s \in Tasks : s # t => task'[s] = task[s]
  BY <1>1 DEF TypeOK
<1>4. \A s \in Tasks : Alike(s)
  BY <1>3 DEF Alike
<1>5. PICK r \in Task : r = task[t] /\ BodyOk(r) /\ r.wf \in Parents
  BY RunningTask
<1>6. /\ workflow_status'[c] = row
      /\ \A v \in Workflows : v # c => workflow_status'[v] = workflow_status[v]
  BY <1>1, <1>2 DEF TypeOK
<1>7. Grows
  BY <1>6 DEF Grows, Status, Terminal
<1>8. BodyOk(r)'
  BY <1>5, <1>7, BodyGrows DEF BodyOk
<1>9. BodyOk(k)'
  BY <1>5, <1>8, StartedOk
<1>10. \A s \in Tasks : task'[s] = task[s] \/ (task'[s].at # "await" /\ BodyOk(task[s])')
  BY <1>3, <1>9 DEF BodyOk, ParentOk, Status
<1>11. row.status = "MAX_RECOVERY_ATTEMPTS_EXCEEDED" => row.recovery_attempts >= 2
  <2>1. CASE row.status = Status(c)
    BY <1>1, <1>2, <2>1 DEF RowInv
  <2>2. CASE row.status # Status(c)
    BY <2>2
  <2>3. QED
    BY <2>1, <2>2
<1>12. c \notin disturbed =>
          /\ AttemptsOk(c, row)
          /\ \A s \in Tasks : ~Runs(s, c)
          /\ \A e \in Executors : c \notin recovering[e]
          /\ AwaitOutcome(row) = AwaitOutcome(workflow_status[c])
  <2> SUFFICES ASSUME c \notin disturbed
               PROVE  /\ AttemptsOk(c, row)
                      /\ \A s \in Tasks : ~Runs(s, c)
                      /\ \A e \in Executors : c \notin recovering[e]
                      /\ AwaitOutcome(row) = AwaitOutcome(workflow_status[c])
    OBVIOUS
  <2>1. Sole(c) /\ AttemptsOk(c, workflow_status[c])
    BY <1>1, <1>2 DEF SoleInv
  <2>2. row.status = workflow_status[c].status /\ row.status # "PENDING"
    BY DEF Status, Terminal
  <2>3. AttemptsOk(c, row)
    BY <2>1, <2>2 DEF AttemptsOk
  <2>4. AwaitOutcome(row) = AwaitOutcome(workflow_status[c])
    BY <2>2 DEF AwaitOutcome
  <2>5. QED
    BY <2>1, <2>2, <2>3, <2>4 DEF Sole, Status
<1>13. used' \in [Bounds -> Nat] /\ recovering' \in [Executors -> SUBSET Workflows]
       /\ disturbed' = disturbed /\ disturbed \subseteq Workflows
  BY <1>1 DEF TypeOK, Bounds
<1>14. EndStep(c, row)
  BY <1>3, <1>4, <1>11, <1>12, <1>13 DEF EndStep
<1>15. QED
  BY <1>2, <1>10, <1>14, RowEnds

LEMMA StartChildInv ==
    ASSUME OwnChildren, Inv, NEW t \in Tasks, StartChild(t)
    PROVE  Inv'
<1>1. TypeOK /\ MapInv /\ TaskInv /\ RowInv /\ SoleInv
  BY DEF Inv
<1>2. task[t].at = "start"
  BY DEF StartChild
<1>3. PICK r \in Task : r = task[t] /\ BodyOk(r) /\ ParentOk(r)
                        /\ r.wf \in Parents /\ r.on \in Executors /\ r.rx = 0
                        /\ r.n \in Positions(r.wf) /\ ChildOf[r.wf][r.n] \in Children
  BY <1>2, RunningTask
<1>4. PICK p, n, c, e : /\ p = r.wf /\ n = r.n /\ c = ChildOf[p][n] /\ e = r.on
                        /\ p \in Parents /\ n \in Positions(p) /\ c \in Children /\ e \in Executors
  BY <1>3
<1>5. PICK row : row = Upsert(c, e, 0)
  OBVIOUS
<1>6. c \in Workflows
  BY <1>4, Constants
<1>7. /\ row \in Row /\ row.executor_id = e
      /\ Status(c) = "ABSENT" => row.status = "PENDING" /\ row.recovery_attempts = 1
      /\ Status(c) # "ABSENT" => /\ row.status = Status(c)
                                 /\ row.recovery_attempts = workflow_status[c].recovery_attempts
  <2>1. workflow_status[c].recovery_attempts \in Nat
    BY <1>1, <1>6 DEF TypeOK, Row
  <2>2. QED
    BY <1>4, <1>1, <1>5, <1>6, <2>1, UpsertOk
<1>8. MaxRetries[c] \in Nat /\ row.recovery_attempts \in Nat
  BY <1>6, <1>7, ChildAssumption DEF Row
<1>9. UNCHANGED <<step_output, executor, recovering, observed, disturbed, used>>
  BY DEF StartChild
<1>10. \A m \in Positions(p) : m < n => child_workflow_id[p][m] # "none"
  BY <1>3, <1>4 DEF ParentOk
<1>11. CASE Fail(t) /\ UNCHANGED <<workflow_status, child_workflow_id>>
  BY <1>2, <1>9, <1>11, FailInv
<1>12. CASE /\ DeadLettered(c, row) /\ workflow_status' = [workflow_status EXCEPT ![c] = Bury(row)]
            /\ Fail(t) /\ UNCHANGED child_workflow_id
  <2>1. row.status # "ABSENT"
    BY <1>7
  <2>2. PICK b : b = Bury(row)
    OBVIOUS
  <2>3. /\ b \in Row /\ b.status \in Terminal /\ b.recovery_attempts = row.recovery_attempts
        /\ row.recovery_attempts >= 2 /\ MaxRetries[c] > 0 /\ row.recovery_attempts > MaxRetries[c] + 1
        /\ b.status = IF row.status = "PENDING" THEN "MAX_RECOVERY_ATTEMPTS_EXCEEDED" ELSE row.status
    BY <1>6, <1>7, <1>12, <2>1, <2>2, BuryOk
  <2>4. Status(c) # "ABSENT"
    BY <1>7, <1>8, <2>3
  <2>5. c \notin disturbed => b.status = Status(c)
    <3> SUFFICES ASSUME c \notin disturbed PROVE b.status = Status(c)
      OBVIOUS
    <3>1. AttemptsOk(c, workflow_status[c])
      BY <1>1, <1>6 DEF SoleInv
    <3>2. workflow_status[c].recovery_attempts = row.recovery_attempts
      BY <1>7, <2>4
    <3>3. ~(row.recovery_attempts <= MaxRetries[c] + 1)
      BY <1>8, <2>3
    <3>4. Status(c) # "PENDING"
      BY <2>3, <3>1, <3>2, <3>3 DEF AttemptsOk, Status
    <3>5. QED
      BY <1>7, <2>3, <2>4, <3>4
  <2>6. PICK k : k = [r EXCEPT !.at = "outcome", !.ok = FALSE]
    OBVIOUS
  <2>7. /\ k \in Task /\ k.wf = r.wf /\ k.on = r.on /\ k.n = r.n /\ k.rx = 0 /\ k.at = "outcome"
    BY <1>3, <2>6 DEF Task
  <2>8. task' = [task EXCEPT ![t] = k]
    BY <1>3, <1>12, <2>6 DEF Fail
  <2>9. workflow_status' = [workflow_status EXCEPT ![c] = b]
    BY <1>12, <2>2
  <2>10. MapInv'
    BY <1>1, <1>6, <1>12, <2>3, <2>4, <2>9, Constants, MapKept DEF Status, TypeOK, Terminal
  <2>11. /\ child_workflow_id' = [q \in Parents |-> child_workflow_id'[q]]
         /\ \A q \in Parents : child_workflow_id'[q] \in [Positions(q) -> Children \cup {"none"}]
         /\ \A q \in Parents : \A m \in Positions(q) :
               child_workflow_id[q][m] # "none" => child_workflow_id'[q][m] = child_workflow_id[q][m]
    BY <1>1, <1>12 DEF TypeOK
  <2>12. /\ b.recovery_attempts = workflow_status[c].recovery_attempts
         /\ b.status # Status(c) => b.recovery_attempts >= 2
    BY <1>7, <2>3, <2>4
  <2>13. k.wf = task[t].wf /\ k.on = task[t].on /\ k.n = task[t].n
    BY <1>3, <2>7
  <2>14. QED
    BY <1>4, <1>2, <1>9, <2>3, <2>4, <2>5, <2>7, <2>8, <2>9, <2>10, <2>11, <2>12, <2>13, EndedAgain
<1>13. CASE /\ c \in Registered[e] /\ ~DeadLettered(c, row) /\ record_child_workflow(p, n, c)
            /\ workflow_status' = [workflow_status EXCEPT ![c] = row]
            /\ IF ShouldSkip(c, FALSE) THEN task' = [task EXCEPT ![t].at = "poll"]
               ELSE \E s \in FreeTasks :
                      task' = [task EXCEPT ![s] = FreshTask(c, e), ![t].at = "await", ![t].rx = s]
  <2>1. /\ workflow_status'[c] = row
        /\ \A v \in Workflows : v # c => workflow_status'[v] = workflow_status[v]
    BY <1>1, <1>6, <1>13 DEF TypeOK
  <2>2. row.status # "ABSENT" /\ child_workflow_id[p][n] = "none"
    BY <1>7, <1>13 DEF record_child_workflow
  <2>3. /\ \A w \in Workflows : Status(w) # "ABSENT" => Status(w)' # "ABSENT"
        /\ Status(ChildOf[p][n])' # "ABSENT"
        /\ \A d \in Children : d # ChildOf[p][n] /\ Status(d) = "ABSENT" => Status(d)' = "ABSENT"
        /\ record_child_workflow(p, n, ChildOf[p][n])
    BY <1>4, <1>13, <2>1, <2>2, Constants DEF Status
  <2>4. /\ MapInv'
        /\ child_workflow_id' = [q \in Parents |-> child_workflow_id'[q]]
        /\ \A q \in Parents : child_workflow_id'[q] \in [Positions(q) -> Children \cup {"none"}]
        /\ \A q \in Parents : \A m \in Positions(q) :
              child_workflow_id[q][m] # "none" => child_workflow_id'[q][m] = child_workflow_id[q][m]
        /\ child_workflow_id'[p][n] # "none"
    BY <1>4, <1>1, <1>10, <2>3, MapRecorded
  <2>5. CASE ShouldSkip(c, FALSE)
    <3>1. Status(c) # "ABSENT"
      BY <2>5 DEF ShouldSkip, Status
    <3>2. Status(c) \in Terminal
      BY <1>1, <1>2, <1>3, <1>4, <2>2, <3>1, ChildSettled
    <3>3. row.status = Status(c) /\ row.recovery_attempts = workflow_status[c].recovery_attempts
      BY <1>7, <3>1
    <3>4. PICK k : k = [r EXCEPT !.at = "poll"]
      OBVIOUS
    <3>5. k \in Task /\ k.wf = r.wf /\ k.on = r.on /\ k.n = r.n /\ k.rx = 0 /\ k.at = "poll"
      BY <1>3, <3>4 DEF Task
    <3>6. task' = [task EXCEPT ![t] = k] /\ k.wf = task[t].wf /\ k.on = task[t].on /\ k.n = task[t].n
      BY <1>3, <1>13, <2>5, <3>4, <3>5
    <3>7. child_workflow_id'[k.wf][k.n] # "none" /\ row.status \in Terminal
      BY <1>4, <2>4, <3>2, <3>3, <3>5
    <3>8. QED
      BY <1>4, <1>2, <1>7, <1>9, <1>13, <2>4, <3>1, <3>3, <3>5, <3>6, <3>7, EndedAgain
  <2>6. CASE ~ShouldSkip(c, FALSE)
    <3>1. Status(c) = "ABSENT"
      BY <2>6 DEF ShouldSkip, Status
    <3>2. PICK s \in FreeTasks :
             task' = [task EXCEPT ![s] = FreshTask(c, e), ![t].at = "await", ![t].rx = s]
      BY <1>13, <2>6
    <3>3. s \in Tasks /\ task[s].at = "idle" /\ s # t
      BY <1>2 DEF FreeTasks
    <3>4. PICK k : k = [r EXCEPT !.at = "await", !.rx = s]
      OBVIOUS
    <3>5. /\ k \in Task /\ k.wf = p /\ k.on = e /\ k.n = n /\ k.rx = s /\ k.at = "await"
      BY <1>3, <1>4, <3>3, <3>4 DEF Task
    <3>6. PICK f : f = FreshTask(c, e)
      OBVIOUS
    <3>7. f \in Task /\ f.wf = c /\ f.on = e /\ f.at # "idle"
      BY <1>4, <1>6, <3>6, FreshOk
    <3>8. /\ task' \in [Tasks -> Task] /\ task'[s] = f /\ task'[t] = k
          /\ \A u \in Tasks : u # s /\ u # t => task'[u] = task[u]
      <4>1. task \in [Tasks -> Task]
        BY <1>1 DEF TypeOK
      <4>2. task' = [[task EXCEPT ![s] = f] EXCEPT ![t] = [task[t] EXCEPT !.at = "await", !.rx = s]]
        BY <3>2, <3>3, <3>6, <4>1
      <4>3. task' = [[task EXCEPT ![s] = f] EXCEPT ![t] = k]
        BY <1>3, <3>4, <4>2
      <4>4. QED
        BY <3>3, <3>5, <3>7, <4>1, <4>3
    <3>9. \A u \in Tasks : u # s => Alike(u)
      BY <1>2, <1>3, <1>4, <3>5, <3>8 DEF Alike
    <3>10. Grows
      BY <2>1, <2>2, <2>4, <3>1 DEF Grows, Status, Terminal
    <3>11. executor[e] # "down"
      BY <1>2, <1>3, <1>4 DEF BodyOk
    <3>12. BodyOk(k)' /\ HandleOk(k)'
      <4>1. BodyOk(r)'
        BY <1>3, <1>4, <1>9, <3>10, <3>11, BodyGrows
      <4>2. BodyOk(k)'
        BY <1>2, <1>3, <1>4, <2>4, <3>5, <4>1, StartedOk
      <4>3. HandleOk(k)'
        BY <1>4, <3>3, <3>5, <3>7, <3>8 DEF HandleOk
      <4>4. QED
        BY <4>2, <4>3
    <3>13. \A u \in Tasks : u # s => \/ task'[u] = task[u]
                                     \/ BodyOk(task[u])' /\ HandleOk(task[u])'
      BY <3>8, <3>12 DEF BodyOk, ParentOk, Status, HandleOk
    <3>14. recovering' = recovering /\ recovering \in [Executors -> SUBSET Workflows]
      BY <1>1, <1>9 DEF TypeOK
    <3>15. /\ \A u \in Tasks : ~Runs(u, c)
           /\ \A d \in Executors : c \notin recovering[d]
      BY <1>1, <3>1 DEF TaskInv, BodyOk, RowInv, Runs
    <3>16. AttemptsOk(c, row) /\ row.status = "PENDING"
      <4>1. row.status = "PENDING" /\ row.recovery_attempts <= MaxRetries[c] + 1
        BY <1>7, <1>8, <3>1
      <4>2. QED
        BY <4>1 DEF AttemptsOk
    <3>17. SpawnStep(c, e, row, s)
      BY <1>7, <1>9, <1>13, <2>4, <3>1, <3>3, <3>6, <3>8, <3>9, <3>11, <3>14, <3>15, <3>16 DEF SpawnStep
    <3>18. QED
      BY <1>4, <1>6, <1>7, <2>4, <3>3, <3>13, <3>17, Spawn
  <2>7. QED
    BY <2>5, <2>6
<1>14. QED
  BY <1>3, <1>4, <1>5, <1>11, <1>12, <1>13 DEF StartChild

----
(* The invariant: tasks that end. *)

\* Tasks are dropped, with what their executors had listed; the others go on for the same workflows.
LEMMA TasksStop ==
    ASSUME Inv, UNCHANGED <<tables, observed, disturbed>>,
           executor' \in [Executors -> {"down", "launching", "up"}],
           recovering' \in [Executors -> SUBSET Workflows],
           used' \in [Bounds -> Nat],
           task' \in [Tasks -> Task],
           \A s \in Tasks : \/ task'[s] = IdleTask
                            \/ Alike(s) /\ BodyOk(task[s])' /\ HandleOk(task[s])',
           \A d \in Executors : \/ executor'[d] = executor[d] /\ recovering'[d] = recovering[d]
                                \/ recovering'[d] = {},
           CoverInv'
    PROVE  Inv'
<1>1. TypeOK /\ MapInv /\ TaskInv /\ RowInv /\ SoleInv
  BY DEF Inv
<1>2. UNCHANGED <<workflow_status, child_workflow_id, step_output, observed>>
  BY DEF tables
<1>3. IdleTask.at = "idle" /\ IdleTask.rx = 0
  BY DEF IdleTask
<1>4. TaskInv'
  BY <1>3 DEF TaskInv, BodyOk, HandleOk
<1>5. TypeOK'
  <2>1. \A s \in Tasks : task'[s].at = "await" <=> task'[s].rx \in Tasks
    BY <1>4, Constants DEF TaskInv, BodyOk, HandleOk
  <2>2. \A s \in Tasks : task'[s].at # "idle" => task'[s].wf \in Workflows /\ task'[s].on \in Executors
    BY <1>4 DEF TaskInv, BodyOk
  <2>3. QED
    BY <1>1, <1>2, <2>1, <2>2 DEF TypeOK, Bounds
<1>6. MapInv'
  BY <1>1, <1>2, MapKept DEF Status
<1>7. RowInv'
  BY <1>1, <1>2 DEF RowInv, Status
<1>8. SoleInv'
  <2>1. \A s \in Tasks : task'[s].at # "idle" =>
           task[s].at # "idle" /\ task'[s].wf = task[s].wf /\ task'[s].on = task[s].on
    BY <1>3 DEF Alike
  <2>2. ASSUME NEW v \in Workflows, v \notin disturbed
        PROVE  Sole(v)' /\ AttemptsOk(v, workflow_status'[v])
    <3>1. Sole(v) /\ AttemptsOk(v, workflow_status[v])
      BY <1>1, <2>2 DEF SoleInv
    <3>2. QED
      BY <1>2, <2>1, <3>1 DEF Sole, Runs, Status
  <2>3. ASSUME NEW p \in Parents, NEW n \in Positions(p), ChildOf[p][n] \notin disturbed
        PROVE  ToldOk(p, n)'
    BY <1>1, <1>2, <2>3 DEF SoleInv, ToldOk, Status
  <2>4. QED
    BY <2>2, <2>3 DEF SoleInv, AttemptsOk
<1>9. QED
  BY <1>4, <1>5, <1>6, <1>7, <1>8 DEF Inv

LEMMA CrashInv ==
    ASSUME Inv, NEW e \in Executors, Crash(e)
    PROVE  Inv'
<1>1. TypeOK /\ TaskInv /\ RowInv /\ CoverInv
  BY DEF Inv
<1>2. /\ Spend("crashes", MaxCrashes) /\ UNCHANGED <<tables, observed, disturbed>>
      /\ executor' = [executor EXCEPT ![e] = "down"] /\ recovering' = [recovering EXCEPT ![e] = {}]
      /\ task' = [t \in Tasks |-> IF task[t].on = e THEN IdleTask ELSE task[t]]
  BY DEF Crash
<1>3. used' \in [Bounds -> Nat] /\ used'["panics"] = used["panics"]
  BY <1>1, <1>2, SpendOk DEF Bounds
<1>4. /\ executor' \in [Executors -> {"down", "launching", "up"}]
      /\ executor'[e] = "down" /\ \A d \in Executors : d # e => executor'[d] = executor[d]
      /\ recovering' \in [Executors -> SUBSET Workflows]
      /\ recovering'[e] = {} /\ \A d \in Executors : d # e => recovering'[d] = recovering[d]
  BY <1>1, <1>2 DEF TypeOK
<1>5. IdleTask \in Task
  BY DEF IdleTask, Task
<1>6. /\ task' \in [Tasks -> Task]
      /\ \A t \in Tasks : task'[t] = IF task[t].on = e THEN IdleTask ELSE task[t]
  BY <1>1, <1>2, <1>5 DEF TypeOK
<1>7. UNCHANGED <<workflow_status, child_workflow_id>>
  BY <1>2 DEF tables
<1>8. ASSUME NEW s \in Tasks, task[s].on # e
      PROVE  Alike(s) /\ BodyOk(task[s])' /\ HandleOk(task[s])'
  <2>1. PICK x : x = task[s] /\ x = task'[s]
    BY <1>6, <1>8
  <2>2. BodyOk(x) /\ HandleOk(x)
    BY <1>1, <2>1 DEF TaskInv
  <2>3. x.at # "idle" => executor'[x.on] # "down"
    BY <1>4, <1>8, <2>1, <2>2 DEF BodyOk
  <2>4. BodyOk(x)'
    BY <1>7, <2>2, <2>3 DEF BodyOk, ParentOk, Status
  <2>5. x.at = "await" => task'[x.rx] = task[x.rx]
    BY <1>6, <1>8, <2>1, <2>2 DEF HandleOk
  <2>6. HandleOk(x)'
    BY <2>2, <2>5 DEF HandleOk
  <2>7. QED
    BY <2>1, <2>4, <2>6 DEF BodyOk, ParentOk, Status, HandleOk, Alike
<1>9. CoverInv'
  <2> SUFFICES ASSUME used["panics"] = 0, NEW v \in Workflows, Status(v)' = "PENDING" PROVE Covered(v)'
    BY <1>3 DEF CoverInv
  <2>1. Status(v) = "PENDING" /\ Covered(v) /\ workflow_status[v].executor_id \in Executors
    BY <1>1, <1>7 DEF CoverInv, Status, RowInv
  <2>2. CASE workflow_status[v].executor_id = e
    BY <1>4, <1>7, <2>2 DEF Covered
  <2>3. CASE workflow_status[v].executor_id # e
    BY <1>4, <1>6, <1>7, <2>1, <2>3 DEF Covered, Running
  <2>4. QED
    BY <2>2, <2>3
<1>10. \A s \in Tasks : \/ task'[s] = IdleTask
                        \/ Alike(s) /\ BodyOk(task[s])' /\ HandleOk(task[s])'
  BY <1>6, <1>8
<1>11. \A d \in Executors : \/ executor'[d] = executor[d] /\ recovering'[d] = recovering[d]
                            \/ recovering'[d] = {}
  BY <1>4
<1>12. QED
  BY <1>2, <1>3, <1>4, <1>6, <1>9, <1>10, <1>11, TasksStop

\* The task that feeds an owned handle ends: the tasks that hold the handle are at that child.
LEMMA ReceiverOk ==
    ASSUME Inv, NEW t \in Tasks, NEW s \in Receivers(t)
    PROVE  /\ s \in Tasks /\ task[s] \in Task /\ task[s].at = "await" /\ task[s].rx = t
           /\ BodyOk(task[s]) /\ task[s].wf \in Parents /\ task[s].n \in Positions(task[s].wf)
           /\ child_workflow_id[task[s].wf][task[s].n] # "none"
           /\ task[t].wf = ChildOf[task[s].wf][task[s].n]
<1>1. s \in Tasks /\ task[s].rx = t /\ task[s].at = "await"
  BY DEF Receivers, Inv, TypeOK
<1>2. QED
  BY <1>1, RunningTask DEF HandleOk, ParentOk

LEMMA PanicInv ==
    ASSUME Inv, NEW t \in Tasks, Panic(t)
    PROVE  Inv'
<1>1. TypeOK /\ TaskInv
  BY DEF Inv
<1>2. /\ Spend("panics", MaxPanics) /\ UNCHANGED <<tables, executor, recovering, observed, disturbed>>
      /\ \A s \in Tasks : task'[s] = IF s = t THEN IdleTask
                                     ELSE IF s \in Receivers(t) THEN [task[s] EXCEPT !.at = "poll", !.rx = 0]
                                     ELSE task[s]
      /\ task' = [s \in Tasks |-> task'[s]]
  BY DEF Panic
<1>3. used' \in [Bounds -> Nat] /\ used'["panics"] > 0
  BY <1>1, <1>2, SpendOk DEF Bounds
<1>4. CoverInv'
  BY <1>3 DEF CoverInv, Bounds
<1>5. UNCHANGED <<workflow_status, child_workflow_id>>
  BY <1>2 DEF tables
<1>6. ASSUME NEW s \in Receivers(t), s # t
      PROVE  Alike(s) /\ task'[s] \in Task /\ BodyOk(task[s])' /\ HandleOk(task[s])'
  <2>1. PICK r \in Task : /\ r = task[s] /\ r.at = "await" /\ BodyOk(r) /\ r.wf \in Parents
                          /\ child_workflow_id[r.wf][r.n] # "none"
    BY <1>6, ReceiverOk
  <2>2. PICK k : k = [r EXCEPT !.at = "poll", !.rx = 0]
    OBVIOUS
  <2>3. k \in Task /\ k.wf = r.wf /\ k.on = r.on /\ k.n = r.n /\ k.rx = 0 /\ k.at = "poll"
    BY <2>2 DEF Task
  <2>4. s \in Tasks /\ task'[s] = k
    BY <1>2, <1>6, <2>1, <2>2 DEF Receivers
  <2>5. r.wf \notin Children
    BY <2>1, Constants
  <2>6. BodyOk(k)
    BY <2>1, <2>3, <2>5, MoveOk
  <2>7. BodyOk(k)' /\ HandleOk(k)'
    BY <1>2, <1>5, <2>3, <2>6 DEF BodyOk, ParentOk, Status, HandleOk
  <2>8. QED
    BY <2>1, <2>3, <2>4, <2>7 DEF BodyOk, ParentOk, Status, HandleOk, Alike
<1>7. \A u \in Tasks : u # t => Alike(u)
  BY <1>2, <1>6 DEF Alike
<1>8. ASSUME NEW s \in Tasks, s # t, s \notin Receivers(t)
      PROVE  Alike(s) /\ task'[s] \in Task /\ BodyOk(task[s])' /\ HandleOk(task[s])'
  <2>1. PICK x : x = task[s] /\ x = task'[s]
    BY <1>2, <1>8
  <2>2. BodyOk(x) /\ HandleOk(x) /\ x \in Task /\ x.rx # t
    <3>1. BodyOk(x) /\ HandleOk(x)
      BY <1>1, <2>1 DEF TaskInv
    <3>2. x \in Task
      <4>1. task[s] \in Task
        BY <1>1 DEF TypeOK
      <4>2. QED
        BY <2>1, <4>1
    <3>3. x.rx # t
      BY <1>8, <2>1 DEF Receivers
    <3>4. QED
      BY <3>1, <3>2, <3>3
  <2>3. BodyOk(x)'
    BY <1>2, <1>5, <2>2 DEF BodyOk, ParentOk, Status
  <2>4. x.at = "await" => Alike(x.rx)
    BY <1>7, <2>2 DEF HandleOk
  <2>5. HandleOk(x)'
    BY <2>2, <2>4, HandleKept
  <2>6. QED
    BY <1>7, <1>8, <2>1, <2>2, <2>3, <2>5 DEF BodyOk, ParentOk, Status, HandleOk
<1>9. \A s \in Tasks : \/ task'[s] = IdleTask
                       \/ Alike(s) /\ task'[s] \in Task /\ BodyOk(task[s])' /\ HandleOk(task[s])'
  BY <1>2, <1>6, <1>8
<1>10. task' \in [Tasks -> Task]
  <2>1. IdleTask \in Task
    BY DEF IdleTask, Task
  <2>2. QED
    BY <1>2, <1>9, <2>1
<1>11. /\ executor' \in [Executors -> {"down", "launching", "up"}]
       /\ recovering' \in [Executors -> SUBSET Workflows]
       /\ \A d \in Executors : executor'[d] = executor[d] /\ recovering'[d] = recovering[d]
  BY <1>1, <1>2 DEF TypeOK
<1>12. UNCHANGED <<tables, observed, disturbed>>
  BY <1>2
<1>13. QED
  BY <1>3, <1>4, <1>9, <1>10, <1>11, <1>12, TasksStop

LEMMA OutcomeInv ==
    ASSUME Inv, NEW t \in Tasks, Outcome(t)
    PROVE  Inv'
<1>1. TypeOK /\ MapInv /\ TaskInv /\ RowInv /\ CoverInv /\ SoleInv
  BY DEF Inv
<1>2. task[t].at = "outcome" /\ UNCHANGED <<child_workflow_id, step_output, executor, recovering, disturbed, used>>
  BY DEF Outcome
<1>3. PICK w \in Workflows : w = task[t].wf
  BY <1>2, RunningTask
<1>4. PICK o \in Outcomes : o = IF task[t].ok THEN <<"ok">> ELSE <<"err">>
  BY DEF Outcomes
<1>5. PICK r \in Row : r = workflow_status[w]
  BY <1>1 DEF TypeOK
<1>6. PICK row : row = [r EXCEPT !.status = IF r.status = "CANCELLED" THEN r.status
                                            ELSE IF task[t].ok THEN "SUCCESS" ELSE "ERROR"]
  OBVIOUS
<1>7. /\ row \in Row /\ row.status \in {"CANCELLED", "SUCCESS", "ERROR"}
      /\ r.status # "CANCELLED" => row.status = IF task[t].ok THEN "SUCCESS" ELSE "ERROR"
  BY <1>6 DEF Row, Statuses
<1>8. /\ row.status \in Terminal /\ row.status \notin {"ABSENT", "PENDING", "MAX_RECOVERY_ATTEMPTS_EXCEEDED"}
      /\ r.status # "CANCELLED" => AwaitOutcome(row) = o
  BY <1>4, <1>7 DEF Terminal, Statuses, AwaitOutcome
<1>9. /\ workflow_status' \in [Workflows -> Row] /\ workflow_status'[w] = row
      /\ \A v \in Workflows : v # w => workflow_status'[v] = workflow_status[v]
  <2>1. workflow_status' = [workflow_status EXCEPT ![w] = row]
    BY <1>3, <1>5, <1>6 DEF Outcome
  <2>2. QED
    BY <1>1, <1>7, <2>1 DEF TypeOK
<1>10. /\ \A s \in Tasks : task'[s] = IF s = t THEN IdleTask
                                      ELSE IF s \in Receivers(t) THEN Observe(task[s], o) ELSE task[s]
       /\ task' = [s \in Tasks |-> task'[s]]
  BY <1>4 DEF Outcome
<1>11. IF Receivers(t) = {} THEN UNCHANGED observed ELSE \E s \in Receivers(t) : Saw(s, o)
  BY <1>4 DEF Outcome
<1>12. Grows
  BY <1>2, <1>8, <1>9 DEF Grows, Status
<1>13. Status(w) # "ABSENT"
  BY <1>1, <1>2, <1>3 DEF TaskInv, BodyOk
<1>14. ASSUME NEW s \in Receivers(t)
       PROVE  Alike(s) /\ task'[s] \in Task /\ BodyOk(task[s])' /\ HandleOk(task[s])'
  <2>1. PICK x \in Task : /\ x = task[s] /\ x.at = "await" /\ BodyOk(x)
                          /\ ChildOf[x.wf][x.n] = w /\ s \in Tasks /\ s # t
    BY <1>2, <1>3, <1>14, ReceiverOk
  <2>2. BodyOk(x)'
    BY <1>2, <1>12, <2>1, BodyGrows DEF BodyOk
  <2>3. Status(ChildOf[x.wf][x.n])' \in Terminal
    BY <1>8, <1>9, <2>1 DEF Status
  <2>4. PICK k : k = Observe(x, o)
    OBVIOUS
  <2>5. /\ k \in Task /\ k.wf = x.wf /\ k.on = x.on /\ k.rx = 0 /\ k.at \notin {"idle", "await"}
        /\ BodyOk(k)'
    <3>1. x.at \in {"await", "poll"}
      BY <2>1
    <3>2. QED
      BY <2>2, <2>3, <2>4, <3>1, ObserveOk DEF BodyOk, ParentOk, Status
  <2>6. task'[s] = k
    BY <1>10, <1>14, <2>1, <2>4
  <2>7. HandleOk(k)'
    BY <2>5 DEF HandleOk
  <2>8. QED
    BY <2>1, <2>5, <2>6, <2>7 DEF BodyOk, ParentOk, Status, HandleOk, Alike
<1>15. \A u \in Tasks : u # t => Alike(u)
  BY <1>10, <1>14 DEF Alike
<1>16. ASSUME NEW s \in Tasks, s # t, s \notin Receivers(t)
       PROVE  task'[s] \in Task /\ BodyOk(task[s])' /\ HandleOk(task[s])'
  <2>1. PICK x : x = task[s] /\ x = task'[s]
    BY <1>10, <1>16
  <2>2. BodyOk(x) /\ HandleOk(x)
    BY <1>1, <2>1 DEF TaskInv
  <2>3. x \in Task
    <3>1. task[s] \in Task
      BY <1>1 DEF TypeOK
    <3>2. QED
      BY <2>1, <3>1
  <2>4. x.rx # t
    BY <1>16, <2>1 DEF Receivers
  <2>5. BodyOk(x)'
    BY <1>2, <1>12, <2>2, BodyGrows DEF BodyOk
  <2>6. HandleOk(x)'
    BY <1>15, <2>2, <2>4, HandleKept DEF HandleOk
  <2>7. QED
    BY <2>1, <2>3, <2>5, <2>6 DEF BodyOk, ParentOk, Status, HandleOk
<1>17. IdleTask \in Task /\ IdleTask.at = "idle" /\ IdleTask.rx = 0
  BY DEF IdleTask, Task
<1>18. \A s \in Tasks : task'[s] \in Task /\ BodyOk(task[s])' /\ HandleOk(task[s])'
  BY <1>10, <1>14, <1>16, <1>17 DEF BodyOk, HandleOk
<1>19. TaskInv'
  BY <1>18 DEF TaskInv
<1>20. ASSUME NEW s \in Receivers(t), Saw(s, o)
       PROVE  /\ observed' = [p \in Parents |-> observed'[p]]
              /\ \A p \in Parents : observed'[p] \in [Positions(p) -> SUBSET Outcomes]
              /\ observed'[task[s].wf][task[s].n] = observed[task[s].wf][task[s].n] \cup {o}
              /\ \A p \in Parents : \A n \in Positions(p) :
                    (p # task[s].wf \/ n # task[s].n) => observed'[p][n] = observed[p][n]
  BY <1>1, <1>20, ReceiverOk, SawOk
<1>21. TypeOK'
  <2>1. \A s \in Tasks : task'[s].at = "await" <=> task'[s].rx \in Tasks
    BY <1>19, Constants DEF TaskInv, BodyOk, HandleOk
  <2>2. \A s \in Tasks : task'[s].at # "idle" => task'[s].wf \in Workflows /\ task'[s].on \in Executors
    BY <1>19 DEF TaskInv, BodyOk
  <2>3. task' \in [Tasks -> Task]
    BY <1>10, <1>18
  <2>4. /\ observed' = [p \in Parents |-> observed'[p]]
        /\ \A p \in Parents : observed'[p] \in [Positions(p) -> SUBSET Outcomes]
    <3>1. CASE UNCHANGED observed
      BY <1>1, <3>1 DEF TypeOK
    <3>2. CASE \E s \in Receivers(t) : Saw(s, o)
      BY <1>20, <3>2
    <3>3. QED
      BY <1>11, <3>1, <3>2
  <2>5. QED
    BY <1>1, <1>2, <1>9, <2>1, <2>2, <2>3, <2>4 DEF TypeOK
<1>22. MapInv'
  BY <1>1, <1>2, <1>8, <1>9, <1>13, Constants, MapKept DEF Status
<1>23. RowInv'
  BY <1>1, <1>2, <1>8, <1>9 DEF RowInv, Status, TypeOK
<1>24. CoverInv'
  <2> SUFFICES ASSUME used["panics"] = 0, NEW v \in Workflows, Status(v)' = "PENDING" PROVE Covered(v)'
    BY <1>2 DEF CoverInv
  <2>1. v # w /\ workflow_status'[v] = workflow_status[v]
    BY <1>8, <1>9 DEF Status
  <2>2. Covered(v)
    BY <1>1, <2>1 DEF CoverInv, Status
  <2>3. ASSUME NEW s \in Tasks, Running(task[s], v, workflow_status[v].executor_id)
        PROVE  Running(task'[s], v, workflow_status[v].executor_id)
    BY <1>3, <1>15, <2>1, <2>3 DEF Running, Alike
  <2>4. QED
    BY <1>2, <2>1, <2>2, <2>3 DEF Covered
<1>25. w \notin disturbed =>
          /\ r.status = "PENDING"
          /\ \A s \in Tasks : Runs(s, w) => s = t
          /\ \A e \in Executors : w \notin recovering[e]
  BY <1>1, <1>2, <1>3, <1>5 DEF SoleInv, Sole, Runs, Status
<1>26. SoleInv'
  <2>1. \A s \in Tasks : task'[s].at # "idle" =>
           s # t /\ task[s].at # "idle" /\ task'[s].wf = task[s].wf /\ task'[s].on = task[s].on
    BY <1>10, <1>15, <1>17 DEF Alike
  <2>2. ASSUME NEW v \in Workflows, v \notin disturbed
        PROVE  Sole(v)' /\ AttemptsOk(v, workflow_status'[v])
    <3>1. \A s \in Tasks : Runs(s, v)' => s # t /\ Runs(s, v) /\ task'[s].on = task[s].on
      BY <2>1 DEF Runs
    <3>2. CASE v = w
      <4>1. /\ \A s \in Tasks : ~Runs(s, v)'
            /\ \A e \in Executors : v \notin recovering'[e]
        <5>1. \A s \in Tasks : Runs(s, v) => s = t
          BY <1>25, <2>2, <3>2
        <5>2. \A s \in Tasks : ~Runs(s, v)'
          BY <3>1, <5>1
        <5>3. \A e \in Executors : v \notin recovering'[e]
          BY <1>2, <1>25, <2>2, <3>2
        <5>4. QED
          BY <5>2, <5>3
      <4>2. AttemptsOk(w, row)
        BY <1>7, <1>8, <1>25, <2>2, <3>2 DEF AttemptsOk
      <4>3. QED
        BY <1>9, <3>2, <4>1, <4>2 DEF Sole
    <3>3. CASE v # w
      <4>1. Sole(v) /\ AttemptsOk(v, workflow_status[v]) /\ workflow_status'[v] = workflow_status[v]
        BY <1>1, <1>9, <2>2, <3>3 DEF SoleInv
      <4>2. QED
        BY <1>2, <3>1, <4>1 DEF Sole, Status
    <3>4. QED
      BY <3>2, <3>3
  <2>3. ASSUME NEW p \in Parents, NEW n \in Positions(p), ChildOf[p][n] \notin disturbed
        PROVE  ToldOk(p, n)'
    <3>1. ToldOk(p, n) /\ ChildOf[p][n] \in Workflows
      BY <1>1, <2>3, Constants DEF SoleInv
    <3>2. CASE observed'[p][n] = observed[p][n]
      <4>1. CASE ChildOf[p][n] = w
        BY <1>5, <1>25, <2>3, <3>1, <3>2, <4>1 DEF ToldOk, Status, Terminal
      <4>2. CASE ChildOf[p][n] # w
        BY <1>2, <1>9, <3>1, <3>2, <4>2 DEF ToldOk, Status
      <4>3. QED
        BY <4>1, <4>2
    <3>3. ASSUME NEW s \in Receivers(t), Saw(s, o), p = task[s].wf, n = task[s].n
          PROVE  ToldOk(p, n)'
      <4>1. ChildOf[p][n] = w /\ child_workflow_id[p][n] # "none"
        BY <1>3, <3>3, ReceiverOk
      <4>2. r.status = "PENDING"
        BY <1>25, <2>3, <4>1
      <4>3. observed[p][n] = {}
        BY <1>5, <3>1, <4>1, <4>2 DEF ToldOk, Status, Terminal
      <4>4. observed'[p][n] = {o}
        BY <1>20, <3>3, <4>3
      <4>5. QED
        BY <1>2, <1>8, <1>9, <4>1, <4>2, <4>4 DEF ToldOk, Status
    <3>4. QED
      BY <1>11, <1>20, <3>2, <3>3
  <2>4. QED
    BY <1>2, <2>2, <2>3 DEF SoleInv, AttemptsOk
<1>27. QED
  BY <1>19, <1>21, <1>22, <1>23, <1>24, <1>26 DEF Inv

----
(* The theorems. *)

LEMMA StepInv ==
    ASSUME OwnChildren, Inv, [Next]_vars
    PROVE  Inv'
<1>1. ASSUME NEW e \in Executors, NEW p \in Parents, run_workflow(e, p) PROVE Inv'
  BY <1>1, RunWorkflowInv
<1>2. ASSUME NEW e \in Executors, Crash(e) PROVE Inv'
  BY <1>2, CrashInv
<1>3. ASSUME NEW e \in Executors, Launch(e) PROVE Inv'
  BY <1>3, LaunchInv
<1>4. ASSUME NEW e \in Executors, RecoverOne(e) PROVE Inv'
  BY <1>4, RecoverOneInv
<1>5. ASSUME NEW e \in Executors, FinishLaunch(e) PROVE Inv'
  BY <1>5, FinishLaunchInv
<1>6. ASSUME NEW e \in Executors, NEW d \in Executors, RecoverRequest(e, d) PROVE Inv'
  BY <1>6, RecoverRequestInv
<1>7. ASSUME NEW t \in Tasks, TaskStep(t) PROVE Inv'
  BY <1>7, CheckChildInv, StartChildInv, PollInv, CheckStepInv, RecordStepInv, OutcomeInv DEF TaskStep
<1>8. ASSUME NEW t \in Tasks, Panic(t) PROVE Inv'
  BY <1>8, PanicInv
<1>9. ASSUME NEW w \in Workflows, cancel_workflows(w) PROVE Inv'
  BY <1>9, CancelInv
<1>10. CASE UNCHANGED vars
  BY <1>10 DEF vars, tables, Inv, TypeOK, MapInv, TaskInv, BodyOk, ParentOk, HandleOk, RowInv, CoverInv,
               Covered, Running, SoleInv, Sole, Runs, AttemptsOk, ToldOk, Status
<1>11. QED
  BY <1>1, <1>2, <1>3, <1>4, <1>5, <1>6, <1>7, <1>8, <1>9, <1>10 DEF Next

LEMMA Invariance ==
    ASSUME OwnChildren
    PROVE  Spec => []Inv
<1>1. Init => Inv
  BY InitInv
<1>2. Inv /\ [Next]_vars => Inv'
  BY StepInv
<1>3. QED
  BY <1>1, <1>2, PTL DEF Spec

\* The rows, the mappings, the tasks and their handles are well formed in every state of start_workflow,
\* of the handles and of recovery.
THEOREM ChildrenTypeCorrect ==
    ASSUME OwnChildren
    PROVE  Spec => []TypeOK
<1>1. Inv => TypeOK
  BY DEF Inv
<1>2. QED
  BY <1>1, Invariance, PTL

\* A PENDING workflow, parent or child, is run by a task or will be found by a recovery, for any number
\* of executors, crashes, cancels and recovery requests, as long as no body panics: the transaction of
\* start_workflow that makes a child's row also makes the mapping, and an execution of the parent that
\* loses the race for it leaves the row alone.
THEOREM NothingStranded ==
    ASSUME OwnChildren
    PROVE  Spec => []PendingIsReachable
<1>1. ASSUME Inv PROVE PendingIsReachable
  <2> SUFFICES ASSUME used["panics"] = 0, NEW w \in Workflows, workflow_status[w].status = "PENDING"
               PROVE  \/ \E t \in Tasks : task[t].wf = w
                      \/ executor[workflow_status[w].executor_id] = "down"
                      \/ \E e \in Executors : w \in recovering[e] /\ executor[e] = "launching"
    BY DEF PendingIsReachable
  <2>1. Covered(w) /\ workflow_status[w].executor_id \in Executors
    BY <1>1 DEF Inv, CoverInv, RowInv, Status
  <2>2. QED
    BY <2>1 DEF Covered, Running
<1>2. QED
  BY <1>1, Invariance, PTL

\* get_result tells every execution of a parent the same about a child, whether the answer came through
\* the channel or from the row, and reports a dead-lettered child with the limit it exceeded: for any
\* crashes and panics, and any cancels and recovery requests of other workflows, the parent included.
THEOREM ReplayTellsTheSame ==
    ASSUME OwnChildren
    PROVE  Spec => []ReplayedResultAgrees
<1>1. ASSUME Inv PROVE ReplayedResultAgrees
  <2> SUFFICES ASSUME NEW p \in Parents, NEW n \in DOMAIN observed[p], ChildOf[p][n] \notin disturbed
               PROVE  /\ Cardinality(observed[p][n]) <= 1
                      /\ \A o \in observed[p][n] : o[1] = "dead_letter" => o[2] = MaxRetries[ChildOf[p][n]]
    BY DEF ReplayedResultAgrees
  <2>1. n \in Positions(p)
    BY <1>1 DEF Inv, TypeOK
  <2>2. PICK c \in Children : c = ChildOf[p][n]
    BY <2>1, Constants
  <2>3. ToldOk(p, n) /\ AttemptsOk(c, workflow_status[c])
    BY <1>1, <2>1, <2>2, Constants DEF Inv, SoleInv
  <2>4. CASE observed[p][n] = {}
    BY <2>4, FS_EmptySet
  <2>5. CASE observed[p][n] # {}
    <3>1. PICK row : row = workflow_status[c]
      OBVIOUS
    <3>2. row \in Row /\ (row.status = "MAX_RECOVERY_ATTEMPTS_EXCEEDED" => row.recovery_attempts >= 2)
      BY <1>1, <3>1, Constants DEF Inv, TypeOK, RowInv, Status
    <3>3. row.status \in Terminal /\ observed[p][n] = {AwaitOutcome(row)}
      BY <2>2, <2>3, <2>5, <3>1 DEF ToldOk, Status
    <3>4. Cardinality(observed[p][n]) = 1
      BY <3>3, FS_Singleton
    <3>5. AwaitOutcome(row)[1] = "dead_letter" => AwaitOutcome(row)[2] = MaxRetries[c]
      <4>1. row.status \in {"SUCCESS", "ERROR", "CANCELLED", "MAX_RECOVERY_ATTEMPTS_EXCEEDED"}
        BY <3>3 DEF Terminal, Statuses
      <4>2. CASE row.status # "MAX_RECOVERY_ATTEMPTS_EXCEEDED"
        BY <3>2, <3>3, <4>1, <4>2, AwaitOk
      <4>3. CASE row.status = "MAX_RECOVERY_ATTEMPTS_EXCEEDED"
        <5>1. row.recovery_attempts = MaxRetries[c] + 2
          BY <2>3, <3>1, <4>3 DEF AttemptsOk
        <5>2. MaxRetries[c] \in Nat
          BY ChildAssumption, Constants
        <5>3. row.recovery_attempts - 2 = MaxRetries[c]
          BY <5>1, <5>2
        <5>4. QED
          BY <3>2, <3>3, <4>3, <5>3, AwaitOk
      <4>4. QED
        BY <4>2, <4>3
    <3>6. QED
      BY <2>2, <3>3, <3>4, <3>5
  <2>6. QED
    BY <2>4, <2>5
<1>2. QED
  BY <1>1, Invariance, PTL

====
