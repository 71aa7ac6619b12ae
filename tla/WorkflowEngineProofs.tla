---- MODULE WorkflowEngineProofs ----
(*
 * Proofs about WorkflowEngine, for every set of executors, workflows and tasks, every number of
 * steps and every bound, and however executions of one workflow overlap.
 *)
EXTENDS WorkflowEngine, TLAPS

\* Every recorded step of outs is recorded with the same result in outs2.
Extends(outs, outs2) ==
    \A w \in Workflows, n \in Steps : outs[w][n] # None => outs2[w][n] = outs[w][n]

Outs == [Workflows -> [Steps -> Results \cup {None}]]

\* A task stays sound when the checkpoint table grows (other tasks record steps).
LEMMA SoundMonotone ==
    ASSUME NEW outs \in Outs, NEW outs2 \in Outs, Extends(outs, outs2),
           NEW tk, Sound(tk, outs)
    PROVE  Sound(tk, outs2)
<1> SUFFICES ASSUME tk.at # "idle", tk.wf \notin Tolerant, NEW n \in Steps, n < tk.step_id
             PROVE  outs2[tk.wf][n] \in Results \ Failures /\ tk.view[n] = outs2[tk.wf][n]
    BY DEF Sound
<1>1. tk.wf \in Workflows /\ outs[tk.wf][n] \in Results \ Failures /\ tk.view[n] = outs[tk.wf][n]
    BY DEF Sound
<1> QED BY <1>1, EngineAssumption DEF Extends

\* A task that observes a library error, or the recorded result of its step, stays sound.
LEMMA ObserveSound ==
    ASSUME NEW outs \in Outs, NEW tk \in Task, Sound(tk, outs),
           tk.at \in {"check_status", "check_output", "closure", "record"},
           NEW r \in Results \cup {LibError},
           r # LibError => outs[tk.wf][tk.step_id] = r
    PROVE  Observe(tk, r) \in Task /\ Sound(Observe(tk, r), outs)
<1>1. tk.wf \in Workflows /\ tk.step_id \in Steps
    BY DEF Sound
<1>2. NumSteps \in Nat \ {0} /\ Failures \subseteq Results /\ LibError \notin Results
    BY EngineAssumption
<1>3. CASE Failed(r) /\ tk.wf \notin Tolerant
    BY <1>1, <1>2, <1>3 DEF Observe, Sound, Task, Places, Steps, Views
<1>4. CASE ~(Failed(r) /\ tk.wf \notin Tolerant)
    <2> DEFINE o == Observe(tk, r)
    <2>1. o = [tk EXCEPT !.at = IF tk.step_id + 1 = NumSteps THEN "outcome" ELSE "check_status",
                         !.ok = tk.step_id + 1 = NumSteps,
                         !.step_id = @ + 1,
                         !.result = None,
                         !.view[tk.step_id] = r]
        BY <1>4 DEF Observe
    <2>2. o \in Task
        <3> DEFINE view2 == [tk.view EXCEPT ![tk.step_id] = r]
        <3>1. view2 \in Views
            BY <1>1 DEF Task, Views
        <3>2. tk.step_id + 1 \in 0 .. NumSteps
            BY <1>1, <1>2 DEF Steps
        <3>3. o = [tk EXCEPT !.at = IF tk.step_id + 1 = NumSteps THEN "outcome" ELSE "check_status",
                             !.ok = tk.step_id + 1 = NumSteps,
                             !.step_id = tk.step_id + 1,
                             !.result = None,
                             !.view = view2]
            BY <2>1 DEF Task
        <3> HIDE DEF view2
        <3> QED BY <3>1, <3>2, <3>3 DEF Task, Places
    <2>3. /\ o.wf = tk.wf
          /\ o.at = (IF tk.step_id + 1 = NumSteps THEN "outcome" ELSE "check_status")
          /\ o.step_id = tk.step_id + 1
          /\ o.view = [tk.view EXCEPT ![tk.step_id] = r]
        BY <2>1 DEF Task
    <2>4. o.at # "outcome" => o.step_id \in Steps
        BY <1>1, <1>2, <2>3 DEF Steps
    <2>5. o.at = "outcome" => o.step_id = NumSteps
        BY <1>1, <1>2, <2>3 DEF Steps
    <2>6. ASSUME tk.wf \notin Tolerant, NEW n \in Steps, n < o.step_id
          PROVE  outs[tk.wf][n] \in Results \ Failures /\ o.view[n] = outs[tk.wf][n]
        <3>1. CASE n = tk.step_id
            BY <1>1, <1>2, <1>4, <2>3, <2>6, <3>1 DEF Failed, Task, Views
        <3>2. CASE n # tk.step_id
            <4>1. n < tk.step_id
                BY <1>1, <2>3, <2>6, <3>2 DEF Steps
            <4> QED BY <1>1, <2>3, <2>6, <3>2, <4>1 DEF Sound, Task, Views
        <3> QED BY <3>1, <3>2
    <2> HIDE DEF o
    <2>7. Sound(o, outs)
        BY <1>1, <2>3, <2>4, <2>5, <2>6 DEF Sound
    <2> QED BY <2>2, <2>7 DEF o
<1> QED BY <1>3, <1>4

----
(* The inductive invariant *)

\* Rows that did not become SUCCESS in this step keep SuccessIsReplayable when the table grows.
LEMMA SuccessStable ==
    ASSUME Inv, operation_outputs' \in Outs, Extends(operation_outputs, operation_outputs'),
           \A w \in Workflows : workflow_status'[w].status = "SUCCESS" =>
               /\ workflow_status[w].status = "SUCCESS"
               /\ workflow_status'[w].output = workflow_status[w].output
    PROVE  SuccessIsReplayable'
<1> SUFFICES ASSUME NEW w \in Workflows \ Tolerant, workflow_status'[w].status = "SUCCESS"
             PROVE  /\ workflow_status'[w].output = operation_outputs'[w]
                    /\ \A n \in Steps : operation_outputs'[w][n] \in Results \ Failures
    BY DEF SuccessIsReplayable
<1>1. /\ workflow_status'[w].output = operation_outputs[w]
      /\ \A n \in Steps : operation_outputs[w][n] \in Results \ Failures
    BY DEF Inv, SuccessIsReplayable
<1>2. \A n \in Steps : operation_outputs'[w][n] = operation_outputs[w][n]
    BY <1>1, EngineAssumption DEF Extends
<1>3. operation_outputs[w] \in [Steps -> Results \cup {None}]
      /\ operation_outputs'[w] \in [Steps -> Results \cup {None}]
    BY DEF Inv, TypeOK, Outs
<1>4. operation_outputs'[w] = operation_outputs[w]
    BY <1>2, <1>3
<1> QED BY <1>1, <1>4

\* One task moves on, soundly; the others keep what they know.
LEMMA TaskMoves ==
    ASSUME Inv, operation_outputs' \in Outs, Extends(operation_outputs, operation_outputs'),
           NEW t \in Tasks, NEW tk \in Task, Sound(tk, operation_outputs'),
           task' = [task EXCEPT ![t] = tk]
    PROVE  /\ task' \in [Tasks -> Task]
           /\ \A u \in Tasks : Sound(task'[u], operation_outputs')
<1>1. operation_outputs \in Outs /\ task \in [Tasks -> Task]
    BY DEF Inv, TypeOK, Outs
<1>2. ASSUME NEW u \in Tasks PROVE Sound(task'[u], operation_outputs')
    <2>1. CASE u = t
        BY <1>1, <2>1
    <2>2. CASE u # t
        BY <1>1, <2>2, SoundMonotone DEF Inv
    <2> QED BY <2>1, <2>2
<1> QED BY <1>1, <1>2

\* Idle and freshly spawned tasks are sound.
LEMMA NewTaskSound ==
    ASSUME NEW outs \in Outs
    PROVE  /\ IdleTask \in Task /\ Sound(IdleTask, outs)
           /\ \A w \in Workflows, e \in Executors :
                FreshTask(w, e) \in Task /\ Sound(FreshTask(w, e), outs)
<1>1. NumSteps \in Nat \ {0}
    BY EngineAssumption
<1>2. NoView \in Views
    BY DEF NoView, Views
<1>3. IdleTask \in Task /\ Sound(IdleTask, outs)
    BY <1>1, <1>2 DEF IdleTask, Task, Places, Sound
<1> SUFFICES ASSUME NEW w \in Workflows, NEW e \in Executors
             PROVE  FreshTask(w, e) \in Task /\ Sound(FreshTask(w, e), outs)
    BY <1>3
<1>4. FreshTask(w, e) \in Task
    BY <1>3 DEF FreshTask, Task, Places
<1>5. /\ FreshTask(w, e).at = "check_status"
      /\ FreshTask(w, e).wf = w
      /\ FreshTask(w, e).step_id = 0
    BY DEF FreshTask, IdleTask
<1>6. Sound(FreshTask(w, e), outs)
    BY <1>1, <1>5 DEF Sound, Steps
<1> QED BY <1>4, <1>6

\* No row turns SUCCESS, and a SUCCESS row keeps its output, in the transactions that start and
\* enqueue workflows.
LEMMA UpsertRow ==
    ASSUME NEW r \in Row, NEW e \in Executors, NEW status \in {"PENDING", "ENQUEUED"},
           NEW queue \in {NoQueue, AppQueue, INTERNAL_QUEUE_NAME}, NEW increment \in {0, 1},
           NEW u, u \in {Upsert(r, e, status, queue, increment),
                         Bury(Upsert(r, e, status, queue, increment))}
    PROVE  u \in Row /\ (u.status = "SUCCESS" => r.status = "SUCCESS" /\ u.output = r.output)
<1> DEFINE x == Upsert(r, e, status, queue, increment)
<1>1. NoView \in Views
    BY DEF NoView, Views
<1>2. x \in Row /\ (x.status = "SUCCESS" => r.status = "SUCCESS" /\ x.output = r.output)
    <2>1. CASE r.status = "ABSENT"
        <3>1. x = [status |-> status,
                   recovery_attempts |-> IF status = "ENQUEUED" THEN 0 ELSE 1,
                   executor_id |-> e, queue_name |-> queue, output |-> NoView]
            BY <2>1 DEF Upsert
        <3> QED BY <1>1, <3>1 DEF Row, Statuses
    <2>2. CASE r.status # "ABSENT"
        <3>1. x = r \/ x = [r EXCEPT !.recovery_attempts = @ + increment, !.executor_id = e]
            BY <2>2 DEF Upsert
        <3>2. r.recovery_attempts + increment \in Nat
            BY DEF Row
        <3> QED BY <3>1, <3>2 DEF Row
    <2> QED BY <2>1, <2>2
<1> HIDE DEF x
<1>3. Bury(x) \in Row /\ (Bury(x).status = "SUCCESS" => x.status = "SUCCESS" /\ Bury(x).output = x.output)
    BY <1>2 DEF Bury, Row, Statuses, NoQueue, AppQueue, INTERNAL_QUEUE_NAME
<1> QED BY <1>2, <1>3 DEF x

THEOREM InitInv == Init => Inv
<1> SUFFICES ASSUME Init PROVE Inv
    OBVIOUS
<1>1. NoView \in Views /\ NoView \in [Steps -> Results \cup {None}]
    BY DEF NoView, Views
<1>2. NumSteps \in Nat \ {0}
    BY EngineAssumption
<1>3. AbsentRow \in Row
    BY <1>1 DEF AbsentRow, Row, Statuses
<1>4. IdleTask \in Task
    BY <1>1, <1>2 DEF IdleTask, Task, Places
<1>5. TypeOK
    BY <1>1, <1>3, <1>4 DEF Init, TypeOK
<1>6. \A t \in Tasks : Sound(task[t], operation_outputs)
    BY DEF Init, Sound, IdleTask
<1>7. SuccessIsReplayable
    BY DEF Init, SuccessIsReplayable, AbsentRow
<1> QED BY <1>5, <1>6, <1>7 DEF Inv

\* A step that leaves the checkpoint table alone, lets no row turn SUCCESS and leaves every task
\* sound and every variable in its type preserves the invariant.
LEMMA QuietStep ==
    ASSUME Inv, UNCHANGED operation_outputs,
           workflow_status' \in [Workflows -> Row],
           executor' \in [Executors -> {"down", "launching", "up"}],
           recovering' \in [Executors -> SUBSET Listed],
           starts' \in [Workflows -> Nat], used' \in [Budgets -> Nat],
           task' \in [Tasks -> Task],
           \A t \in Tasks : Sound(task'[t], operation_outputs),
           \A w \in Workflows : workflow_status'[w].status = "SUCCESS" =>
               /\ workflow_status[w].status = "SUCCESS"
               /\ workflow_status'[w].output = workflow_status[w].output
    PROVE  Inv'
<1>1. operation_outputs' \in Outs /\ Extends(operation_outputs, operation_outputs')
    BY DEF Inv, TypeOK, Outs, Extends
<1>2. SuccessIsReplayable'
    BY <1>1, SuccessStable
<1>3. TypeOK'
    BY <1>1 DEF TypeOK, Outs
<1> QED BY <1>2, <1>3 DEF Inv

\* Spawning an execution.
LEMMA SpawnOK ==
    ASSUME Inv, NEW w \in Workflows, NEW e \in Executors, Spawn(w, e)
    PROVE  /\ task' \in [Tasks -> Task]
           /\ starts' \in [Workflows -> Nat]
           /\ \A t \in Tasks : Sound(task'[t], operation_outputs)
<1>1. PICK t \in Tasks : task' = [task EXCEPT ![t] = FreshTask(w, e)]
    BY DEF Spawn
<1>2. operation_outputs \in Outs /\ task \in [Tasks -> Task] /\ starts \in [Workflows -> Nat]
    BY DEF Inv, TypeOK, Outs
<1>3. FreshTask(w, e) \in Task /\ Sound(FreshTask(w, e), operation_outputs)
    BY <1>2, NewTaskSound
<1>4. task' \in [Tasks -> Task]
    BY <1>1, <1>2, <1>3
<1>5. \A u \in Tasks : Sound(task'[u], operation_outputs)
    BY <1>1, <1>2, <1>3 DEF Inv
<1>6. starts' \in [Workflows -> Nat]
    BY <1>2 DEF Spawn
<1> QED BY <1>4, <1>5, <1>6

\* start_workflow, whichever way it ends.
LEMMA StartOK ==
    ASSUME Inv, NEW w \in Workflows, NEW e \in Executors, NEW is_recovery \in BOOLEAN,
           start_workflow(w, e, is_recovery)
    PROVE  /\ workflow_status' \in [Workflows -> Row]
           /\ task' \in [Tasks -> Task]
           /\ starts' \in [Workflows -> Nat]
           /\ \A t \in Tasks : Sound(task'[t], operation_outputs)
           /\ \A x \in Workflows : workflow_status'[x].status = "SUCCESS" =>
               /\ workflow_status[x].status = "SUCCESS"
               /\ workflow_status'[x].output = workflow_status[x].output
<1> DEFINE inc == IF is_recovery THEN 1 ELSE 0
           up == Upsert(workflow_status[w], e, "PENDING", NoQueue, inc)
<1>1. workflow_status \in [Workflows -> Row] /\ inc \in {0, 1}
    BY DEF Inv, TypeOK
<1>2. PICK u \in {up, Bury(up)} : workflow_status' = [workflow_status EXCEPT ![w] = u]
    BY Zenon DEF start_workflow
<1>3. u \in Row /\ (u.status = "SUCCESS" =>
            workflow_status[w].status = "SUCCESS" /\ u.output = workflow_status[w].output)
    <2> HIDE DEF inc
    <2> QED BY <1>1, <1>2, UpsertRow
<1>4. workflow_status' \in [Workflows -> Row]
    BY <1>1, <1>2, <1>3
<1>5. \A x \in Workflows : workflow_status'[x].status = "SUCCESS" =>
               /\ workflow_status[x].status = "SUCCESS"
               /\ workflow_status'[x].output = workflow_status[x].output
    BY <1>1, <1>2, <1>3
<1>6. UNCHANGED <<task, starts>> \/ Spawn(w, e)
    BY DEF start_workflow
<1>7. /\ task' \in [Tasks -> Task]
      /\ starts' \in [Workflows -> Nat]
      /\ \A t \in Tasks : Sound(task'[t], operation_outputs)
    BY <1>6, SpawnOK DEF Inv, TypeOK
<1> QED BY <1>4, <1>5, <1>7

\* Counting towards a bound.
LEMMA SpendOK ==
    ASSUME Inv, NEW b \in Budgets, NEW max, Spend(b, max) PROVE used' \in [Budgets -> Nat]
<1>1. used \in [Budgets -> Nat] /\ used[b] + 1 \in Nat
    BY DEF Inv, TypeOK
<1>2. used' = [used EXCEPT ![b] = used[b] + 1]
    BY DEF Spend
<1> QED BY <1>1, <1>2

\* The listing query returns well-formed entries.
LEMMA ListOK ==
    ASSUME NEW ids PROVE list_pending_for_recovery(ids) \subseteq Listed
<1> SUFFICES ASSUME NEW item \in list_pending_for_recovery(ids) PROVE item \in Listed
    OBVIOUS
<1>1. PICK w \in Workflows :
        item = [wf |-> w, queued |-> workflow_status[w].queue_name # NoQueue]
    BY Zenon DEF list_pending_for_recovery
<1> DEFINE q == workflow_status[w].queue_name # NoQueue
<1>2. q \in BOOLEAN
    OBVIOUS
<1> HIDE DEF q
<1>3. [wf |-> w, queued |-> q] \in Listed
    BY <1>2 DEF Listed
<1> QED BY <1>1, <1>3 DEF q

\* Every step preserves the invariant.
THEOREM StepInv == Inv /\ [Next]_vars => Inv'
<1> SUFFICES ASSUME Inv, [Next]_vars PROVE Inv'
    OBVIOUS
<1> USE DEF Inv, TypeOK
<1>a. operation_outputs \in Outs
    BY DEF Outs
<1>b. AppQueue \in {NoQueue, AppQueue, INTERNAL_QUEUE_NAME} /\ NoQueue \in {NoQueue, AppQueue, INTERNAL_QUEUE_NAME}
      /\ INTERNAL_QUEUE_NAME \in {NoQueue, AppQueue, INTERNAL_QUEUE_NAME}
    OBVIOUS
<1>1. ASSUME NEW e \in Executors, NEW w \in Workflows, RunWorkflow(e, w) PROVE Inv'
    <2>1. start_workflow(w, e, FALSE)
        BY <1>1 DEF RunWorkflow
    <2> QED BY <1>1, <2>1, StartOK, QuietStep DEF RunWorkflow
<1>2. ASSUME NEW e \in Executors, NEW w \in Workflows, EnqueueWorkflow(e, w) PROVE Inv'
    <2> DEFINE up == Upsert(workflow_status[w], e, "ENQUEUED", AppQueue, 0)
    <2>1. PICK u \in {up, Bury(up)} : workflow_status' = [workflow_status EXCEPT ![w] = u]
        BY <1>2, Zenon DEF EnqueueWorkflow
    <2>2. u \in Row /\ (u.status = "SUCCESS" =>
            workflow_status[w].status = "SUCCESS" /\ u.output = workflow_status[w].output)
        BY <1>b, <2>1, UpsertRow
    <2> HIDE DEF up
    <2>3. workflow_status' \in [Workflows -> Row]
        BY <2>1, <2>2
    <2>4. \A x \in Workflows : workflow_status'[x].status = "SUCCESS" =>
               /\ workflow_status[x].status = "SUCCESS"
               /\ workflow_status'[x].output = workflow_status[x].output
        BY <2>1, <2>2
    <2> QED BY <1>2, <2>3, <2>4, QuietStep DEF EnqueueWorkflow
<1>3. ASSUME NEW e \in Executors, NEW w \in Workflows, Dequeue(e, w) PROVE Inv'
    <2>1. /\ task' \in [Tasks -> Task]
          /\ starts' \in [Workflows -> Nat]
          /\ \A t \in Tasks : Sound(task'[t], operation_outputs)
        BY <1>3, SpawnOK DEF Dequeue
    <2> DEFINE row == [workflow_status[w] EXCEPT !.status = "PENDING", !.executor_id = e]
    <2>a. workflow_status' = [workflow_status EXCEPT ![w] = row] /\ workflow_status[w] \in Row
        BY <1>3 DEF Dequeue
    <2>b. row \in Row /\ row.status = "PENDING"
        BY <2>a DEF Row, Statuses
    <2> HIDE DEF row
    <2>2. workflow_status' \in [Workflows -> Row]
        BY <2>a, <2>b
    <2>3. \A x \in Workflows : workflow_status'[x].status = "SUCCESS" =>
               /\ workflow_status[x].status = "SUCCESS"
               /\ workflow_status'[x].output = workflow_status[x].output
        BY <2>a, <2>b
    <2> QED BY <1>3, <2>1, <2>2, <2>3, QuietStep DEF Dequeue
<1>c. ASSUME NEW t \in Tasks, NEW tk \in Task, Sound(tk, operation_outputs),
             task' = [task EXCEPT ![t] = tk],
             UNCHANGED <<workflow_status, operation_outputs, executor, recovering, starts>>,
             used' \in [Budgets -> Nat]
      PROVE Inv'
    <2>1. operation_outputs' \in Outs /\ Extends(operation_outputs, operation_outputs')
        BY <1>a, <1>c DEF Extends
    <2>2. task' \in [Tasks -> Task] /\ \A u \in Tasks : Sound(task'[u], operation_outputs)
        BY <1>c, <2>1, TaskMoves
    <2> QED BY <1>c, <2>2, QuietStep
<1>4. ASSUME NEW t \in Tasks, CheckStatus(t) PROVE Inv'
    <2> DEFINE tk == Observe(task[t], LibError)
               tk2 == [task[t] EXCEPT !.at = "check_output"]
    <2>1. task[t] \in Task /\ Sound(task[t], operation_outputs) /\ task[t].at = "check_status"
        BY <1>4 DEF CheckStatus
    <2>2. tk \in Task /\ Sound(tk, operation_outputs)
        BY <1>a, <2>1, ObserveSound
    <2>3. tk2 \in Task /\ Sound(tk2, operation_outputs)
        BY <2>1 DEF Task, Places, Sound
    <2> HIDE DEF tk, tk2
    <2>4. task' = [task EXCEPT ![t] = tk] \/ task' = [task EXCEPT ![t] = tk2]
        BY <1>4 DEF CheckStatus, tk, tk2
    <2>5. /\ UNCHANGED <<workflow_status, operation_outputs, executor, recovering, starts>>
          /\ used' \in [Budgets -> Nat]
        BY <1>4 DEF CheckStatus
    <2> QED BY <1>c, <2>2, <2>3, <2>4, <2>5
<1>5. ASSUME NEW t \in Tasks, CheckOutput(t) PROVE Inv'
    <2> DEFINE r == operation_outputs[task[t].wf][task[t].step_id]
               tk == Observe(task[t], r)
               tk2 == [task[t] EXCEPT !.at = "closure"]
    <2>1. task[t] \in Task /\ Sound(task[t], operation_outputs) /\ task[t].at = "check_output"
        BY <1>5 DEF CheckOutput
    <2>2. task[t].wf \in Workflows /\ task[t].step_id \in Steps
        BY <2>1 DEF Sound
    <2>3. r # None => tk \in Task /\ Sound(tk, operation_outputs)
        <3> SUFFICES ASSUME r # None PROVE tk \in Task /\ Sound(tk, operation_outputs)
            OBVIOUS
        <3>1. r \in Results
            BY <2>2
        <3> HIDE DEF r
        <3> QED BY <1>a, <2>1, <3>1, ObserveSound DEF r
    <2>4. tk2 \in Task /\ Sound(tk2, operation_outputs)
        BY <2>1 DEF Task, Places, Sound
    <2> HIDE DEF tk, tk2
    <2>5. \/ r # None /\ task' = [task EXCEPT ![t] = tk]
          \/ task' = [task EXCEPT ![t] = tk2]
        BY <1>5 DEF CheckOutput, Recorded, tk, tk2
    <2>6. /\ UNCHANGED <<workflow_status, operation_outputs, executor, recovering, starts>>
          /\ used' \in [Budgets -> Nat]
        BY <1>5 DEF CheckOutput
    <2> QED BY <1>c, <2>3, <2>4, <2>5, <2>6
<1>6. ASSUME NEW t \in Tasks, RunClosure(t) PROVE Inv'
    <2>1. PICK r \in Results : task' = [task EXCEPT ![t] = [@ EXCEPT !.at = "record", !.result = r]]
        BY <1>6 DEF RunClosure
    <2> DEFINE tk == [task[t] EXCEPT !.at = "record", !.result = r]
    <2>2. task[t] \in Task /\ Sound(task[t], operation_outputs) /\ task[t].at = "closure"
        BY <1>6 DEF RunClosure
    <2>3. tk \in Task /\ Sound(tk, operation_outputs)
        BY <2>2 DEF Task, Places, Sound
    <2>4. task' = [task EXCEPT ![t] = tk]
        BY <2>1
    <2> HIDE DEF tk
    <2> QED BY <1>c, <1>6, <2>3, <2>4 DEF RunClosure
<1>15. ASSUME NEW t \in Tasks, CheckFault(t) PROVE Inv'
    <2> DEFINE tk == Observe(task[t], LibError)
    <2>1. /\ task[t] \in Task /\ Sound(task[t], operation_outputs)
          /\ task[t].at \in {"check_status", "check_output"}
        BY <1>15 DEF CheckFault
    <2>2. tk \in Task /\ Sound(tk, operation_outputs)
        BY <1>a, <2>1, ObserveSound
    <2>3. task' = [task EXCEPT ![t] = tk]
        BY <1>15 DEF CheckFault
    <2> HIDE DEF tk
    <2>4. used' \in [Budgets -> Nat]
        BY <1>15, SpendOK DEF CheckFault, Budgets
    <2> QED BY <1>c, <1>15, <2>2, <2>3, <2>4 DEF CheckFault
<1>d. ASSUME NEW t \in Tasks, task[t].at = "record",
             \/ UNCHANGED operation_outputs
             \/ /\ PrimaryKeyFree(task[t].wf, task[t].step_id)
                /\ operation_outputs' =
                    [operation_outputs EXCEPT ![task[t].wf][task[t].step_id] = task[t].result]
      PROVE  /\ task[t].wf \in Workflows /\ task[t].step_id \in Steps
             /\ task[t].result \in Results
             /\ operation_outputs' \in Outs
             /\ Extends(operation_outputs, operation_outputs')
    <2>1. /\ task[t].wf \in Workflows /\ task[t].step_id \in Steps
          /\ task[t].result \in Results
        BY <1>d DEF Sound
    <2>2. operation_outputs' \in Outs
        <3> DEFINE f == [operation_outputs[task[t].wf] EXCEPT ![task[t].step_id] = task[t].result]
        <3>1. f \in [Steps -> Results \cup {None}]
            BY <2>1
        <3>2. \/ UNCHANGED operation_outputs
              \/ operation_outputs' = [operation_outputs EXCEPT ![task[t].wf] = f]
            BY <1>d
        <3> HIDE DEF f
        <3> QED BY <1>a, <2>1, <3>1, <3>2 DEF Outs
    <2>3. Extends(operation_outputs, operation_outputs')
        BY <1>d, <2>1 DEF Extends, PrimaryKeyFree
    <2> QED BY <2>1, <2>2, <2>3
<1>e. ASSUME NEW t \in Tasks, NEW tk \in Task, Sound(tk, operation_outputs'),
             operation_outputs' \in Outs, Extends(operation_outputs, operation_outputs'),
             task' = [task EXCEPT ![t] = tk],
             UNCHANGED <<workflow_status, executor, recovering, starts>>,
             used' \in [Budgets -> Nat]
      PROVE Inv'
    <2>1. task' \in [Tasks -> Task] /\ \A u \in Tasks : Sound(task'[u], operation_outputs')
        BY <1>e, TaskMoves
    <2>2. SuccessIsReplayable'
        BY <1>e, SuccessStable
    <2> QED BY <1>e, <2>1, <2>2 DEF Outs
<1>16. ASSUME NEW t \in Tasks, RecordStep(t) PROVE Inv'
    <2> DEFINE w == task[t].wf
               n == task[t].step_id
               tk == Observe(task[t], task[t].result)
               tk2 == Observe(task[t], LibError)
    <2>1. task[t] \in Task /\ Sound(task[t], operation_outputs) /\ task[t].at = "record"
        BY <1>16 DEF RecordStep
    <2>2. /\ w \in Workflows /\ n \in Steps /\ task[t].result \in Results
          /\ operation_outputs' \in Outs /\ Extends(operation_outputs, operation_outputs')
        BY <1>16, <1>d, <2>1 DEF RecordStep
    <2>3. Sound(task[t], operation_outputs')
        BY <1>a, <2>1, <2>2, SoundMonotone
    <2>4. CASE PrimaryKeyFree(w, n)
        <3>1. /\ operation_outputs' = [operation_outputs EXCEPT ![w][n] = task[t].result]
              /\ task' = [task EXCEPT ![t] = tk]
            BY <1>16, <2>4 DEF RecordStep
        <3>2. operation_outputs'[w][n] = task[t].result
            BY <2>2, <3>1
        <3>3. tk \in Task /\ Sound(tk, operation_outputs')
            BY <2>1, <2>2, <2>3, <3>2, ObserveSound
        <3> HIDE DEF tk
        <3> QED BY <1>e, <1>16, <2>2, <3>1, <3>3 DEF RecordStep
    <2>5. CASE ~PrimaryKeyFree(w, n)
        <3>1. task' = [task EXCEPT ![t] = tk2]
            BY <1>16, <2>5 DEF RecordStep
        <3>2. tk2 \in Task /\ Sound(tk2, operation_outputs')
            BY <2>1, <2>2, <2>3, ObserveSound
        <3> HIDE DEF tk2
        <3> QED BY <1>e, <1>16, <2>2, <3>1, <3>2 DEF RecordStep
    <2> QED BY <2>4, <2>5
<1>17. ASSUME NEW t \in Tasks, RecordFault(t) PROVE Inv'
    <2> DEFINE tk == Observe(task[t], LibError)
    <2>1. task[t] \in Task /\ Sound(task[t], operation_outputs) /\ task[t].at = "record"
        BY <1>17 DEF RecordFault
    <2>2. operation_outputs' \in Outs /\ Extends(operation_outputs, operation_outputs')
        BY <1>17, <1>d, <2>1 DEF RecordFault
    <2>3. Sound(task[t], operation_outputs')
        BY <1>a, <2>1, <2>2, SoundMonotone
    <2>4. tk \in Task /\ Sound(tk, operation_outputs')
        BY <2>1, <2>2, <2>3, ObserveSound
    <2>5. task' = [task EXCEPT ![t] = tk]
        BY <1>17 DEF RecordFault
    <2>6. used' \in [Budgets -> Nat]
        BY <1>17, SpendOK DEF RecordFault, Budgets
    <2> HIDE DEF tk
    <2> QED BY <1>e, <1>17, <2>2, <2>4, <2>5, <2>6 DEF RecordFault
<1>18. ASSUME NEW t \in Tasks, WriteOutcome(t) \/ OutcomeFault(t) PROVE Inv'
    <2> DEFINE w == task[t].wf
               r == WithOutcome(workflow_status[w], task[t])
    <2>1. task[t] \in Task /\ Sound(task[t], operation_outputs) /\ task[t].at = "outcome"
        BY <1>18 DEF WriteOutcome, OutcomeFault
    <2>2. w \in Workflows /\ task[t].view \in Views /\ NoView \in Views
        BY <2>1 DEF Sound, Task, NoView, Views
    <2>3. r \in Row
        <3>1. \/ r = workflow_status[w]
              \/ \E st \in {"SUCCESS", "ERROR"}, out \in Views :
                    r = [workflow_status[w] EXCEPT !.status = st, !.output = out]
            BY <2>2 DEF WithOutcome
        <3>2. PICK old \in Row : old = workflow_status[w]
            BY <2>2
        <3>3. \A st \in {"SUCCESS", "ERROR"}, out \in Views :
                [old EXCEPT !.status = st, !.output = out] \in Row
            BY DEF Row, Statuses
        <3>4. \/ r = old
              \/ \E st \in {"SUCCESS", "ERROR"}, out \in Views :
                    r = [old EXCEPT !.status = st, !.output = out]
            BY <3>1, <3>2
        <3> HIDE DEF r
        <3>5. CASE r = old
            BY <3>5
        <3>6. ASSUME NEW st \in {"SUCCESS", "ERROR"}, NEW out \in Views,
                     r = [old EXCEPT !.status = st, !.output = out]
              PROVE  r \in Row
            BY <3>3, <3>6, Zenon
        <3> QED BY <3>4, <3>5, <3>6
    <2>4. /\ UNCHANGED <<operation_outputs, executor, recovering, starts>>
          /\ task' = [task EXCEPT ![t] = IdleTask]
          /\ UNCHANGED workflow_status \/ workflow_status' = [workflow_status EXCEPT ![w] = r]
        BY <1>18 DEF WriteOutcome, OutcomeFault
    <2>5. used' \in [Budgets -> Nat]
        <3>1. CASE WriteOutcome(t)
            BY <3>1 DEF WriteOutcome
        <3>2. CASE OutcomeFault(t)
            BY <3>2, SpendOK DEF OutcomeFault, Budgets
        <3> QED BY <1>18, <3>1, <3>2
    <2>6. IdleTask \in Task /\ Sound(IdleTask, operation_outputs)
        BY <1>a, NewTaskSound
    <2>7. CASE UNCHANGED workflow_status
        BY <1>c, <2>4, <2>5, <2>6, <2>7
    <2>8. CASE workflow_status' = [workflow_status EXCEPT ![w] = r]
        <3>1. workflow_status' \in [Workflows -> Row]
            BY <2>2, <2>3, <2>8
        <3>2. TypeOK' /\ \A u \in Tasks : Sound(task'[u], operation_outputs')
            BY <2>4, <2>5, <2>6, <3>1
        <3>3. ASSUME NEW x \in Workflows \ Tolerant, workflow_status'[x].status = "SUCCESS"
              PROVE  /\ workflow_status'[x].output = operation_outputs[x]
                     /\ \A n \in Steps : operation_outputs[x][n] \in Results \ Failures
            <4>1. CASE x # w \/ r = workflow_status[w]
                BY <2>2, <2>8, <3>3, <4>1 DEF SuccessIsReplayable
            <4>2. CASE x = w /\ r # workflow_status[w]
                <5>1. r.status = "SUCCESS" /\ workflow_status'[x] = r
                    BY <2>2, <2>8, <3>3, <4>2
                <5>2. task[t].ok /\ r.output = task[t].view
                    BY <4>2, <5>1 DEF WithOutcome, Row
                <5>3. task[t].step_id = NumSteps /\ w \notin Tolerant
                    BY <2>1, <3>3, <4>2, <5>2 DEF Sound
                <5>4. \A n \in Steps : n < NumSteps
                    BY EngineAssumption DEF Steps
                <5>5. \A n \in Steps : /\ operation_outputs[w][n] \in Results \ Failures
                                       /\ task[t].view[n] = operation_outputs[w][n]
                    BY <2>1, <5>3, <5>4 DEF Sound
                <5>6. task[t].view = operation_outputs[w]
                    BY <2>2, <5>5 DEF Views
                <5> QED BY <4>2, <5>1, <5>2, <5>5, <5>6
            <4> QED BY <4>1, <4>2
        <3>4. SuccessIsReplayable'
            BY <2>4, <3>3 DEF SuccessIsReplayable
        <3> QED BY <3>2, <3>4
    <2> QED BY <2>4, <2>7, <2>8
<1>7. ASSUME NEW e \in Executors, Crash(e) PROVE Inv'
    <2>1. used' \in [Budgets -> Nat]
        BY <1>7, SpendOK DEF Crash, Budgets
    <2>2. IdleTask \in Task /\ Sound(IdleTask, operation_outputs)
        BY <1>a, NewTaskSound
    <2>3. \A t \in Tasks : task'[t] \in {IdleTask, task[t]}
        BY <1>7 DEF Crash
    <2>4. task' \in [Tasks -> Task]
        BY <1>7, <2>2, <2>3 DEF Crash
    <2>5. \A t \in Tasks : Sound(task'[t], operation_outputs)
        BY <2>2, <2>3
    <2> QED BY <1>7, <2>1, <2>4, <2>5, QuietStep DEF Crash
<1>8. ASSUME NEW e \in Executors, Launch(e) PROVE Inv'
    <2>1. recovering' \in [Executors -> SUBSET Listed]
        BY <1>8, ListOK DEF Launch
    <2> QED BY <1>8, <2>1, QuietStep DEF Launch
<1>9. ASSUME NEW e \in Executors, RecoverOne(e) PROVE Inv'
    <2>1. PICK item \in recovering[e] :
            /\ recovering' = [recovering EXCEPT ![e] = @ \ {item}]
            /\ \/ ClearQueueAssignment(item.wf)
               \/ UNCHANGED <<workflow_status, task, starts>>
               \/ start_workflow(item.wf, e, TRUE)
            /\ UNCHANGED <<operation_outputs, executor, used>>
        BY <1>9, Zenon DEF RecoverOne
    <2>2. item.wf \in Workflows
        BY DEF Listed
    <2>3. recovering' \in [Executors -> SUBSET Listed]
        BY <2>1
    <2>4. CASE ClearQueueAssignment(item.wf)
        <3> DEFINE w == item.wf
                   r == workflow_status[w]
        <3>1. \/ UNCHANGED workflow_status
              \/ workflow_status' = [workflow_status EXCEPT ![w] = [r EXCEPT !.status = "ENQUEUED"]]
            BY <2>2, <2>4 DEF ClearQueueAssignment
        <3>2. [r EXCEPT !.status = "ENQUEUED"] \in Row
            <4>1. r \in Row
                BY <2>2
            <4> HIDE DEF r
            <4> QED BY <4>1 DEF Row, Statuses
        <3>3. [r EXCEPT !.status = "ENQUEUED"].status # "SUCCESS"
            BY <2>2 DEF Row
        <3>4. workflow_status' \in [Workflows -> Row]
            BY <2>2, <3>1, <3>2
        <3>5. \A x \in Workflows : workflow_status'[x].status = "SUCCESS" =>
                   /\ workflow_status[x].status = "SUCCESS"
                   /\ workflow_status'[x].output = workflow_status[x].output
            BY <2>2, <3>1, <3>3
        <3> QED BY <2>1, <2>3, <2>4, <3>4, <3>5, QuietStep DEF ClearQueueAssignment
    <2>5. CASE UNCHANGED <<workflow_status, task, starts>>
        BY <2>1, <2>3, <2>5, QuietStep
    <2>6. CASE start_workflow(item.wf, e, TRUE)
        BY <2>1, <2>2, <2>3, <2>6, StartOK, QuietStep
    <2> QED BY <2>1, <2>4, <2>5, <2>6
<1>10. ASSUME NEW e \in Executors, FinishLaunch(e) PROVE Inv'
    BY <1>10, QuietStep DEF FinishLaunch
<1>11. ASSUME NEW e \in Executors, RequestRecovery(e) PROVE Inv'
    <2>1. used' \in [Budgets -> Nat]
        BY <1>11, SpendOK DEF RequestRecovery, Budgets
    <2>2. PICK ids \in SUBSET Executors :
            recovering' = [recovering EXCEPT ![e] = @ \cup list_pending_for_recovery(ids)]
        BY <1>11 DEF RequestRecovery
    <2>3. list_pending_for_recovery(ids) \subseteq Listed
        BY ListOK
    <2>4. recovering' \in [Executors -> SUBSET Listed]
        BY <2>2, <2>3
    <2> QED BY <1>11, <2>1, <2>4, QuietStep DEF RequestRecovery
<1>12. ASSUME NEW w \in Workflows, CancelWorkflow(w) PROVE Inv'
    <2>1. used' \in [Budgets -> Nat]
        BY <1>12, SpendOK DEF CancelWorkflow, cancel_workflows, Budgets
    <2>2. workflow_status' \in [Workflows -> Row]
        <3>1. [workflow_status[w] EXCEPT !.status = "CANCELLED", !.queue_name = NoQueue] \in Row
            BY <1>b DEF Row, Statuses
        <3> QED BY <1>12, <3>1 DEF CancelWorkflow, cancel_workflows
    <2>3. \A x \in Workflows : workflow_status'[x].status = "SUCCESS" =>
               /\ workflow_status[x].status = "SUCCESS"
               /\ workflow_status'[x].output = workflow_status[x].output
        BY <1>12 DEF CancelWorkflow, cancel_workflows, Row
    <2> QED BY <1>12, <2>1, <2>2, <2>3, QuietStep DEF CancelWorkflow, cancel_workflows
<1>13. ASSUME NEW w \in Workflows, ResumeWorkflow(w) PROVE Inv'
    <2>0. used' \in [Budgets -> Nat]
        BY <1>13, SpendOK DEF ResumeWorkflow, resume_workflows, Budgets
    <2>1. starts' \in [Workflows -> Nat]
        BY <1>13 DEF ResumeWorkflow, resume_workflows
    <2>2. workflow_status' \in [Workflows -> Row]
        <3>1. [workflow_status[w] EXCEPT !.status = "ENQUEUED",
                    !.queue_name = INTERNAL_QUEUE_NAME, !.recovery_attempts = 0] \in Row
            BY <1>b DEF Row, Statuses
        <3> QED BY <1>13, <3>1 DEF ResumeWorkflow, resume_workflows
    <2>3. \A x \in Workflows : workflow_status'[x].status = "SUCCESS" =>
               /\ workflow_status[x].status = "SUCCESS"
               /\ workflow_status'[x].output = workflow_status[x].output
        BY <1>13 DEF ResumeWorkflow, resume_workflows, Row
    <2> QED BY <1>13, <2>0, <2>1, <2>2, <2>3, QuietStep DEF ResumeWorkflow, resume_workflows
<1>14. CASE UNCHANGED vars
    BY <1>14, QuietStep DEF vars
<1> QED
    BY <1>1, <1>2, <1>3, <1>4, <1>5, <1>6, <1>7, <1>8, <1>9, <1>10, <1>11, <1>12, <1>13, <1>14,
       <1>15, <1>16, <1>17, <1>18
    DEF Next, TaskStep, TaskFault

----
(* The theorems *)

\* The inductive invariant holds of every behaviour.
THEOREM Invariance == Spec => []Inv
<1>1. Init => Inv
    BY InitInv
<1>2. Inv /\ [Next]_vars => Inv'
    BY StepInv
<1> QED BY <1>1, <1>2, PTL DEF Spec

\* Every variable of the engine stays in its type.
THEOREM TypeCorrect == Spec => []TypeOK
<1>1. Inv => TypeOK
    BY DEF Inv
<1> QED BY <1>1, Invariance, PTL

\* However many executions of a workflow overlap, crash and replay, each has seen exactly the
\* recorded result of every step it passed (run_step, replay_step, record_step).
THEOREM ReplayIsDeterministic == Spec => []ReplayAgreement
<1>1. Inv => ReplayAgreement
    BY DEF Inv, Sound, ReplayAgreement, ViewAgrees, Live
<1> QED BY <1>1, Invariance, PTL

\* A SUCCESS row is backed by a complete, failure-free log that yields the same output.
THEOREM SuccessBackedByLog == Spec => []SuccessIsReplayable
<1>1. Inv => SuccessIsReplayable
    BY DEF Inv
<1> QED BY <1>1, Invariance, PTL

----
(* Refinement *)

\* A step that changes no checkpoint and no phase is a stuttering step of DurableExecution.
LEMMA Stutter ==
    ASSUME UNCHANGED operation_outputs,
           \A w \in Workflows : Phase(workflow_status'[w].status) = Phase(workflow_status[w].status)
    PROVE  UNCHANGED Durable!vars
BY DEF Durable!vars

\* The transactions that start or enqueue a workflow leave its phase alone.
LEMMA UpsertPhase ==
    ASSUME NEW r \in Row, NEW e, NEW status \in {"PENDING", "ENQUEUED"}, NEW queue, NEW increment,
           NEW u, u \in {Upsert(r, e, status, queue, increment),
                         Bury(Upsert(r, e, status, queue, increment))}
    PROVE  Phase(u.status) = Phase(r.status)
<1> DEFINE x == Upsert(r, e, status, queue, increment)
<1>1. x.status = r.status \/ (r.status = "ABSENT" /\ x.status \in {"PENDING", "ENQUEUED"})
    <2>1. CASE r.status = "ABSENT"
        BY <2>1 DEF Upsert
    <2>2. CASE r.status # "ABSENT"
        BY <2>2 DEF Upsert, Row
    <2> QED BY <2>1, <2>2
<1>2. Bury(x).status = x.status \/
      (x.status = "PENDING" /\ Bury(x).status = "MAX_RECOVERY_ATTEMPTS_EXCEEDED")
    <2>1. CASE r.status = "ABSENT"
        BY <2>1 DEF Bury, Upsert
    <2>2. CASE r.status # "ABSENT"
        BY <2>2 DEF Bury, Upsert, Row
    <2> QED BY <2>1, <2>2
<1> HIDE DEF x
<1>3. Phase(x.status) = Phase(r.status)
    BY <1>1 DEF Phase
<1>4. Phase(Bury(x).status) = Phase(x.status)
    BY <1>2 DEF Phase
<1> QED BY <1>3, <1>4 DEF x

\* start_workflow changes no phase.
LEMMA StartPhase ==
    ASSUME Inv, NEW w \in Workflows, NEW e \in Executors, NEW is_recovery \in BOOLEAN,
           start_workflow(w, e, is_recovery)
    PROVE  \A x \in Workflows :
               Phase(workflow_status'[x].status) = Phase(workflow_status[x].status)
<1> DEFINE inc == IF is_recovery THEN 1 ELSE 0
           up == Upsert(workflow_status[w], e, "PENDING", NoQueue, inc)
<1>1. workflow_status \in [Workflows -> Row]
    BY DEF Inv, TypeOK
<1>2. PICK u \in {up, Bury(up)} : workflow_status' = [workflow_status EXCEPT ![w] = u]
    BY Zenon DEF start_workflow
<1>3. Phase(u.status) = Phase(workflow_status[w].status)
    <2> HIDE DEF inc
    <2> QED BY <1>1, <1>2, UpsertPhase
<1> QED BY <1>1, <1>2, <1>3

\* Recording a step is Append, or a stuttering step when the table does not change.
LEMMA RecordRefines ==
    ASSUME Inv, NEW t \in Tasks, task[t].at = "record", UNCHANGED workflow_status,
           \/ UNCHANGED operation_outputs
           \/ /\ PrimaryKeyFree(task[t].wf, task[t].step_id)
              /\ operation_outputs' =
                  [operation_outputs EXCEPT ![task[t].wf][task[t].step_id] = task[t].result]
    PROVE  [Durable!Next]_(Durable!vars)
<1>0. PICK w \in Workflows : w = task[t].wf
    BY DEF Inv, Sound
<1> DEFINE n == task[t].step_id
           L == [x \in Workflows \ Tolerant |-> operation_outputs[x]]
<1>1. /\ n \in Steps /\ task[t].result \in Results
      /\ operation_outputs \in Outs /\ Sound(task[t], operation_outputs)
    BY DEF Inv, Sound, TypeOK, Outs
<1>2. CASE UNCHANGED operation_outputs
    BY <1>2, Stutter
<1>3. CASE w \in Tolerant
    BY <1>0, <1>1, <1>3 DEF Durable!vars, Outs
<1>4. CASE /\ w \notin Tolerant
           /\ PrimaryKeyFree(w, n)
           /\ operation_outputs' = [operation_outputs EXCEPT ![w][n] = task[t].result]
    <2>1. L[w] = operation_outputs[w] /\ L[w][n] = None
        BY <1>1, <1>4 DEF PrimaryKeyFree
    <2>2. Durable!Reached(w, n)
        BY <1>0, <1>1, <1>4 DEF Durable!Reached, Durable!Steps, Sound, Steps
    <2>3. [x \in Workflows \ Tolerant |-> operation_outputs'[x]] = [L EXCEPT ![w][n] = task[t].result]
        <3> DEFINE f == [operation_outputs[w] EXCEPT ![n] = task[t].result]
        <3>1. operation_outputs' = [operation_outputs EXCEPT ![w] = f]
            BY <1>4
        <3>2. [L EXCEPT ![w][n] = task[t].result] = [L EXCEPT ![w] = f]
            BY <2>1
        <3> HIDE DEF f
        <3>3. [x \in Workflows \ Tolerant |-> operation_outputs'[x]] = [L EXCEPT ![w] = f]
            BY <1>1, <1>4, <3>1 DEF Outs
        <3> QED BY <3>2, <3>3
    <2>4. n \in Durable!Steps
        BY <1>1 DEF Durable!Steps, Steps
    <2>5. [x \in Workflows \ Tolerant |-> Phase(workflow_status'[x].status)]
            = [x \in Workflows \ Tolerant |-> Phase(workflow_status[x].status)]
        OBVIOUS
    <2>6. Durable!Append(w)
        <3> HIDE DEF L
        <3> SUFFICES \E m \in Durable!Steps, r \in Results :
                        /\ Durable!Reached(w, m)
                        /\ L[w][m] = None
                        /\ [x \in Workflows \ Tolerant |-> operation_outputs'[x]] = [L EXCEPT ![w][m] = r]
            BY <2>5 DEF Durable!Append, L
        <3> QED BY <1>1, <2>1, <2>2, <2>3, <2>4
    <2>7. w \in Workflows \ Tolerant
        BY <1>1, <1>4
    <2> QED BY <2>6, <2>7 DEF Durable!Next
<1> QED BY <1>0, <1>2, <1>3, <1>4

\* A step that changes the row of w alone, and the phase only by a legal move, refines.
LEMMA RowRefines ==
    ASSUME Inv, UNCHANGED operation_outputs, NEW w \in Workflows, NEW r,
           workflow_status' = [workflow_status EXCEPT ![w] = r],
           \/ Phase(r.status) = Phase(workflow_status[w].status)
           \/ /\ Phase(workflow_status[w].status) = "open"
              /\ Phase(r.status) = "cancelled"
           \/ /\ Phase(workflow_status[w].status) = "cancelled"
              /\ Phase(r.status) = "open"
           \/ /\ Phase(workflow_status[w].status) # "cancelled"
              /\ Phase(r.status) = "failed"
           \/ /\ Phase(workflow_status[w].status) # "cancelled"
              /\ Phase(r.status) = "succeeded"
              /\ w \notin Tolerant => Durable!Complete(w)
    PROVE  [Durable!Next]_(Durable!vars)
<1> DEFINE P == [x \in Workflows \ Tolerant |-> Phase(workflow_status[x].status)]
           Q == [x \in Workflows \ Tolerant |-> Phase(workflow_status'[x].status)]
<1>1. workflow_status \in [Workflows -> Row]
    BY DEF Inv, TypeOK
<1>2. \A x \in Workflows : workflow_status'[x] = IF x = w THEN r ELSE workflow_status[x]
    BY <1>1
<1>3. CASE w \in Tolerant \/ Phase(r.status) = Phase(workflow_status[w].status)
    <2>1. Q = P
        BY <1>2, <1>3
    <2> QED BY <2>1 DEF Durable!vars
<1>4. CASE w \notin Tolerant
    <2>1. Q = [P EXCEPT ![w] = Phase(r.status)] /\ P[w] = Phase(workflow_status[w].status)
        <3>1. \A x \in Workflows \ Tolerant :
                Phase(workflow_status'[x].status)
                    = IF x = w THEN Phase(r.status) ELSE Phase(workflow_status[x].status)
            BY <1>2
        <3> HIDE DEF Phase
        <3> QED BY <1>4, <3>1
    <2>2. w \in Workflows \ Tolerant
        BY <1>4
    <2>3. [x \in Workflows \ Tolerant |-> operation_outputs'[x]]
            = [x \in Workflows \ Tolerant |-> operation_outputs[x]]
        OBVIOUS
    <2>4. CASE P[w] = "open" /\ Phase(r.status) = "cancelled"
        <3>1. Durable!Cancel(w)
            BY <2>1, <2>3, <2>4 DEF Durable!Cancel
        <3> QED BY <2>2, <3>1 DEF Durable!Next
    <2>5. CASE P[w] = "cancelled" /\ Phase(r.status) = "open"
        <3>1. Durable!Reopen(w)
            BY <2>1, <2>3, <2>5 DEF Durable!Reopen
        <3> QED BY <2>2, <3>1 DEF Durable!Next
    <2>6. CASE P[w] # "cancelled" /\ Phase(r.status) = "failed"
        <3>1. Durable!Fail(w)
            BY <2>1, <2>3, <2>6 DEF Durable!Fail
        <3> QED BY <2>2, <3>1 DEF Durable!Next
    <2>7. CASE P[w] # "cancelled" /\ Phase(r.status) = "succeeded" /\ Durable!Complete(w)
        <3>1. Durable!Succeed(w)
            BY <2>1, <2>3, <2>7 DEF Durable!Succeed
        <3> QED BY <2>2, <3>1 DEF Durable!Next
    <2> QED
        BY <1>3, <1>4, <2>1, <2>4, <2>5, <2>6, <2>7
<1> QED BY <1>3, <1>4

\* Every step of the engine is a step of DurableExecution or leaves its variables unchanged.
LEMMA StepRefines == Inv /\ [Next]_vars => [Durable!Next]_(Durable!vars)
<1> SUFFICES ASSUME Inv, [Next]_vars PROVE [Durable!Next]_(Durable!vars)
    OBVIOUS
<1>0. workflow_status \in [Workflows -> Row] /\ recovering \in [Executors -> SUBSET Listed]
    BY DEF Inv, TypeOK
<1>1. ASSUME NEW e \in Executors, NEW w \in Workflows, RunWorkflow(e, w)
      PROVE [Durable!Next]_(Durable!vars)
    BY <1>1, StartPhase, Stutter DEF RunWorkflow
<1>2. ASSUME NEW e \in Executors, NEW w \in Workflows, EnqueueWorkflow(e, w)
      PROVE [Durable!Next]_(Durable!vars)
    <2> DEFINE up == Upsert(workflow_status[w], e, "ENQUEUED", AppQueue, 0)
    <2>1. PICK u \in {up, Bury(up)} : workflow_status' = [workflow_status EXCEPT ![w] = u]
        BY <1>2, Zenon DEF EnqueueWorkflow
    <2>2. Phase(u.status) = Phase(workflow_status[w].status)
        BY <1>0, <2>1, UpsertPhase
    <2> HIDE DEF up
    <2> QED BY <1>2, <2>1, <2>2, RowRefines DEF EnqueueWorkflow
<1>3. ASSUME NEW e \in Executors, NEW w \in Workflows, Dequeue(e, w)
      PROVE [Durable!Next]_(Durable!vars)
    <2> DEFINE r == [workflow_status[w] EXCEPT !.status = "PENDING", !.executor_id = e]
    <2>1. workflow_status[w].status = "ENQUEUED" /\ r.status = "PENDING"
        BY <1>0, <1>3 DEF Dequeue, Row
    <2>2. Phase(r.status) = Phase(workflow_status[w].status)
        BY <2>1 DEF Phase
    <2>3. workflow_status' = [workflow_status EXCEPT ![w] = r]
        BY <1>3 DEF Dequeue
    <2> HIDE DEF r
    <2> QED BY <1>3, <2>2, <2>3, RowRefines DEF Dequeue
<1>4. ASSUME NEW t \in Tasks,
             CheckStatus(t) \/ CheckOutput(t) \/ RunClosure(t) \/ CheckFault(t)
      PROVE [Durable!Next]_(Durable!vars)
    <2>1. UNCHANGED <<workflow_status, operation_outputs>>
        BY <1>4 DEF CheckStatus, CheckOutput, RunClosure, CheckFault
    <2> QED BY <2>1, Stutter
<1>5. ASSUME NEW t \in Tasks, RecordStep(t) \/ RecordFault(t)
      PROVE [Durable!Next]_(Durable!vars)
    BY <1>5, RecordRefines DEF RecordStep, RecordFault
<1>6. ASSUME NEW t \in Tasks, WriteOutcome(t) \/ OutcomeFault(t)
      PROVE [Durable!Next]_(Durable!vars)
    <2> DEFINE w == task[t].wf
               r == WithOutcome(workflow_status[w], task[t])
    <2>1. Sound(task[t], operation_outputs) /\ task[t].at = "outcome"
        BY <1>6 DEF WriteOutcome, OutcomeFault, Inv
    <2>2. w \in Workflows
        BY <2>1 DEF Sound
    <2>3. /\ UNCHANGED operation_outputs
          /\ UNCHANGED workflow_status \/ workflow_status' = [workflow_status EXCEPT ![w] = r]
        BY <1>6 DEF WriteOutcome, OutcomeFault
    <2>4. CASE ~OutcomeApplies(workflow_status[w])
        <3>1. r = workflow_status[w]
            BY <2>4 DEF WithOutcome
        <3> QED BY <1>0, <2>2, <2>3, <3>1, Stutter
    <2>5. CASE OutcomeApplies(workflow_status[w])
        <3>1. Phase(workflow_status[w].status) # "cancelled"
            BY <1>0, <2>2, <2>5 DEF OutcomeApplies, Phase, Row, Statuses
        <3>2. r.status = IF task[t].ok THEN "SUCCESS" ELSE "ERROR"
            BY <1>0, <2>2, <2>5 DEF WithOutcome, Row
        <3>3. CASE ~task[t].ok
            <4>1. Phase(r.status) = "failed"
                BY <3>2, <3>3 DEF Phase
            <4> HIDE DEF r
            <4> QED BY <2>2, <2>3, <3>1, <4>1, RowRefines, Stutter
        <3>4. CASE task[t].ok
            <4>1. Phase(r.status) = "succeeded"
                BY <3>2, <3>4 DEF Phase
            <4>2. ASSUME w \notin Tolerant PROVE Durable!Complete(w)
                <5>1. task[t].step_id = NumSteps
                    BY <2>1, <3>4 DEF Sound
                <5> QED BY <2>1, <2>2, <4>2, <5>1
                    DEF Sound, Durable!Complete, Durable!Reached, Durable!Steps, Steps
            <4> HIDE DEF r
            <4> QED BY <2>2, <2>3, <3>1, <4>1, <4>2, RowRefines, Stutter
        <3> QED BY <3>3, <3>4
    <2> QED BY <2>4, <2>5
<1>7. ASSUME NEW e \in Executors,
             Crash(e) \/ Launch(e) \/ FinishLaunch(e) \/ RequestRecovery(e)
      PROVE [Durable!Next]_(Durable!vars)
    <2>1. UNCHANGED <<workflow_status, operation_outputs>>
        BY <1>7 DEF Crash, Launch, FinishLaunch, RequestRecovery
    <2> QED BY <2>1, Stutter
<1>8. ASSUME NEW e \in Executors, RecoverOne(e) PROVE [Durable!Next]_(Durable!vars)
    <2>1. PICK item \in recovering[e] :
            /\ \/ ClearQueueAssignment(item.wf)
               \/ UNCHANGED <<workflow_status, task, starts>>
               \/ start_workflow(item.wf, e, TRUE)
            /\ UNCHANGED <<operation_outputs, executor, used>>
        BY <1>8, Zenon DEF RecoverOne
    <2> DEFINE w == item.wf
               r == IF /\ workflow_status[w].queue_name # NoQueue
                       /\ workflow_status[w].status = "PENDING"
                    THEN [workflow_status[w] EXCEPT !.status = "ENQUEUED"]
                    ELSE workflow_status[w]
    <2>2. w \in Workflows
        BY <1>0 DEF Listed
    <2>3. CASE ClearQueueAssignment(w)
        <3>1. workflow_status' = [workflow_status EXCEPT ![w] = r]
            BY <2>3 DEF ClearQueueAssignment
        <3>2. \/ r.status = workflow_status[w].status
              \/ workflow_status[w].status = "PENDING" /\ r.status = "ENQUEUED"
            BY <1>0, <2>2 DEF Row
        <3>3. Phase(r.status) = Phase(workflow_status[w].status)
            BY <3>2 DEF Phase
        <3> HIDE DEF r
        <3> QED BY <2>1, <2>2, <3>1, <3>3, RowRefines
    <2>4. CASE UNCHANGED <<workflow_status, task, starts>>
        BY <2>1, <2>4, Stutter
    <2>5. CASE start_workflow(w, e, TRUE)
        BY <2>1, <2>2, <2>5, StartPhase, Stutter
    <2> QED BY <2>1, <2>3, <2>4, <2>5
<1>9. ASSUME NEW w \in Workflows, CancelWorkflow(w) PROVE [Durable!Next]_(Durable!vars)
    <2> DEFINE r == [workflow_status[w] EXCEPT !.status = "CANCELLED", !.queue_name = NoQueue]
    <2>1. /\ workflow_status[w].status \notin {"ABSENT", "SUCCESS", "ERROR", "CANCELLED"}
          /\ r.status = "CANCELLED"
        BY <1>0, <1>9 DEF CancelWorkflow, cancel_workflows, Row
    <2>2. Phase(workflow_status[w].status) = "open" /\ Phase(r.status) = "cancelled"
        BY <2>1 DEF Phase
    <2>3. workflow_status' = [workflow_status EXCEPT ![w] = r]
        BY <1>9 DEF CancelWorkflow, cancel_workflows
    <2> HIDE DEF r
    <2> QED BY <1>9, <2>2, <2>3, RowRefines DEF CancelWorkflow, cancel_workflows
<1>10. ASSUME NEW w \in Workflows, ResumeWorkflow(w) PROVE [Durable!Next]_(Durable!vars)
    <2> DEFINE r == [workflow_status[w] EXCEPT !.status = "ENQUEUED",
                        !.queue_name = INTERNAL_QUEUE_NAME, !.recovery_attempts = 0]
    <2>1. /\ workflow_status[w].status \notin {"ABSENT", "SUCCESS", "ERROR"}
          /\ r.status = "ENQUEUED"
        BY <1>0, <1>10 DEF ResumeWorkflow, resume_workflows, Row
    <2>2. Phase(workflow_status[w].status) \in {"open", "cancelled"} /\ Phase(r.status) = "open"
        BY <2>1 DEF Phase
    <2>3. workflow_status' = [workflow_status EXCEPT ![w] = r]
        BY <1>10 DEF ResumeWorkflow, resume_workflows
    <2> HIDE DEF r
    <2> QED BY <1>10, <2>2, <2>3, RowRefines DEF ResumeWorkflow, resume_workflows
<1>11. CASE UNCHANGED vars
    BY <1>11, Stutter DEF vars
<1> QED
    BY <1>1, <1>2, <1>3, <1>4, <1>5, <1>6, <1>7, <1>8, <1>9, <1>10, <1>11
    DEF Next, TaskStep, TaskFault

\* The engine implements DurableExecution.
THEOREM Refinement == Spec => ImplementsDurableExecution
<1>1. Init => Durable!Init
    BY DEF Init, Durable!Init, Durable!Steps, Steps, NoView, AbsentRow, Phase
<1>2. Inv /\ [Next]_vars => [Durable!Next]_(Durable!vars)
    BY StepRefines
<1> QED BY <1>1, <1>2, Invariance, PTL DEF Spec, ImplementsDurableExecution, Durable!Spec

----
(* Workflows with one owner *)

\* The row is held by executor e: only e's task or e's recovery loop acts for it.
Held(r, e) == r.status \in {"PENDING", "CANCELLED"} /\ r.executor_id = e

\* No task runs w.
Free(w) == \A t \in Tasks : Live(t) => task[t].wf # w

\* A workflow that is run from its one site stays there, and is within the dead-letter limit while it is
\* PENDING; a queued one stays on its queue until it ends.
RowOk(w, r) ==
    /\ r.status # "ABSENT" /\ Sites[w] # {} =>
          /\ r.status # "ENQUEUED" /\ r.queue_name = NoQueue /\ r.executor_id \in Sites[w]
          /\ r.status = "PENDING" /\ MaxRetries > 0 => r.recovery_attempts <= MaxRetries + 1
    /\ Sites[w] = {} =>
          /\ r.recovery_attempts = 0
          /\ r.status \in {"PENDING", "ENQUEUED"} => r.queue_name # NoQueue

\* A task runs on the executor that holds its workflow, and the step it is about to run or record is not
\* recorded.
TaskOk(tk, rows, outs, up) ==
    tk.at # "idle" =>
        /\ tk.on \in Executors /\ Held(rows[tk.wf], tk.on) /\ up[tk.on] # "down"
        /\ tk.at \in {"closure", "record"} => outs[tk.wf][tk.step_id] = None

\* A workflow that is listed for recovery is held by the executor that listed it, and nobody runs it.
ListInv ==
    \A e \in Executors : \A item \in recovering[e] :
        /\ Held(workflow_status[item.wf], e) /\ executor[e] # "down"
        /\ item.queued = (Sites[item.wf] = {})
        /\ Free(item.wf)

OwnerInv ==
    /\ \A w \in Workflows : RowOk(w, workflow_status[w])
    /\ \A t \in Tasks : TaskOk(task[t], workflow_status, operation_outputs, executor)
    /\ ListInv
    /\ SingleExecution

\* Operators neither resume a workflow nor ask for a recovery.
LEMMA NoRequests ==
    ASSUME OneOwner, Inv
    PROVE  /\ \A e \in Executors : ~RequestRecovery(e)
           /\ \A w \in Workflows : ~ResumeWorkflow(w)
<1>1. used["recoveries"] \in Nat /\ used["resumes"] \in Nat
    BY DEF Inv, TypeOK, Budgets
<1> QED BY <1>1 DEF OneOwner, RequestRecovery, ResumeWorkflow, Spend

\* A live task runs a workflow of this module; no other task runs it, and it is not listed.
LEMMA LiveTask ==
    ASSUME Inv, OwnerInv, NEW t \in Tasks, Live(t)
    PROVE  /\ task[t].wf \in Workflows /\ task[t].on \in Executors
           /\ Held(workflow_status[task[t].wf], task[t].on)
           /\ \A u \in Tasks \ {t} : Live(u) => task[u].wf # task[t].wf
           /\ \A e \in Executors : \A item \in recovering[e] : item.wf # task[t].wf
<1>1. Sound(task[t], operation_outputs) /\ TaskOk(task[t], workflow_status, operation_outputs, executor)
    BY DEF Inv, OwnerInv
<1> QED BY <1>1 DEF OwnerInv, Sound, TaskOk, Live, SingleExecution, ListInv, Free

\* The row of w changes. Either whoever holds it holds it still, or nobody holds it; in the second case a task
\* may begin to run it.
LEMMA RowChanges ==
    ASSUME Inv, OwnerInv, Inv', NEW w \in Workflows, NEW r \in Row, RowOk(w, r), NEW e,
           workflow_status' = [workflow_status EXCEPT ![w] = r], UNCHANGED <<operation_outputs, executor>>,
           \A x \in Executors : recovering'[x] \subseteq recovering[x],
           \/ UNCHANGED task /\ \A x \in Executors : Held(workflow_status[w], x) => Held(r, x)
           \/ /\ Free(w) /\ \A x \in Executors : \A item \in recovering'[x] : item.wf # w
              /\ UNCHANGED task \/ (e \in Executors /\ Spawn(w, e) /\ Held(r, e) /\ executor[e] # "down")
    PROVE  OwnerInv'
<1>1. /\ workflow_status \in [Workflows -> Row] /\ task \in [Tasks -> Task]
      /\ recovering \in [Executors -> SUBSET Listed]
    BY DEF Inv, TypeOK
<1>2. workflow_status'[w] = r /\ \A v \in Workflows \ {w} : workflow_status'[v] = workflow_status[v]
    BY <1>1
<1>3. \A x \in Executors : \A item \in recovering[x] : item.wf \in Workflows
    BY <1>1 DEF Listed
<1>4. \A v \in Workflows : RowOk(v, workflow_status'[v])
    BY <1>2 DEF OwnerInv
<1>5. CASE UNCHANGED task
    <2>1. ASSUME NEW t \in Tasks PROVE TaskOk(task'[t], workflow_status', operation_outputs', executor')
        <3>1. TaskOk(task[t], workflow_status, operation_outputs, executor) /\ Sound(task[t], operation_outputs)
            BY DEF OwnerInv, Inv
        <3>2. Live(t) => Held(workflow_status'[task[t].wf], task[t].on)
            BY <1>2, <3>1 DEF TaskOk, Sound, Free, Live
        <3> QED BY <1>5, <3>1, <3>2 DEF TaskOk, Live
    <2>2. ListInv'
        <3> SUFFICES ASSUME NEW x \in Executors, NEW item \in recovering'[x]
                     PROVE  /\ Held(workflow_status'[item.wf], x) /\ executor'[x] # "down"
                            /\ item.queued = (Sites[item.wf] = {}) /\ Free(item.wf)'
            BY DEF ListInv
        <3>1. /\ Held(workflow_status[item.wf], x) /\ executor[x] # "down" /\ item.wf \in Workflows
              /\ item.queued = (Sites[item.wf] = {}) /\ Free(item.wf)
            BY <1>3 DEF OwnerInv, ListInv
        <3>2. Held(workflow_status'[item.wf], x)
            BY <1>2, <3>1
        <3> QED BY <1>5, <3>1, <3>2 DEF Free, Live
    <2>3. SingleExecution'
        BY <1>5 DEF OwnerInv, SingleExecution, Live
    <2> QED BY <1>4, <2>1, <2>2, <2>3 DEF OwnerInv
<1>6. CASE /\ Free(w) /\ \A x \in Executors : \A item \in recovering'[x] : item.wf # w
           /\ e \in Executors /\ Spawn(w, e) /\ Held(r, e) /\ executor[e] # "down"
    <2>1. PICK t \in Tasks : ~Live(t) /\ task' = [task EXCEPT ![t] = FreshTask(w, e)]
        BY <1>6 DEF Spawn
    <2>2. task'[t] = FreshTask(w, e) /\ \A u \in Tasks \ {t} : task'[u] = task[u]
        BY <1>1, <2>1
    <2>3. FreshTask(w, e).at = "check_status" /\ FreshTask(w, e).wf = w /\ FreshTask(w, e).on = e
        BY DEF FreshTask, IdleTask
    <2>4. ASSUME NEW u \in Tasks PROVE TaskOk(task'[u], workflow_status', operation_outputs', executor')
        <3>1. CASE u = t
            BY <1>2, <1>6, <2>2, <2>3, <3>1 DEF TaskOk
        <3>2. CASE u # t
            <4>1. TaskOk(task[u], workflow_status, operation_outputs, executor) /\ Sound(task[u], operation_outputs)
                BY DEF OwnerInv, Inv
            <4>2. Live(u) => workflow_status'[task[u].wf] = workflow_status[task[u].wf]
                BY <1>2, <1>6, <4>1 DEF Sound, Free, Live
            <4> QED BY <2>2, <3>2, <4>1, <4>2 DEF TaskOk, Live
        <3> QED BY <3>1, <3>2
    <2>5. ListInv'
        <3> SUFFICES ASSUME NEW x \in Executors, NEW item \in recovering'[x]
                     PROVE  /\ Held(workflow_status'[item.wf], x) /\ executor'[x] # "down"
                            /\ item.queued = (Sites[item.wf] = {}) /\ Free(item.wf)'
            BY DEF ListInv
        <3>1. /\ Held(workflow_status[item.wf], x) /\ executor[x] # "down" /\ item.wf \in Workflows
              /\ item.queued = (Sites[item.wf] = {}) /\ Free(item.wf)
            BY <1>3 DEF OwnerInv, ListInv
        <3>2. item.wf # w
            BY <1>6
        <3>3. Held(workflow_status'[item.wf], x)
            BY <1>2, <3>1, <3>2
        <3>4. \A u \in Tasks : task'[u].at # "idle" => task'[u].wf # item.wf
            BY <2>2, <2>3, <3>1, <3>2 DEF Free, Live
        <3> QED BY <3>1, <3>3, <3>4 DEF Free, Live
    <2>6. SingleExecution'
        <3>1. \A u \in Tasks \ {t} : task'[u].at # "idle" => task'[u].wf # w
            BY <1>6, <2>2 DEF Free, Live
        <3> QED BY <2>2, <2>3, <3>1 DEF OwnerInv, SingleExecution, Live
    <2> QED BY <1>4, <2>4, <2>5, <2>6 DEF OwnerInv
<1> QED BY <1>5, <1>6

\* A live task goes on or ends, its row as it was or, once it has ended, with an outcome.
LEMMA TaskChanges ==
    ASSUME Inv, OwnerInv, Inv', NEW t \in Tasks, Live(t), NEW w \in Workflows, w = task[t].wf, NEW tk,
           task' = [task EXCEPT ![t] = tk], UNCHANGED <<executor, recovering>>,
           tk.at # "idle" => /\ tk.wf = w /\ tk.on = task[t].on /\ UNCHANGED workflow_status
                             /\ tk.at \in {"closure", "record"} => operation_outputs'[w][tk.step_id] = None,
           \A v \in Workflows \ {w} : workflow_status'[v] = workflow_status[v] /\ operation_outputs'[v] = operation_outputs[v],
           RowOk(w, workflow_status'[w])
    PROVE  OwnerInv'
<1>1. task \in [Tasks -> Task] /\ recovering \in [Executors -> SUBSET Listed]
    BY DEF Inv, TypeOK
<1>2. task'[t] = tk /\ \A u \in Tasks \ {t} : task'[u] = task[u]
    BY <1>1
<1>3. /\ \A u \in Tasks \ {t} : Live(u) => task[u].wf # w
      /\ \A e \in Executors : \A item \in recovering[e] : item.wf # w
    BY LiveTask
<1>4. \A v \in Workflows : RowOk(v, workflow_status'[v])
    BY DEF OwnerInv
<1>5. ASSUME NEW u \in Tasks PROVE TaskOk(task'[u], workflow_status', operation_outputs', executor')
    <2>1. TaskOk(task[u], workflow_status, operation_outputs, executor) /\ Sound(task[u], operation_outputs)
        BY DEF OwnerInv, Inv
    <2>2. CASE u = t
        BY <1>2, <2>1, <2>2 DEF TaskOk, Live
    <2>3. CASE u # t
        <3>1. Live(u) => task[u].wf \in Workflows \ {w}
            BY <1>3, <2>1, <2>3 DEF Sound, Live
        <3> QED BY <1>2, <2>1, <2>3, <3>1 DEF TaskOk, Live
    <2> QED BY <2>2, <2>3
<1>6. ListInv'
    <2> SUFFICES ASSUME NEW x \in Executors, NEW item \in recovering[x]
                 PROVE  /\ Held(workflow_status'[item.wf], x) /\ executor'[x] # "down"
                        /\ item.queued = (Sites[item.wf] = {}) /\ Free(item.wf)'
        BY DEF ListInv
    <2>1. /\ Held(workflow_status[item.wf], x) /\ executor[x] # "down" /\ item.wf \in Workflows
          /\ item.queued = (Sites[item.wf] = {}) /\ Free(item.wf) /\ item.wf # w
        BY <1>1, <1>3 DEF OwnerInv, ListInv, Listed
    <2>2. \A u \in Tasks : task'[u].at # "idle" => task'[u].wf # item.wf
        BY <1>2, <2>1 DEF Free, Live
    <2> QED BY <2>1, <2>2 DEF Free, Live
<1>7. SingleExecution'
    <2>1. \A u \in Tasks \ {t} : task'[u].at # "idle" => task'[u].wf # w
        BY <1>2, <1>3 DEF Live
    <2> QED BY <1>2, <2>1 DEF OwnerInv, SingleExecution, Live
<1> QED BY <1>4, <1>5, <1>6, <1>7 DEF OwnerInv

\* The row that start_workflow leaves of a workflow run from its site: the caller's, within the limit while it
\* is PENDING; and unless a recovery counts one attempt more, as it was.
LEMMA StartedRow ==
    ASSUME Inv, NEW w \in Workflows, NEW e \in Executors, Sites[w] = {e}, RowOk(w, workflow_status[w]),
           NEW is_recovery \in BOOLEAN, NEW r,
           r = Upsert(workflow_status[w], e, "PENDING", NoQueue, IF is_recovery THEN 1 ELSE 0)
    PROVE  /\ r \in Row /\ Bury(r) \in Row
           /\ DeadLettered(r) => RowOk(w, Bury(r)) /\ (~is_recovery => Bury(r) = r)
           /\ ~DeadLettered(r) => r.status \in {"SUCCESS", "ERROR"} \/ RowOk(w, r)
           /\ r.status \in {"SUCCESS", "ERROR"} => RowOk(w, r)
           /\ r.executor_id = e
           /\ r.status = IF workflow_status[w].status = "ABSENT" THEN "PENDING" ELSE workflow_status[w].status
           /\ r.output = IF workflow_status[w].status = "ABSENT" THEN NoView ELSE workflow_status[w].output
<1> DEFINE old == workflow_status[w]
           inc == IF is_recovery THEN 1 ELSE 0
<1>1. old \in Row /\ old.recovery_attempts \in Nat /\ inc \in {0, 1} /\ MaxRetries \in Nat
    BY EngineAssumption DEF Inv, TypeOK, Row
<1>2. r \in Row /\ Bury(r) \in Row
    <2> HIDE DEF inc
    <2>1. r = Upsert(old, e, "PENDING", NoQueue, inc)
        BY DEF inc
    <2> HIDE DEF old
    <2>2. NoQueue \in {NoQueue, AppQueue, INTERNAL_QUEUE_NAME}
        OBVIOUS
    <2> QED BY <1>1, <2>1, <2>2, UpsertRow
<1>3. CASE old.status = "ABSENT"
    <2>1. r = [status |-> "PENDING", recovery_attempts |-> 1, executor_id |-> e, queue_name |-> NoQueue,
               output |-> NoView]
        BY <1>3 DEF Upsert
    <2>2. ~DeadLettered(r)
        BY <1>1, <2>1 DEF DeadLettered
    <2>3. RowOk(w, r)
        BY <1>1, <2>1 DEF RowOk
    <2> QED BY <1>2, <1>3, <2>1, <2>2, <2>3
<1>4. CASE old.status # "ABSENT"
    <2>1. r = [old EXCEPT !.recovery_attempts = old.recovery_attempts + inc, !.executor_id = e]
        BY <1>4 DEF Upsert
    <2>2. /\ r.status = old.status /\ r.recovery_attempts = old.recovery_attempts + inc
          /\ r.executor_id = e /\ r.queue_name = old.queue_name /\ r.output = old.output
        BY <1>1, <2>1 DEF Row
    <2>3. /\ old.status # "ENQUEUED" /\ old.queue_name = NoQueue
          /\ old.status = "PENDING" /\ MaxRetries > 0 => old.recovery_attempts <= MaxRetries + 1
        BY <1>4 DEF RowOk
    <2>4. ~is_recovery => inc = 0
        OBVIOUS
    <2> HIDE DEF old, inc
    <2>5. DeadLettered(r) => RowOk(w, Bury(r)) /\ (~is_recovery => Bury(r) = r)
        <3>1. CASE r.status = "PENDING"
            <4>1. Bury(r) = [r EXCEPT !.status = "MAX_RECOVERY_ATTEMPTS_EXCEEDED", !.queue_name = NoQueue]
                BY <3>1 DEF Bury
            <4>2. /\ Bury(r).status = "MAX_RECOVERY_ATTEMPTS_EXCEEDED" /\ Bury(r).queue_name = NoQueue
                  /\ Bury(r).executor_id = e
                BY <1>2, <2>2, <4>1 DEF Row
            <4>3. RowOk(w, Bury(r))
                BY <4>2 DEF RowOk
            <4>4. DeadLettered(r) => is_recovery
                BY <1>1, <2>2, <2>3, <2>4, <3>1 DEF DeadLettered
            <4> QED BY <4>3, <4>4
        <3>2. CASE r.status # "PENDING"
            <4>1. Bury(r) = r
                BY <3>2 DEF Bury
            <4> QED BY <2>2, <2>3, <3>2, <4>1 DEF RowOk
        <3> QED BY <3>1, <3>2
    <2>6. ~DeadLettered(r) => r.status \in {"SUCCESS", "ERROR"} \/ RowOk(w, r)
        BY <1>1, <2>2, <2>3 DEF DeadLettered, RowOk
    <2>7. r.status \in {"SUCCESS", "ERROR"} => RowOk(w, r)
        BY <2>2, <2>3 DEF RowOk
    <2> QED BY <1>2, <1>4, <2>2, <2>5, <2>6, <2>7 DEF old
<1> QED BY <1>3, <1>4

LEMMA StartOwner ==
    ASSUME OneOwner, Inv, OwnerInv, Inv', NEW w \in Workflows, NEW e \in Executors, Sites[w] = {e},
           NEW is_recovery \in BOOLEAN, start_workflow(w, e, is_recovery), executor[e] # "down",
           UNCHANGED <<operation_outputs, executor>>, \A x \in Executors : recovering'[x] \subseteq recovering[x],
           is_recovery => /\ Held(workflow_status[w], e) /\ Free(w)
                          /\ \A x \in Executors : \A item \in recovering'[x] : item.wf # w
    PROVE  OwnerInv'
<1>1. PICK r : r = Upsert(workflow_status[w], e, "PENDING", NoQueue, IF is_recovery THEN 1 ELSE 0)
    OBVIOUS
<1>2. \/ DeadLettered(r) /\ workflow_status' = [workflow_status EXCEPT ![w] = Bury(r)] /\ UNCHANGED task
      \/ /\ ~DeadLettered(r) /\ ShouldSkip(w, r, is_recovery)
         /\ workflow_status' = [workflow_status EXCEPT ![w] = r] /\ UNCHANGED task
      \/ /\ ~DeadLettered(r) /\ ~ShouldSkip(w, r, is_recovery)
         /\ workflow_status' = [workflow_status EXCEPT ![w] = r] /\ Spawn(w, e)
    BY <1>1, Zenon DEF start_workflow
<1>3. RowOk(w, workflow_status[w]) /\ (Exists(w) => workflow_status[w].executor_id = e)
    BY DEF OwnerInv, RowOk, Exists
<1>4. /\ r \in Row /\ Bury(r) \in Row
      /\ DeadLettered(r) => RowOk(w, Bury(r)) /\ (~is_recovery => Bury(r) = r)
      /\ ~DeadLettered(r) => RowOk(w, r)
      /\ r.executor_id = e
      /\ r.status = IF workflow_status[w].status = "ABSENT" THEN "PENDING" ELSE workflow_status[w].status
    <2>1. ~DeadLettered(r) => RowOk(w, r)
        BY <1>1, <1>3, StartedRow
    <2> QED BY <1>1, <1>3, <2>1, StartedRow
<1>5. ~Exists(w) => Free(w) /\ \A x \in Executors : \A item \in recovering'[x] : item.wf # w
    <2>1. ~Exists(w) => \A x \in Executors : ~Held(workflow_status[w], x)
        BY DEF Exists, Held
    <2> QED BY <2>1, LiveTask DEF Free, OwnerInv, ListInv
<1>6. Exists(w) => \A x \in Executors : Held(workflow_status[w], x) => Held(r, x)
    BY <1>3, <1>4 DEF Held, Exists
<1>7. PICK u \in Row :
        /\ workflow_status' = [workflow_status EXCEPT ![w] = u] /\ RowOk(w, u)
        /\ u = r \/ is_recovery
        /\ UNCHANGED task \/ (Spawn(w, e) /\ u = r /\ ~ShouldSkip(w, r, is_recovery))
    BY <1>2, <1>4
<1>8. CASE is_recovery \/ ~Exists(w)
    <2>1. Held(r, e)
        BY <1>4, <1>8 DEF Held, Exists
    <2> QED BY <1>5, <1>7, <1>8, <2>1, RowChanges
<1>9. CASE ~is_recovery /\ Exists(w)
    <2>1. UNCHANGED task /\ u = r
        BY <1>7, <1>9 DEF ShouldSkip
    <2> QED BY <1>6, <1>7, <1>9, <2>1, RowChanges
<1> QED BY <1>8, <1>9

\* A row that nobody holds is neither run nor listed.
LEMMA NotHeld ==
    ASSUME Inv, OwnerInv, NEW w \in Workflows, workflow_status[w].status \notin {"PENDING", "CANCELLED"}
    PROVE  Free(w) /\ \A x \in Executors : \A item \in recovering[x] : item.wf # w
<1>1. \A x : ~Held(workflow_status[w], x)
    BY DEF Held
<1> QED BY <1>1, LiveTask DEF Free, OwnerInv, ListInv

LEMMA EnqueueOwner ==
    ASSUME OneOwner, Inv, OwnerInv, Inv', NEW w \in Workflows, NEW e \in Executors, EnqueueWorkflow(e, w)
    PROVE  OwnerInv'
<1> DEFINE old == workflow_status[w]
           r == Upsert(old, e, "ENQUEUED", AppQueue, 0)
<1>1. Sites[w] = {}
    BY DEF EnqueueWorkflow, OneOwner
<1>2. old \in Row /\ RowOk(w, old) /\ old.recovery_attempts = 0 /\ MaxRetries \in Nat
    BY <1>1, EngineAssumption DEF Inv, TypeOK, OwnerInv, RowOk
<1>3. r \in Row
    <2>1. AppQueue \in {NoQueue, AppQueue, INTERNAL_QUEUE_NAME}
        OBVIOUS
    <2> HIDE DEF old
    <2> QED BY <1>2, <2>1, UpsertRow
<1>4. IF old.status = "ABSENT"
      THEN /\ r.status = "ENQUEUED" /\ r.recovery_attempts = 0 /\ r.queue_name # NoQueue
      ELSE r = old
    BY DEF Upsert, NoQueue, AppQueue
<1>5. /\ workflow_status' = [workflow_status EXCEPT ![w] = IF DeadLettered(r) THEN Bury(r) ELSE r]
      /\ UNCHANGED <<operation_outputs, executor, recovering, task>>
    BY DEF EnqueueWorkflow
<1> HIDE DEF r
<1>6. ~DeadLettered(r) /\ RowOk(w, r)
    BY <1>1, <1>2, <1>4 DEF DeadLettered, RowOk
<1>7. workflow_status' = [workflow_status EXCEPT ![w] = r]
    BY <1>5, <1>6
<1>8. CASE old.status = "ABSENT"
    <2>1. Free(w) /\ \A x \in Executors : \A item \in recovering[x] : item.wf # w
        BY <1>8, NotHeld
    <2> QED BY <1>3, <1>5, <1>6, <1>7, <2>1, RowChanges
<1>9. CASE old.status # "ABSENT"
    <2>1. \A x \in Executors : Held(old, x) => Held(r, x)
        BY <1>4, <1>9
    <2> QED BY <1>3, <1>5, <1>6, <1>7, <2>1, RowChanges
<1> QED BY <1>8, <1>9

LEMMA DequeueOwner ==
    ASSUME OneOwner, Inv, OwnerInv, Inv', NEW w \in Workflows, NEW e \in Executors, Dequeue(e, w)
    PROVE  OwnerInv'
<1> DEFINE old == workflow_status[w]
           r == [old EXCEPT !.status = "PENDING", !.executor_id = e]
<1>1. /\ executor[e] = "up" /\ old.status = "ENQUEUED" /\ workflow_status' = [workflow_status EXCEPT ![w] = r]
      /\ UNCHANGED task \/ Spawn(w, e)
      /\ UNCHANGED <<operation_outputs, executor, recovering>>
    BY DEF Dequeue
<1>2. old \in Row /\ RowOk(w, old)
    BY DEF Inv, TypeOK, OwnerInv
<1>3. /\ r \in Row /\ r.status = "PENDING" /\ r.executor_id = e /\ r.queue_name = old.queue_name
      /\ r.recovery_attempts = old.recovery_attempts
    BY <1>2 DEF Row, Statuses
<1>4. Free(w) /\ \A x \in Executors : \A item \in recovering[x] : item.wf # w
    BY <1>1, NotHeld
<1> HIDE DEF r
<1>5. RowOk(w, r) /\ Held(r, e)
    BY <1>1, <1>2, <1>3 DEF RowOk, Held
<1> QED BY <1>1, <1>3, <1>4, <1>5, RowChanges

\* The body goes on with its workflow, on its executor.
LEMMA ObserveKeeps ==
    ASSUME NEW tk \in Task, NEW r
    PROVE  /\ Observe(tk, r).wf = tk.wf /\ Observe(tk, r).on = tk.on
           /\ Observe(tk, r).at \in {"outcome", "check_status"}
<1>1. CASE Failed(r) /\ tk.wf \notin Tolerant
    BY <1>1 DEF Observe, Task
<1>2. CASE ~(Failed(r) /\ tk.wf \notin Tolerant)
    BY <1>2 DEF Observe, Task
<1> QED BY <1>1, <1>2

LEMMA TaskOwner ==
    ASSUME Inv, OwnerInv, Inv', NEW t \in Tasks, TaskStep(t) \/ TaskFault(t)
    PROVE  OwnerInv'
<1>1. Live(t) /\ task[t] \in Task
    BY DEF TaskStep, TaskFault, CheckStatus, CheckOutput, RunClosure, RecordStep, WriteOutcome, CheckFault,
           RecordFault, OutcomeFault, Live, Inv, TypeOK
<1>2. PICK w \in Workflows : w = task[t].wf
    BY <1>1, LiveTask
<1>3. /\ TaskOk(task[t], workflow_status, operation_outputs, executor) /\ RowOk(w, workflow_status[w])
      /\ Held(workflow_status[w], task[t].on)
      /\ workflow_status \in [Workflows -> Row] /\ operation_outputs \in Outs
    BY <1>1, <1>2, LiveTask DEF OwnerInv, Inv, TypeOK, Outs
<1>4. /\ UNCHANGED <<executor, recovering>>
    BY DEF TaskStep, TaskFault, CheckStatus, CheckOutput, RunClosure, RecordStep, WriteOutcome, CheckFault,
           RecordFault, OutcomeFault
<1>5. CASE CheckStatus(t) \/ CheckOutput(t) \/ RunClosure(t) \/ CheckFault(t)
    <2>1. UNCHANGED <<workflow_status, operation_outputs>>
        BY <1>5 DEF CheckStatus, CheckOutput, RunClosure, CheckFault
    <2>2. ASSUME NEW r, task' = [task EXCEPT ![t] = Observe(task[t], r)] PROVE OwnerInv'
        <3>1. PICK tk : tk = Observe(task[t], r)
            OBVIOUS
        <3>2. tk.wf = w /\ tk.on = task[t].on /\ tk.at \in {"outcome", "check_status"}
            BY <1>1, <1>2, <3>1, ObserveKeeps
        <3> QED BY <1>1, <1>2, <1>3, <1>4, <2>1, <2>2, <3>1, <3>2, TaskChanges
    <2>3. ASSUME NEW at \in {"check_output", "closure"}, task' = [task EXCEPT ![t] = [task[t] EXCEPT !.at = at]],
                 at = "closure" => operation_outputs[w][task[t].step_id] = None
          PROVE OwnerInv'
        <3>1. PICK tk : tk = [task[t] EXCEPT !.at = at]
            OBVIOUS
        <3>2. tk.wf = w /\ tk.on = task[t].on /\ tk.at = at /\ tk.step_id = task[t].step_id
            BY <1>1, <1>2, <3>1 DEF Task
        <3> QED BY <1>1, <1>2, <1>3, <1>4, <2>1, <2>3, <3>1, <3>2, TaskChanges
    <2>4. CASE CheckStatus(t)
        BY <2>2, <2>3, <2>4 DEF CheckStatus
    <2>5. CASE CheckOutput(t)
        BY <1>2, <2>2, <2>3, <2>5 DEF CheckOutput, Recorded
    <2>6. CASE CheckFault(t)
        BY <2>2, <2>6 DEF CheckFault
    <2>7. CASE RunClosure(t)
        <3>1. PICK r \in Results : task' = [task EXCEPT ![t] = [task[t] EXCEPT !.at = "record", !.result = r]]
            BY <2>7 DEF RunClosure
        <3>2. PICK tk : tk = [task[t] EXCEPT !.at = "record", !.result = r]
            OBVIOUS
        <3>3. tk.wf = w /\ tk.on = task[t].on /\ tk.at = "record" /\ tk.step_id = task[t].step_id
            BY <1>1, <1>2, <3>2 DEF Task
        <3>4. operation_outputs[w][task[t].step_id] = None
            BY <1>2, <1>3, <2>7 DEF RunClosure, TaskOk
        <3> QED BY <1>1, <1>2, <1>3, <1>4, <2>1, <3>1, <3>2, <3>3, <3>4, TaskChanges
    <2> QED BY <1>5, <2>4, <2>5, <2>6, <2>7
<1>6. CASE RecordStep(t) \/ RecordFault(t)
    <2>1. PICK r : task' = [task EXCEPT ![t] = Observe(task[t], r)]
        BY <1>6 DEF RecordStep, RecordFault
    <2>2. PICK tk : tk = Observe(task[t], r)
        OBVIOUS
    <2>3. tk.wf = w /\ tk.on = task[t].on /\ tk.at \in {"outcome", "check_status"}
        BY <1>1, <1>2, <2>2, ObserveKeeps
    <2>4. UNCHANGED workflow_status /\ \A v \in Workflows \ {w} : operation_outputs'[v] = operation_outputs[v]
        BY <1>2, <1>3, <1>6 DEF RecordStep, RecordFault, Outs
    <2> QED BY <1>1, <1>2, <1>3, <1>4, <2>1, <2>2, <2>3, <2>4, TaskChanges
<1>7. CASE WriteOutcome(t) \/ OutcomeFault(t)
    <2> DEFINE r == WithOutcome(workflow_status[w], task[t])
    <2>1. /\ UNCHANGED operation_outputs /\ task' = [task EXCEPT ![t] = IdleTask]
          /\ UNCHANGED workflow_status \/ workflow_status' = [workflow_status EXCEPT ![w] = r]
        BY <1>2, <1>7 DEF WriteOutcome, OutcomeFault
    <2>2. /\ r.executor_id = workflow_status[w].executor_id /\ r.queue_name = workflow_status[w].queue_name
          /\ r.recovery_attempts = workflow_status[w].recovery_attempts
          /\ r.status \in {"SUCCESS", "ERROR"} \/ r = workflow_status[w]
        BY <1>3 DEF WithOutcome, Row
    <2> HIDE DEF r
    <2>3. RowOk(w, r)
        BY <1>3, <2>2 DEF RowOk, Held
    <2>4. IdleTask.at = "idle"
        BY DEF IdleTask
    <2>5. /\ \A v \in Workflows \ {w} : workflow_status'[v] = workflow_status[v]
          /\ RowOk(w, workflow_status'[w])
        BY <1>3, <2>1, <2>3
    <2> QED BY <1>1, <1>2, <1>4, <2>1, <2>4, <2>5, TaskChanges
<1> QED BY <1>5, <1>6, <1>7 DEF TaskStep, TaskFault

LEMMA CrashOwner ==
    ASSUME Inv, OwnerInv, Inv', NEW e \in Executors, Crash(e)
    PROVE  OwnerInv'
<1>1. /\ executor' = [executor EXCEPT ![e] = "down"] /\ recovering' = [recovering EXCEPT ![e] = {}]
      /\ task' = [t \in Tasks |-> IF task[t].on = e THEN IdleTask ELSE task[t]]
      /\ UNCHANGED <<workflow_status, operation_outputs>>
    BY DEF Crash
<1>2. executor \in [Executors -> {"down", "launching", "up"}] /\ recovering \in [Executors -> SUBSET Listed]
    BY DEF Inv, TypeOK
<1>3. \A t \in Tasks : task'[t].at # "idle" => task'[t] = task[t] /\ task[t].on # e
    BY <1>1 DEF IdleTask
<1>4. \A x \in Executors \ {e} : executor'[x] = executor[x] /\ recovering'[x] = recovering[x]
    BY <1>1, <1>2
<1>5. recovering'[e] = {}
    BY <1>1, <1>2
<1>6. \A w \in Workflows : RowOk(w, workflow_status'[w])
    BY <1>1 DEF OwnerInv
<1>7. ASSUME NEW t \in Tasks PROVE TaskOk(task'[t], workflow_status', operation_outputs', executor')
    <2>1. TaskOk(task[t], workflow_status, operation_outputs, executor)
        BY DEF OwnerInv
    <2> QED BY <1>1, <1>3, <1>4, <2>1 DEF TaskOk
<1>8. ListInv'
    <2> SUFFICES ASSUME NEW x \in Executors, NEW item \in recovering'[x]
                 PROVE  /\ Held(workflow_status'[item.wf], x) /\ executor'[x] # "down"
                        /\ item.queued = (Sites[item.wf] = {}) /\ Free(item.wf)'
        BY DEF ListInv
    <2>1. x # e /\ item \in recovering[x] /\ executor'[x] = executor[x]
        BY <1>4, <1>5
    <2>2. /\ Held(workflow_status[item.wf], x) /\ executor[x] # "down"
          /\ item.queued = (Sites[item.wf] = {}) /\ Free(item.wf)
        BY <2>1 DEF OwnerInv, ListInv
    <2>3. Free(item.wf)'
        BY <1>3, <2>2 DEF Free, Live
    <2> QED BY <1>1, <2>1, <2>2, <2>3
<1>9. SingleExecution'
    BY <1>3 DEF OwnerInv, SingleExecution, Live
<1> QED BY <1>6, <1>7, <1>8, <1>9 DEF OwnerInv

\* What an entry of the listing says of its row.
LEMMA ListEntry ==
    ASSUME NEW ids, NEW item \in list_pending_for_recovery(ids)
    PROVE  /\ item.wf \in Workflows /\ workflow_status[item.wf].status = "PENDING"
           /\ workflow_status[item.wf].executor_id \in ids
           /\ item.queued = (workflow_status[item.wf].queue_name # NoQueue)
<1>1. PICK w \in Workflows : /\ item = [wf |-> w, queued |-> workflow_status[w].queue_name # NoQueue]
                             /\ workflow_status[w].status = "PENDING" /\ workflow_status[w].executor_id \in ids
    BY Zenon DEF list_pending_for_recovery
<1>2. item.wf = w /\ item.queued = (workflow_status[w].queue_name # NoQueue)
    BY <1>1
<1> QED BY <1>1, <1>2

LEMMA LaunchOwner ==
    ASSUME Inv, OwnerInv, Inv', NEW e \in Executors, Launch(e)
    PROVE  OwnerInv'
<1> DEFINE list == list_pending_for_recovery({e})
<1>1. /\ executor[e] = "down" /\ executor' = [executor EXCEPT ![e] = "launching"]
      /\ recovering' = [recovering EXCEPT ![e] = list]
      /\ UNCHANGED <<workflow_status, operation_outputs, task>>
    BY DEF Launch
<1>2. executor \in [Executors -> {"down", "launching", "up"}] /\ recovering \in [Executors -> SUBSET Listed]
    BY DEF Inv, TypeOK
<1> HIDE DEF list
<1>3. /\ executor'[e] = "launching" /\ recovering'[e] = list
      /\ \A x \in Executors \ {e} : executor'[x] = executor[x] /\ recovering'[x] = recovering[x]
    BY <1>1, <1>2
<1>4. \A w \in Workflows : RowOk(w, workflow_status'[w])
    BY <1>1 DEF OwnerInv
<1>5. ASSUME NEW t \in Tasks PROVE TaskOk(task'[t], workflow_status', operation_outputs', executor')
    <2>1. TaskOk(task[t], workflow_status, operation_outputs, executor)
        BY DEF OwnerInv
    <2> QED BY <1>1, <1>3, <2>1 DEF TaskOk
<1>6. ListInv'
    <2> SUFFICES ASSUME NEW x \in Executors, NEW item \in recovering'[x]
                 PROVE  /\ Held(workflow_status'[item.wf], x) /\ executor'[x] # "down"
                        /\ item.queued = (Sites[item.wf] = {}) /\ Free(item.wf)'
        BY DEF ListInv
    <2>1. CASE x # e
        <3>1. /\ Held(workflow_status[item.wf], x) /\ executor[x] # "down"
              /\ item.queued = (Sites[item.wf] = {}) /\ Free(item.wf)
            BY <1>3, <2>1 DEF OwnerInv, ListInv
        <3> QED BY <1>1, <1>3, <2>1, <3>1 DEF Free, Live
    <2>2. CASE x = e
        <3>1. /\ item.wf \in Workflows /\ workflow_status[item.wf].status = "PENDING"
              /\ workflow_status[item.wf].executor_id = e
              /\ item.queued = (workflow_status[item.wf].queue_name # NoQueue)
            BY <1>3, <2>2, ListEntry DEF list
        <3>2. item.queued = (Sites[item.wf] = {})
            BY <3>1 DEF OwnerInv, RowOk
        <3>3. Free(item.wf)
            <4> SUFFICES ASSUME NEW t \in Tasks, Live(t), task[t].wf = item.wf PROVE FALSE
                BY DEF Free
            <4>1. TaskOk(task[t], workflow_status, operation_outputs, executor)
                BY DEF OwnerInv
            <4> QED BY <1>1, <3>1, <4>1 DEF TaskOk, Held, Live
        <3> QED BY <1>1, <1>3, <2>2, <3>1, <3>2, <3>3 DEF Free, Live, Held
    <2> QED BY <2>1, <2>2
<1>7. SingleExecution'
    BY <1>1 DEF OwnerInv, SingleExecution, Live
<1> QED BY <1>4, <1>5, <1>6, <1>7 DEF OwnerInv

LEMMA FinishLaunchOwner ==
    ASSUME Inv, OwnerInv, Inv', NEW e \in Executors, FinishLaunch(e)
    PROVE  OwnerInv'
<1>1. /\ executor' = [executor EXCEPT ![e] = "up"] /\ executor \in [Executors -> {"down", "launching", "up"}]
      /\ UNCHANGED <<workflow_status, operation_outputs, recovering, task>>
    BY DEF FinishLaunch, Inv, TypeOK
<1>2. \A x \in Executors : executor[x] # "down" => executor'[x] # "down"
    BY <1>1
<1>3. ASSUME NEW t \in Tasks PROVE TaskOk(task'[t], workflow_status', operation_outputs', executor')
    <2>1. TaskOk(task[t], workflow_status, operation_outputs, executor)
        BY DEF OwnerInv
    <2> QED BY <1>1, <1>2, <2>1 DEF TaskOk
<1>4. ListInv'
    BY <1>1, <1>2 DEF OwnerInv, ListInv, Free, Live
<1> QED BY <1>1, <1>3, <1>4 DEF OwnerInv, SingleExecution, Live

\* Of a listed workflow there is one entry, with the executor that holds it.
LEMMA OneEntry ==
    ASSUME Inv, OwnerInv, NEW e \in Executors, NEW item \in recovering[e], NEW x \in Executors,
           NEW other \in recovering[x], other.wf = item.wf
    PROVE  x = e /\ other = item
<1>1. /\ Held(workflow_status[item.wf], e) /\ Held(workflow_status[item.wf], x)
      /\ item.queued = other.queued
    BY DEF OwnerInv, ListInv
<1>2. item \in Listed /\ other \in Listed
    BY DEF Inv, TypeOK
<1> QED BY <1>1, <1>2 DEF Held, Listed

LEMMA RecoverOwner ==
    ASSUME OneOwner, Inv, OwnerInv, Inv', NEW e \in Executors, RecoverOne(e)
    PROVE  OwnerInv'
<1>1. PICK item \in Listed :
        /\ item \in recovering[e] /\ recovering' = [recovering EXCEPT ![e] = recovering[e] \ {item}]
        /\ \/ item.queued /\ ClearQueueAssignment(item.wf)
           \/ ~item.queued /\ UNCHANGED <<workflow_status, task, starts>>
           \/ ~item.queued /\ start_workflow(item.wf, e, TRUE)
        /\ UNCHANGED <<operation_outputs, executor>>
    <2>1. recovering[e] \subseteq Listed
        BY DEF Inv, TypeOK
    <2> QED BY <2>1, Zenon DEF RecoverOne
<1>2. PICK w \in Workflows : w = item.wf
    BY DEF Listed
<1>3. /\ Held(workflow_status[w], e) /\ executor[e] # "down" /\ item.queued = (Sites[w] = {}) /\ Free(w)
      /\ RowOk(w, workflow_status[w])
    BY <1>1, <1>2 DEF OwnerInv, ListInv
<1>4. /\ \A x \in Executors : recovering'[x] \subseteq recovering[x]
      /\ item \notin recovering'[e]
    BY <1>1 DEF Inv, TypeOK
<1>5. \A x \in Executors : \A other \in recovering'[x] : other.wf # w
    BY <1>1, <1>2, <1>4, OneEntry
<1>6. workflow_status \in [Workflows -> Row]
    BY DEF Inv, TypeOK
<1>7. CASE item.queued /\ ClearQueueAssignment(w)
    <2>1. PICK r \in Row : /\ workflow_status' = [workflow_status EXCEPT ![w] = r]
                           /\ r = IF workflow_status[w].queue_name # NoQueue /\ workflow_status[w].status = "PENDING"
                                  THEN [workflow_status[w] EXCEPT !.status = "ENQUEUED"] ELSE workflow_status[w]
        <3> DEFINE r == IF workflow_status[w].queue_name # NoQueue /\ workflow_status[w].status = "PENDING"
                        THEN [workflow_status[w] EXCEPT !.status = "ENQUEUED"] ELSE workflow_status[w]
        <3>1. r \in Row
            BY <1>6 DEF Row, Statuses
        <3> QED BY <1>7, <3>1 DEF ClearQueueAssignment
    <2>2. /\ r.recovery_attempts = workflow_status[w].recovery_attempts
          /\ r.queue_name = workflow_status[w].queue_name
        BY <1>6, <2>1 DEF Row
    <2>3. r.status = workflow_status[w].status \/ r.queue_name # NoQueue
        BY <1>6, <2>1 DEF Row
    <2>4. RowOk(w, r)
        BY <1>3, <1>7, <2>2, <2>3 DEF RowOk
    <2>5. UNCHANGED task
        BY <1>7 DEF ClearQueueAssignment
    <2> QED BY <1>1, <1>3, <1>4, <1>5, <2>1, <2>4, <2>5, RowChanges
<1>8. CASE ~item.queued /\ UNCHANGED <<workflow_status, task, starts>>
    <2>1. PICK r \in Row : r = workflow_status[w] /\ workflow_status' = [workflow_status EXCEPT ![w] = r]
        BY <1>6, <1>8
    <2> QED BY <1>1, <1>3, <1>4, <1>8, <2>1, RowChanges
<1>9. CASE ~item.queued /\ start_workflow(w, e, TRUE)
    <2>1. Sites[w] = {e}
        BY <1>3, <1>9 DEF OneOwner, RowOk, Held
    <2> QED BY <1>1, <1>3, <1>4, <1>5, <1>9, <2>1, StartOwner
<1> QED BY <1>1, <1>2, <1>7, <1>8, <1>9

LEMMA CancelOwner ==
    ASSUME Inv, OwnerInv, Inv', NEW w \in Workflows, CancelWorkflow(w)
    PROVE  OwnerInv'
<1> DEFINE old == workflow_status[w]
           r == [old EXCEPT !.status = "CANCELLED", !.queue_name = NoQueue]
<1>1. /\ old.status # "ABSENT" /\ workflow_status' = [workflow_status EXCEPT ![w] = r]
      /\ UNCHANGED <<operation_outputs, executor, recovering, task>>
    BY DEF CancelWorkflow, cancel_workflows
<1>2. old \in Row /\ RowOk(w, old) /\ NoQueue \in {NoQueue, AppQueue, INTERNAL_QUEUE_NAME}
    BY DEF Inv, TypeOK, OwnerInv
<1>3. /\ r \in Row /\ r.status = "CANCELLED" /\ r.queue_name = NoQueue /\ r.executor_id = old.executor_id
      /\ r.recovery_attempts = old.recovery_attempts
    BY <1>2 DEF Row, Statuses
<1> HIDE DEF r
<1>4. RowOk(w, r)
    BY <1>1, <1>2, <1>3 DEF RowOk
<1>5. \A x \in Executors : Held(old, x) => Held(r, x)
    BY <1>3 DEF Held
<1> QED BY <1>1, <1>3, <1>4, <1>5, RowChanges

\* Every step preserves the invariant of workflows with one owner.
LEMMA OwnerStep == ASSUME OneOwner PROVE Inv /\ OwnerInv /\ [Next]_vars => OwnerInv'
<1> SUFFICES ASSUME Inv, OwnerInv, [Next]_vars PROVE OwnerInv'
    OBVIOUS
<1>0. Inv'
    BY StepInv
<1>1. ASSUME NEW e \in Executors, NEW w \in Workflows, RunWorkflow(e, w) PROVE OwnerInv'
    <2>1. /\ Sites[w] = {e} /\ start_workflow(w, e, FALSE) /\ executor[e] # "down"
          /\ UNCHANGED <<operation_outputs, executor, recovering>>
        BY <1>1 DEF RunWorkflow, OneOwner
    <2> QED BY <1>0, <2>1, StartOwner
<1>2. ASSUME NEW e \in Executors, NEW w \in Workflows, EnqueueWorkflow(e, w) \/ Dequeue(e, w) PROVE OwnerInv'
    BY <1>0, <1>2, EnqueueOwner, DequeueOwner
<1>3. ASSUME NEW t \in Tasks, TaskStep(t) \/ TaskFault(t) PROVE OwnerInv'
    BY <1>0, <1>3, TaskOwner
<1>4. ASSUME NEW e \in Executors, Crash(e) \/ Launch(e) \/ RecoverOne(e) \/ FinishLaunch(e) PROVE OwnerInv'
    BY <1>0, <1>4, CrashOwner, LaunchOwner, RecoverOwner, FinishLaunchOwner
<1>5. ASSUME NEW w \in Workflows, CancelWorkflow(w) PROVE OwnerInv'
    BY <1>0, <1>5, CancelOwner
<1>6. CASE UNCHANGED vars
    <2>1. UNCHANGED <<workflow_status, operation_outputs, executor, recovering, task>>
        BY <1>6 DEF vars
    <2> QED BY <2>1 DEF OwnerInv, ListInv, SingleExecution, Free, Live
<1> QED BY <1>1, <1>2, <1>3, <1>4, <1>5, <1>6, NoRequests DEF Next

LEMMA OwnerInit == Init => OwnerInv
<1> SUFFICES ASSUME Init PROVE OwnerInv
    OBVIOUS
<1>1. \A w \in Workflows : workflow_status[w] = AbsentRow
    BY DEF Init
<1>2. \A t \in Tasks : task[t].at = "idle"
    BY DEF Init, IdleTask
<1>3. \A e \in Executors : recovering[e] = {}
    BY DEF Init
<1>4. AbsentRow.status = "ABSENT" /\ AbsentRow.recovery_attempts = 0
    BY DEF AbsentRow
<1>5. \A w \in Workflows : RowOk(w, workflow_status[w])
    BY <1>1, <1>4 DEF RowOk
<1> QED BY <1>2, <1>3, <1>5 DEF OwnerInv, TaskOk, ListInv, SingleExecution, Live

LEMMA OwnerInvariance == ASSUME OneOwner PROVE Spec => []OwnerInv
<1>1. Inv /\ OwnerInv /\ [Next]_vars => OwnerInv'
    BY OwnerStep
<1> QED BY <1>1, OwnerInit, Invariance, PTL DEF Spec

\* A workflow with one owner is run by at most one task anywhere: neither a second call of run_workflow, nor
\* recovery on launch, nor a queue runner starts it while it runs.
THEOREM OneExecution == ASSUME OneOwner PROVE Spec => []SingleExecution
<1>1. OwnerInv => SingleExecution
    BY DEF OwnerInv
<1> QED BY <1>1, OwnerInvariance, PTL

\* What a step of a task does to the rows.
LEMMA TaskRows ==
    ASSUME Inv, NEW t \in Tasks, TaskStep(t) \/ TaskFault(t)
    PROVE  /\ task[t].wf \in Workflows /\ Live(t)
           /\ \A v \in Workflows \ {task[t].wf} : workflow_status'[v] = workflow_status[v]
<1>1. Live(t) /\ Sound(task[t], operation_outputs) /\ workflow_status \in [Workflows -> Row]
    BY DEF TaskStep, TaskFault, CheckStatus, CheckOutput, RunClosure, RecordStep, WriteOutcome, CheckFault,
           RecordFault, OutcomeFault, Live, Inv, TypeOK
<1>2. PICK w \in Workflows : w = task[t].wf
    BY <1>1 DEF Sound, Live
<1>3. UNCHANGED workflow_status \/ \E r : workflow_status' = [workflow_status EXCEPT ![w] = r]
    BY <1>2 DEF TaskStep, TaskFault, CheckStatus, CheckOutput, RunClosure, RecordStep, WriteOutcome, CheckFault,
           RecordFault, OutcomeFault
<1> QED BY <1>1, <1>2, <1>3

\* Starting a finished workflow at its site leaves its outcome alone.
LEMMA StartFinal ==
    ASSUME Inv, OwnerInv, NEW v \in Workflows, NEW e \in Executors, Sites[v] = {e},
           NEW is_recovery \in BOOLEAN, start_workflow(v, e, is_recovery), NEW w \in Workflows,
           workflow_status[w].status \in {"SUCCESS", "ERROR"}
    PROVE  workflow_status'[w].status = workflow_status[w].status /\ workflow_status'[w].output = workflow_status[w].output
<1>1. PICK r : r = Upsert(workflow_status[v], e, "PENDING", NoQueue, IF is_recovery THEN 1 ELSE 0)
    OBVIOUS
<1>2. \/ DeadLettered(r) /\ workflow_status' = [workflow_status EXCEPT ![v] = Bury(r)]
      \/ workflow_status' = [workflow_status EXCEPT ![v] = r]
    BY <1>1, Zenon DEF start_workflow
<1>3. workflow_status \in [Workflows -> Row] /\ RowOk(v, workflow_status[v])
    BY DEF Inv, TypeOK, OwnerInv
<1>4. CASE v # w
    BY <1>2, <1>3, <1>4
<1>5. CASE v = w
    <2>1. r.status = workflow_status[v].status /\ r.output = workflow_status[v].output
        BY <1>1, <1>3, <1>5, StartedRow
    <2>2. ~DeadLettered(r)
        BY <1>5, <2>1 DEF DeadLettered
    <2> QED BY <1>2, <1>3, <1>5, <2>1, <2>2
<1> QED BY <1>4, <1>5

LEMMA FinalStep ==
    ASSUME OneOwner, Inv, OwnerInv, [Next]_vars, NEW w \in Workflows,
           workflow_status[w].status \in {"SUCCESS", "ERROR"}
    PROVE  workflow_status'[w].status = workflow_status[w].status /\ workflow_status'[w].output = workflow_status[w].output
<1> DEFINE Same == workflow_status'[w] = workflow_status[w]
           Kept == /\ workflow_status'[w].status = workflow_status[w].status
                   /\ workflow_status'[w].output = workflow_status[w].output
<1>0. workflow_status \in [Workflows -> Row] /\ \A x : ~Held(workflow_status[w], x)
    BY DEF Inv, TypeOK, Held
<1>1. ASSUME NEW e \in Executors, NEW v \in Workflows, RunWorkflow(e, v) PROVE Kept
    <2>1. Sites[v] = {e} /\ start_workflow(v, e, FALSE)
        BY <1>1 DEF RunWorkflow, OneOwner
    <2> QED BY <2>1, StartFinal
<1>2. ASSUME NEW e \in Executors, NEW v \in Workflows, EnqueueWorkflow(e, v) PROVE Same
    <2>1. PICK r : /\ r = Upsert(workflow_status[v], e, "ENQUEUED", AppQueue, 0)
                   /\ workflow_status' = [workflow_status EXCEPT ![v] = IF DeadLettered(r) THEN Bury(r) ELSE r]
        BY <1>2 DEF EnqueueWorkflow
    <2>2. CASE v # w
        BY <1>0, <2>1, <2>2
    <2>3. CASE v = w
        <3>1. r = workflow_status[w]
            BY <2>1, <2>3 DEF Upsert
        <3>2. ~DeadLettered(r)
            BY <3>1 DEF DeadLettered
        <3> QED BY <1>0, <2>1, <2>3, <3>1, <3>2
    <2> QED BY <2>2, <2>3
<1>3. ASSUME NEW e \in Executors, NEW v \in Workflows, Dequeue(e, v) PROVE Same
    BY <1>0, <1>3 DEF Dequeue
<1>4. ASSUME NEW t \in Tasks, TaskStep(t) \/ TaskFault(t) PROVE Same
    BY <1>0, <1>4, TaskRows, LiveTask
<1>5. ASSUME NEW e \in Executors, Crash(e) \/ Launch(e) \/ FinishLaunch(e) PROVE Same
    BY <1>5 DEF Crash, Launch, FinishLaunch
<1>6. ASSUME NEW e \in Executors, RecoverOne(e) PROVE Same
    <2>1. PICK item \in Listed :
            /\ item \in recovering[e]
            /\ \/ ClearQueueAssignment(item.wf)
               \/ UNCHANGED <<workflow_status, task, starts>>
               \/ start_workflow(item.wf, e, TRUE)
        <3>1. recovering[e] \subseteq Listed
            BY DEF Inv, TypeOK
        <3> QED BY <1>6, <3>1, Zenon DEF RecoverOne
    <2>2. PICK v \in Workflows : v = item.wf
        BY DEF Listed
    <2>3. v # w
        BY <1>0, <2>1, <2>2 DEF OwnerInv, ListInv
    <2>4. UNCHANGED workflow_status \/ \E r : workflow_status' = [workflow_status EXCEPT ![v] = r]
        BY <2>1, <2>2, Zenon DEF ClearQueueAssignment, start_workflow
    <2> QED BY <1>0, <2>3, <2>4
<1>7. ASSUME NEW v \in Workflows, CancelWorkflow(v) PROVE Same
    BY <1>0, <1>7 DEF CancelWorkflow, cancel_workflows
<1>8. CASE UNCHANGED vars
    BY <1>8 DEF vars
<1> QED BY <1>1, <1>2, <1>3, <1>4, <1>5, <1>6, <1>7, <1>8, NoRequests DEF Next

\* The outcome of a workflow with one owner is final: no late task, no later call and no recovery rewrites it.
THEOREM OutcomeIsFinal == ASSUME OneOwner PROVE Spec => FinishedIsFinal
<1>1. Inv /\ OwnerInv /\ [Next]_vars =>
        [\A w \in Workflows :
            workflow_status[w].status \in {"SUCCESS", "ERROR"} =>
                /\ workflow_status'[w].status = workflow_status[w].status
                /\ workflow_status'[w].output = workflow_status[w].output]_vars
    BY FinalStep
<1> QED BY <1>1, Invariance, OwnerInvariance, PTL DEF Spec, FinishedIsFinal

\* The closure of a step whose result is recorded is not run again: the record of a workflow with one owner
\* cannot appear between CheckOutput and RunClosure.
THEOREM NoRerun == ASSUME OneOwner PROVE Spec => RecordedStepNotRerun
<1>1. OwnerInv =>
        [\A t \in Tasks :
            task[t].at = "closure" /\ task'[t].at = "record" =>
                operation_outputs[task[t].wf][task[t].step_id] = None]_vars
    BY DEF OwnerInv, TaskOk
<1> QED BY <1>1, OwnerInvariance, PTL DEF RecordedStepNotRerun

\* Every executor has every handler, and no statement of a task fails.
NothingLost == MaxFaults = 0 /\ \A e \in Executors : Registered[e] = Workflows

\* Somebody is responsible for w.
Covered(w) ==
    \/ \E t \in Tasks : Live(t) /\ task[t].wf = w
    \/ \E e \in Executors :
        /\ workflow_status[w].executor_id = e
        /\ executor[e] = "down" \/ \E item \in recovering[e] : item.wf = w

\* Who is responsible for w stays responsible.
LEMMA CoverKept ==
    ASSUME PendingIsCovered, NEW w \in Workflows,
           workflow_status'[w].status = "PENDING" =>
              /\ workflow_status[w].status = "PENDING"
              /\ workflow_status'[w].executor_id = workflow_status[w].executor_id,
           \A t \in Tasks : Live(t) /\ task[t].wf = w => task'[t].at # "idle" /\ task'[t].wf = w,
           \A e \in Executors : executor[e] = "down" => executor'[e] = "down",
           \A e \in Executors : \A item \in recovering[e] : item.wf = w => item \in recovering'[e]
    PROVE  workflow_status'[w].status = "PENDING" => Covered(w)'
<1> SUFFICES ASSUME workflow_status'[w].status = "PENDING" PROVE Covered(w)'
    OBVIOUS
<1>1. Covered(w)
    BY DEF PendingIsCovered, Covered
<1>2. CASE \E t \in Tasks : Live(t) /\ task[t].wf = w
    BY <1>2 DEF Covered, Live
<1>3. CASE \E e \in Executors :
                /\ workflow_status[w].executor_id = e
                /\ executor[e] = "down" \/ \E item \in recovering[e] : item.wf = w
    BY <1>3 DEF Covered
<1> QED BY <1>1, <1>2, <1>3 DEF Covered

\* A spawned task is responsible, and no other stops.
LEMMA SpawnCovers ==
    ASSUME Inv, NEW w, NEW e, Spawn(w, e)
    PROVE  /\ Covered(w)'
           /\ \A t \in Tasks : Live(t) => task'[t] = task[t]
<1>1. PICK t \in Tasks : ~Live(t) /\ task' = [task EXCEPT ![t] = FreshTask(w, e)]
    BY DEF Spawn
<1>2. task \in [Tasks -> Task]
    BY DEF Inv, TypeOK
<1>3. task'[t] = FreshTask(w, e) /\ \A u \in Tasks \ {t} : task'[u] = task[u]
    BY <1>1, <1>2
<1>4. FreshTask(w, e).at = "check_status" /\ FreshTask(w, e).wf = w
    BY DEF FreshTask, IdleTask
<1> QED BY <1>1, <1>3, <1>4 DEF Covered, Live

\* start_workflow buries the workflow, leaves it with whom it was, or spawns a task for it.
LEMMA StartCovers ==
    ASSUME Inv, OwnerInv, PendingIsCovered, NEW v \in Workflows, NEW e \in Executors, Sites[v] = {e},
           NEW is_recovery \in BOOLEAN, start_workflow(v, e, is_recovery), UNCHANGED executor,
           \A x \in Executors : \A item \in recovering[x] : item.wf # v => item \in recovering'[x],
           IF is_recovery THEN Held(workflow_status[v], e) ELSE UNCHANGED recovering
    PROVE  \A w \in Workflows : workflow_status'[w].status = "PENDING" => Covered(w)'
<1>1. PICK r : r = Upsert(workflow_status[v], e, "PENDING", NoQueue, IF is_recovery THEN 1 ELSE 0)
    OBVIOUS
<1>2. \/ DeadLettered(r) /\ workflow_status' = [workflow_status EXCEPT ![v] = Bury(r)] /\ UNCHANGED task
      \/ /\ ~DeadLettered(r) /\ ShouldSkip(v, r, is_recovery)
         /\ workflow_status' = [workflow_status EXCEPT ![v] = r] /\ UNCHANGED task
      \/ /\ ~DeadLettered(r) /\ ~ShouldSkip(v, r, is_recovery)
         /\ workflow_status' = [workflow_status EXCEPT ![v] = r] /\ Spawn(v, e)
    BY <1>1, Zenon DEF start_workflow
<1>3. workflow_status \in [Workflows -> Row] /\ RowOk(v, workflow_status[v])
    BY DEF Inv, TypeOK, OwnerInv
<1>4. /\ r \in Row /\ r.executor_id = e
      /\ r.status = IF workflow_status[v].status = "ABSENT" THEN "PENDING" ELSE workflow_status[v].status
    BY <1>1, <1>3, StartedRow
<1>5. UNCHANGED task \/ Spawn(v, e)
    BY <1>2
<1>6. \A t \in Tasks : Live(t) => task'[t] = task[t]
    BY <1>5, SpawnCovers
<1>7. ASSUME NEW w \in Workflows \ {v} PROVE workflow_status'[w].status = "PENDING" => Covered(w)'
    <2>1. workflow_status'[w] = workflow_status[w]
        BY <1>2, <1>3
    <2> QED BY <1>6, <2>1, CoverKept DEF Live
<1>8. ASSUME workflow_status'[v].status = "PENDING" PROVE Covered(v)'
    <2>1. CASE Spawn(v, e)
        BY <2>1, SpawnCovers
    <2>2. CASE DeadLettered(r) /\ workflow_status' = [workflow_status EXCEPT ![v] = Bury(r)]
        <3>1. Bury(r).status # "PENDING"
            BY <1>4 DEF Bury, Row
        <3> QED BY <1>3, <1>8, <2>2, <3>1
    <2>3. CASE ShouldSkip(v, r, is_recovery) /\ workflow_status' = [workflow_status EXCEPT ![v] = r] /\ UNCHANGED task
        <3>1. workflow_status'[v] = r
            BY <1>3, <2>3
        <3>2. ~is_recovery /\ Exists(v)
            BY <1>8, <2>3, <3>1 DEF ShouldSkip
        <3>3. workflow_status[v].executor_id = e /\ workflow_status[v].status = "PENDING"
            BY <1>3, <1>4, <1>8, <3>1, <3>2 DEF RowOk, Exists
        <3> QED BY <1>4, <1>6, <3>1, <3>2, <3>3, CoverKept DEF Live
    <2> QED BY <1>2, <2>1, <2>2, <2>3
<1> QED BY <1>7, <1>8

LEMMA CoverTask ==
    ASSUME NothingLost, Inv, OwnerInv, PendingIsCovered, NEW t \in Tasks, TaskStep(t) \/ TaskFault(t),
           NEW w \in Workflows
    PROVE  workflow_status'[w].status = "PENDING" => Covered(w)'
<1>0. /\ task \in [Tasks -> Task] /\ workflow_status \in [Workflows -> Row] /\ used["faults"] \in Nat
      /\ Sound(task[t], operation_outputs)
    BY DEF Inv, TypeOK, Budgets
<1>1. ~TaskFault(t)
    BY <1>0 DEF NothingLost, TaskFault, CheckFault, RecordFault, OutcomeFault, Spend
<1>2. UNCHANGED <<executor, recovering>> /\ Live(t)
    BY <1>1 DEF TaskStep, CheckStatus, CheckOutput, RunClosure, RecordStep, WriteOutcome, Live
<1>3. CASE CheckStatus(t) \/ CheckOutput(t) \/ RunClosure(t) \/ RecordStep(t)
    <2>1. PICK tk : /\ task' = [task EXCEPT ![t] = tk] /\ UNCHANGED workflow_status
                    /\ \/ \E r : tk = Observe(task[t], r)
                       \/ \E at \in {"check_output", "closure"} : tk = [task[t] EXCEPT !.at = at]
                       \/ \E r : tk = [task[t] EXCEPT !.at = "record", !.result = r]
        BY <1>3 DEF CheckStatus, CheckOutput, RunClosure, RecordStep
    <2>2. tk.wf = task[t].wf /\ tk.at # "idle"
        <3>0. task[t] \in Task
            BY <1>0
        <3>1. CASE \E r : tk = Observe(task[t], r)
            BY <3>0, <3>1, ObserveKeeps
        <3>2. CASE \E at \in {"check_output", "closure"} : tk = [task[t] EXCEPT !.at = at]
            BY <3>0, <3>2 DEF Task
        <3>3. CASE \E r : tk = [task[t] EXCEPT !.at = "record", !.result = r]
            BY <3>0, <3>3 DEF Task
        <3> QED BY <2>1, <3>1, <3>2, <3>3
    <2>3. \A u \in Tasks : Live(u) => task'[u].at # "idle" /\ task'[u].wf = task[u].wf
        BY <1>0, <2>1, <2>2 DEF Live
    <2> QED BY <1>2, <2>1, <2>3, CoverKept
<1>4. CASE WriteOutcome(t)
    <2>1. /\ task' = [task EXCEPT ![t] = IdleTask]
          /\ workflow_status' = [workflow_status EXCEPT ![task[t].wf] = WithOutcome(workflow_status[task[t].wf], task[t])]
        BY <1>4 DEF WriteOutcome
    <2>2. PICK v \in Workflows : v = task[t].wf
        BY <1>0, <1>2 DEF Sound, Live
    <2>3. CASE v = w
        <3>1. WithOutcome(workflow_status[v], task[t]).status # "PENDING"
            BY <1>0 DEF WithOutcome, OutcomeApplies, Row
        <3> QED BY <1>0, <2>1, <2>2, <2>3, <3>1
    <2>4. CASE v # w
        <3>1. workflow_status'[w] = workflow_status[w]
            BY <1>0, <2>1, <2>2, <2>4
        <3>2. \A u \in Tasks : task[u].wf = w => task'[u] = task[u]
            BY <1>0, <2>1, <2>2, <2>4
        <3> QED BY <1>2, <3>1, <3>2, CoverKept DEF Live
    <2> QED BY <2>3, <2>4
<1> QED BY <1>1, <1>3, <1>4 DEF TaskStep

LEMMA CoverCrash ==
    ASSUME Inv, OwnerInv, PendingIsCovered, NEW e \in Executors, Crash(e), NEW w \in Workflows
    PROVE  workflow_status'[w].status = "PENDING" => Covered(w)'
<1>1. /\ executor' = [executor EXCEPT ![e] = "down"] /\ recovering' = [recovering EXCEPT ![e] = {}]
      /\ task' = [t \in Tasks |-> IF task[t].on = e THEN IdleTask ELSE task[t]]
      /\ UNCHANGED workflow_status
    BY DEF Crash
<1>2. executor \in [Executors -> {"down", "launching", "up"}] /\ recovering \in [Executors -> SUBSET Listed]
    BY DEF Inv, TypeOK
<1>3. executor'[e] = "down"
    BY <1>1, <1>2
<1>4. CASE workflow_status[w].executor_id = e
    BY <1>1, <1>3, <1>4 DEF Covered
<1>5. CASE workflow_status[w].executor_id # e
    <2>1. \A x \in Executors \ {e} : executor'[x] = executor[x] /\ recovering'[x] = recovering[x]
        BY <1>1, <1>2
    <2>2. ASSUME NEW t \in Tasks, Live(t), task[t].wf = w PROVE task'[t] = task[t]
        <3>1. Held(workflow_status[w], task[t].on)
            BY <2>2, LiveTask
        <3> QED BY <1>1, <1>5, <3>1 DEF Held
    <2>3. ASSUME NEW x \in Executors, NEW item \in recovering[x], item.wf = w PROVE item \in recovering'[x]
        <3>1. Held(workflow_status[w], x)
            BY <2>3 DEF OwnerInv, ListInv
        <3> QED BY <1>5, <2>1, <3>1 DEF Held
    <2> QED BY <1>1, <1>3, <2>1, <2>2, <2>3, CoverKept DEF Live
<1> QED BY <1>4, <1>5

LEMMA CoverLaunch ==
    ASSUME Inv, PendingIsCovered, NEW e \in Executors, Launch(e), NEW w \in Workflows
    PROVE  workflow_status'[w].status = "PENDING" => Covered(w)'
<1> SUFFICES ASSUME workflow_status'[w].status = "PENDING" PROVE Covered(w)'
    OBVIOUS
<1>1. /\ executor' = [executor EXCEPT ![e] = "launching"]
      /\ recovering' = [recovering EXCEPT ![e] = list_pending_for_recovery({e})]
      /\ UNCHANGED <<workflow_status, task>>
    BY DEF Launch
<1>2. executor \in [Executors -> {"down", "launching", "up"}] /\ recovering \in [Executors -> SUBSET Listed]
    BY DEF Inv, TypeOK
<1>3. CASE workflow_status[w].executor_id = e
    <2>1. [wf |-> w, queued |-> workflow_status[w].queue_name # NoQueue] \in list_pending_for_recovery({e})
        BY <1>1, <1>3, Zenon DEF list_pending_for_recovery
    <2>2. \E item \in list_pending_for_recovery({e}) : item.wf = w
        BY <2>1
    <2>3. recovering'[e] = list_pending_for_recovery({e})
        BY <1>1, <1>2
    <2> QED BY <1>1, <1>3, <2>2, <2>3 DEF Covered
<1>4. CASE workflow_status[w].executor_id # e
    <2>1. \A x \in Executors \ {e} : executor'[x] = executor[x] /\ recovering'[x] = recovering[x]
        BY <1>1, <1>2
    <2>2. Covered(w)
        BY <1>1 DEF PendingIsCovered, Covered
    <2> QED BY <1>1, <1>4, <2>1, <2>2 DEF Covered, Live
<1> QED BY <1>3, <1>4

LEMMA CoverRecover ==
    ASSUME OneOwner, NothingLost, Inv, OwnerInv, PendingIsCovered, NEW e \in Executors, RecoverOne(e)
    PROVE  \A w \in Workflows : workflow_status'[w].status = "PENDING" => Covered(w)'
<1>1. PICK item \in Listed :
        /\ item \in recovering[e] /\ recovering' = [recovering EXCEPT ![e] = recovering[e] \ {item}]
        /\ \/ item.queued /\ ClearQueueAssignment(item.wf)
           \/ ~item.queued /\ start_workflow(item.wf, e, TRUE)
        /\ UNCHANGED executor
    <2>1. recovering[e] \subseteq Listed
        BY DEF Inv, TypeOK
    <2>2. \A item \in Listed : item.wf \in Registered[e]
        BY DEF Listed, NothingLost
    <2> QED BY <2>1, <2>2, Zenon DEF RecoverOne
<1>2. PICK v \in Workflows : v = item.wf
    BY DEF Listed
<1>3. /\ Held(workflow_status[v], e) /\ item.queued = (Sites[v] = {}) /\ RowOk(v, workflow_status[v])
    BY <1>1, <1>2 DEF OwnerInv, ListInv
<1>4. workflow_status \in [Workflows -> Row] /\ recovering \in [Executors -> SUBSET Listed]
    BY DEF Inv, TypeOK
<1>5. \A x \in Executors : \A other \in recovering[x] : other.wf # v => other \in recovering'[x]
    BY <1>1, <1>2, <1>4
<1>6. CASE item.queued /\ ClearQueueAssignment(v)
    <2>1. /\ UNCHANGED task
          /\ workflow_status' = [workflow_status EXCEPT ![v] =
                IF workflow_status[v].queue_name # NoQueue /\ workflow_status[v].status = "PENDING"
                THEN [workflow_status[v] EXCEPT !.status = "ENQUEUED"] ELSE workflow_status[v]]
        BY <1>6 DEF ClearQueueAssignment
    <2>2. workflow_status'[v].status # "PENDING"
        BY <1>3, <1>4, <1>6, <2>1 DEF RowOk, Row
    <2>3. ASSUME NEW w \in Workflows \ {v} PROVE workflow_status'[w].status = "PENDING" => Covered(w)'
        <3>1. workflow_status'[w] = workflow_status[w]
            BY <1>4, <2>1
        <3> QED BY <1>1, <1>5, <2>1, <3>1, CoverKept DEF Live
    <2> QED BY <2>2, <2>3
<1>7. CASE ~item.queued /\ start_workflow(v, e, TRUE)
    <2>1. Sites[v] = {e}
        BY <1>3, <1>7 DEF OneOwner, RowOk, Held
    <2> QED BY <1>1, <1>3, <1>5, <1>7, <2>1, StartCovers
<1> QED BY <1>1, <1>2, <1>6, <1>7

LEMMA CoverStep == ASSUME OneOwner, NothingLost PROVE Inv /\ OwnerInv /\ PendingIsCovered /\ [Next]_vars => PendingIsCovered'
<1> SUFFICES ASSUME Inv, OwnerInv, PendingIsCovered, [Next]_vars
             PROVE  \A w \in Workflows : workflow_status'[w].status = "PENDING" => Covered(w)'
    BY DEF PendingIsCovered, Covered
<1> DEFINE Goal == \A w \in Workflows : workflow_status'[w].status = "PENDING" => Covered(w)'
<1>0. workflow_status \in [Workflows -> Row]
    BY DEF Inv, TypeOK
<1>1. ASSUME NEW e \in Executors, NEW v \in Workflows, RunWorkflow(e, v) PROVE Goal
    <2>1. Sites[v] = {e} /\ start_workflow(v, e, FALSE) /\ UNCHANGED <<executor, recovering>>
        BY <1>1 DEF RunWorkflow, OneOwner
    <2> QED BY <2>1, StartCovers
<1>2. ASSUME NEW e \in Executors, NEW v \in Workflows, EnqueueWorkflow(e, v) PROVE Goal
    <2>1. PICK r : /\ r = Upsert(workflow_status[v], e, "ENQUEUED", AppQueue, 0)
                   /\ workflow_status' = [workflow_status EXCEPT ![v] = IF DeadLettered(r) THEN Bury(r) ELSE r]
                   /\ UNCHANGED <<executor, recovering, task>>
        BY <1>2 DEF EnqueueWorkflow
    <2>2. r = workflow_status[v] \/ r.status = "ENQUEUED"
        BY <2>1 DEF Upsert
    <2>3. PICK u : /\ workflow_status' = [workflow_status EXCEPT ![v] = u]
                   /\ u = workflow_status[v] \/ u.status # "PENDING"
        <3>1. Bury(r) = r \/ Bury(r).status = "MAX_RECOVERY_ATTEMPTS_EXCEEDED"
            BY <1>0, <2>1, <2>2 DEF Bury, Row
        <3> QED BY <2>1, <2>2, <3>1
    <2>4. \A w \in Workflows : workflow_status'[w] = workflow_status[w] \/ workflow_status'[w].status # "PENDING"
        BY <1>0, <2>3
    <2> QED BY <2>1, <2>4, CoverKept DEF Live
<1>3. ASSUME NEW e \in Executors, NEW v \in Workflows, Dequeue(e, v) PROVE Goal
    <2>1. Spawn(v, e) /\ UNCHANGED <<executor, recovering>> /\ \A w \in Workflows \ {v} : workflow_status'[w] = workflow_status[w]
        BY <1>0, <1>3 DEF Dequeue, NothingLost
    <2>2. Covered(v)' /\ \A t \in Tasks : Live(t) => task'[t] = task[t]
        BY <2>1, SpawnCovers
    <2>3. ASSUME NEW w \in Workflows \ {v} PROVE workflow_status'[w].status = "PENDING" => Covered(w)'
        BY <2>1, <2>2, CoverKept DEF Live
    <2> QED BY <2>2, <2>3
<1>4. ASSUME NEW t \in Tasks, TaskStep(t) \/ TaskFault(t) PROVE Goal
    BY <1>4, CoverTask
<1>5. ASSUME NEW e \in Executors, Crash(e) \/ Launch(e) \/ RecoverOne(e) PROVE Goal
    BY <1>5, CoverCrash, CoverLaunch, CoverRecover
<1>6. ASSUME NEW e \in Executors, FinishLaunch(e) PROVE Goal
    <2>1. /\ executor[e] = "launching" /\ executor' = [executor EXCEPT ![e] = "up"]
          /\ UNCHANGED <<workflow_status, recovering, task>>
        BY <1>6 DEF FinishLaunch
    <2>2. \A x \in Executors : executor[x] = "down" => executor'[x] = "down"
        BY <2>1 DEF Inv, TypeOK
    <2> QED BY <2>1, <2>2, CoverKept DEF Live
<1>7. ASSUME NEW v \in Workflows, CancelWorkflow(v) PROVE Goal
    <2>1. UNCHANGED <<executor, recovering, task>>
        BY <1>7 DEF CancelWorkflow
    <2>2. \A w \in Workflows : workflow_status'[w] = workflow_status[w] \/ workflow_status'[w].status # "PENDING"
        BY <1>0, <1>7 DEF CancelWorkflow, cancel_workflows, Row
    <2> QED BY <2>1, <2>2, CoverKept DEF Live
<1>8. CASE UNCHANGED vars
    BY <1>8, CoverKept DEF vars, Live
<1> QED BY <1>1, <1>2, <1>3, <1>4, <1>5, <1>6, <1>7, <1>8, NoRequests DEF Next

\* No PENDING workflow is orphaned: a task runs it, its executor's recovery loop has it listed, or its executor
\* is down and lists it when it is launched (launch, recover_pending_workflows, the queue runners).
THEOREM NoOrphans == ASSUME OneOwner, NothingLost PROVE Spec => []PendingIsCovered
<1>1. Init => PendingIsCovered
    BY DEF Init, PendingIsCovered, AbsentRow
<1>2. Inv /\ OwnerInv /\ PendingIsCovered /\ [Next]_vars => PendingIsCovered'
    BY CoverStep
<1> QED BY <1>1, <1>2, Invariance, OwnerInvariance, PTL DEF Spec

----
(* The dead-letter limit. It takes no owner: sites, recovery requests and faults are as they may. *)

\* Executions of a workflow that never goes through a queue are counted in recovery_attempts.
Counted(w, r, n) ==
    QueueSites[w] = {} =>
        /\ r.status # "ENQUEUED" /\ r.queue_name = NoQueue
        /\ r.status = "ABSENT" => n = 0
        /\ MaxRetries > 0 => n <= r.recovery_attempts /\ n <= MaxRetries + 1

CountInv == \A w \in Workflows : Counted(w, workflow_status[w], starts[w])

\* The row of one workflow changes, or none.
LEMMA CountChanges ==
    ASSUME Inv, CountInv, NEW w \in Workflows, NEW r, workflow_status' = [workflow_status EXCEPT ![w] = r],
           NEW n, starts' = [starts EXCEPT ![w] = n], Counted(w, r, n)
    PROVE  CountInv'
<1>1. workflow_status \in [Workflows -> Row] /\ starts \in [Workflows -> Nat]
    BY DEF Inv, TypeOK
<1>2. \A v \in Workflows : /\ workflow_status'[v] = IF v = w THEN r ELSE workflow_status[v]
                           /\ starts'[v] = IF v = w THEN n ELSE starts[v]
    BY <1>1
<1> QED BY <1>2 DEF CountInv

\* An execution that start_workflow spawns is counted and within the limit.
LEMMA StartCounted ==
    ASSUME Inv, CountInv, NEW w \in Workflows, NEW e \in Executors, NEW is_recovery \in BOOLEAN,
           start_workflow(w, e, is_recovery)
    PROVE  CountInv'
<1> DEFINE old == workflow_status[w]
           inc == IF is_recovery THEN 1 ELSE 0
<1>1. PICK r : r = Upsert(old, e, "PENDING", NoQueue, inc)
    OBVIOUS
<1>2. \/ DeadLettered(r) /\ workflow_status' = [workflow_status EXCEPT ![w] = Bury(r)] /\ UNCHANGED starts
      \/ workflow_status' = [workflow_status EXCEPT ![w] = r] /\ UNCHANGED starts
      \/ /\ ~DeadLettered(r) /\ ~ShouldSkip(w, r, is_recovery)
         /\ workflow_status' = [workflow_status EXCEPT ![w] = r] /\ starts' = [starts EXCEPT ![w] = starts[w] + 1]
    BY <1>1, Zenon DEF start_workflow, Spawn
<1>3. /\ old \in Row /\ old.recovery_attempts \in Nat /\ starts[w] \in Nat /\ MaxRetries \in Nat /\ inc \in {0, 1}
      /\ Counted(w, old, starts[w]) /\ starts = [starts EXCEPT ![w] = starts[w]]
    BY EngineAssumption DEF Inv, TypeOK, Row, CountInv
<1>4. /\ r.queue_name = IF old.status = "ABSENT" THEN NoQueue ELSE old.queue_name
      /\ r.recovery_attempts = IF old.status = "ABSENT" THEN 1 ELSE old.recovery_attempts + inc
      /\ r.status = IF old.status = "ABSENT" THEN "PENDING" ELSE old.status
    <2>1. CASE old.status = "ABSENT"
        BY <1>1, <2>1 DEF Upsert
    <2>2. CASE old.status # "ABSENT"
        <3>1. r = [old EXCEPT !.recovery_attempts = old.recovery_attempts + inc, !.executor_id = e]
            BY <1>1, <2>2 DEF Upsert
        <3> HIDE DEF old, inc
        <3> QED BY <1>3, <2>2, <3>1 DEF Row
    <2> QED BY <2>1, <2>2
<1>5. Bury(r).status \in {r.status, "MAX_RECOVERY_ATTEMPTS_EXCEEDED"} /\ Bury(r).recovery_attempts = r.recovery_attempts
      /\ Bury(r).queue_name \in {r.queue_name, NoQueue}
    <2>1. r \in Row
        <3>1. NoQueue \in {NoQueue, AppQueue, INTERNAL_QUEUE_NAME}
            OBVIOUS
        <3> HIDE DEF old, inc
        <3> QED BY <1>1, <1>3, <3>1, UpsertRow
    <2> QED BY <2>1 DEF Bury, Row
<1>6. ShouldSkip(w, r, is_recovery) \/ is_recovery \/ old.status = "ABSENT"
    BY DEF ShouldSkip, Exists
<1>7. is_recovery => inc = 1
    OBVIOUS
<1> HIDE DEF old, inc
<1>8. Counted(w, r, starts[w]) /\ Counted(w, Bury(r), starts[w])
    BY <1>3, <1>4, <1>5 DEF Counted
<1>9. ~DeadLettered(r) /\ ~ShouldSkip(w, r, is_recovery) => Counted(w, r, starts[w] + 1)
    <2> SUFFICES ASSUME ~DeadLettered(r), ~ShouldSkip(w, r, is_recovery), QueueSites[w] = {}
                 PROVE  /\ r.status # "ENQUEUED" /\ r.queue_name = NoQueue /\ r.status # "ABSENT"
                        /\ MaxRetries > 0 => starts[w] + 1 <= r.recovery_attempts /\ starts[w] + 1 <= MaxRetries + 1
        BY DEF Counted
    <2>1. r.status # "ENQUEUED" /\ r.queue_name = NoQueue /\ r.status # "ABSENT"
        BY <1>3, <1>4 DEF Counted
    <2>2. MaxRetries > 0 => starts[w] + 1 <= r.recovery_attempts
        BY <1>3, <1>4, <1>6, <1>7 DEF Counted
    <2>3. r.status \notin {"SUCCESS", "ERROR"}
        BY DEF ShouldSkip
    <2>4. MaxRetries > 0 => r.recovery_attempts <= MaxRetries + 1
        BY <1>3, <1>4, <2>3 DEF DeadLettered
    <2>5. r.recovery_attempts \in Nat
        BY <1>3, <1>4
    <2> QED BY <1>3, <2>1, <2>2, <2>4, <2>5
<1> QED BY <1>2, <1>3, <1>8, <1>9, CountChanges

LEMMA CountStep == ASSUME MaxResumes = 0 PROVE Inv /\ CountInv /\ [Next]_vars => CountInv'
<1> SUFFICES ASSUME Inv, CountInv, [Next]_vars PROVE CountInv'
    OBVIOUS
<1>0. /\ workflow_status \in [Workflows -> Row] /\ starts \in [Workflows -> Nat] /\ used["resumes"] \in Nat
      /\ \A w \in Workflows : starts = [starts EXCEPT ![w] = starts[w]] /\ Counted(w, workflow_status[w], starts[w])
    BY DEF Inv, TypeOK, Budgets, CountInv
<1>1. ASSUME NEW e \in Executors, NEW w \in Workflows, RunWorkflow(e, w) PROVE CountInv'
    <2>1. start_workflow(w, e, FALSE)
        BY <1>1 DEF RunWorkflow
    <2> QED BY <2>1, StartCounted
<1>2. ASSUME NEW e \in Executors, NEW w \in Workflows, EnqueueWorkflow(e, w) PROVE CountInv'
    <2>1. PICK r : workflow_status' = [workflow_status EXCEPT ![w] = r]
        BY <1>2 DEF EnqueueWorkflow
    <2>2. Counted(w, r, starts[w]) /\ UNCHANGED starts
        BY <1>2 DEF EnqueueWorkflow, Counted
    <2> QED BY <1>0, <2>1, <2>2, CountChanges
<1>3. ASSUME NEW e \in Executors, NEW w \in Workflows, Dequeue(e, w) PROVE CountInv'
    <2>1. PICK r, n : workflow_status' = [workflow_status EXCEPT ![w] = r] /\ starts' = [starts EXCEPT ![w] = n]
        BY <1>0, <1>3 DEF Dequeue, Spawn
    <2>2. QueueSites[w] # {}
        BY <1>0, <1>3 DEF Dequeue, Counted
    <2>3. Counted(w, r, n)
        BY <2>2 DEF Counted
    <2> QED BY <2>1, <2>3, CountChanges
<1>4. ASSUME NEW w \in Workflows, NEW r, UNCHANGED starts, workflow_status' = [workflow_status EXCEPT ![w] = r],
             r.recovery_attempts = workflow_status[w].recovery_attempts,
             r.queue_name \in {workflow_status[w].queue_name, NoQueue},
             r.status \notin {"ABSENT", "ENQUEUED"} \/ r.status = workflow_status[w].status
      PROVE  CountInv'
    <2>1. Counted(w, r, starts[w])
        BY <1>0, <1>4 DEF Counted
    <2> QED BY <1>0, <1>4, <2>1, CountChanges
<1>5. ASSUME NEW t \in Tasks, TaskStep(t) \/ TaskFault(t) PROVE CountInv'
    <2>1. UNCHANGED starts
        BY <1>5 DEF TaskStep, TaskFault, CheckStatus, CheckOutput, RunClosure, RecordStep, WriteOutcome, CheckFault,
           RecordFault, OutcomeFault
    <2>2. CASE UNCHANGED workflow_status
        BY <2>1, <2>2 DEF CountInv
    <2>3. CASE ~UNCHANGED workflow_status
        <3>1. /\ task[t].at = "outcome" /\ Sound(task[t], operation_outputs)
              /\ workflow_status' = [workflow_status EXCEPT ![task[t].wf] = WithOutcome(workflow_status[task[t].wf], task[t])]
            BY <1>5, <2>3 DEF TaskStep, TaskFault, CheckStatus, CheckOutput, RunClosure, RecordStep, WriteOutcome,
               CheckFault, RecordFault, OutcomeFault, Inv
        <3>2. PICK w \in Workflows : w = task[t].wf
            BY <3>1 DEF Sound
        <3>3. PICK r : r = WithOutcome(workflow_status[w], task[t])
            OBVIOUS
        <3>4. /\ r.recovery_attempts = workflow_status[w].recovery_attempts
              /\ r.queue_name = workflow_status[w].queue_name
              /\ r.status \notin {"ABSENT", "ENQUEUED"} \/ r.status = workflow_status[w].status
            BY <1>0, <3>3 DEF WithOutcome, Row
        <3> QED BY <1>4, <2>1, <3>1, <3>2, <3>3, <3>4
    <2> QED BY <2>2, <2>3
<1>6. ASSUME NEW e \in Executors, Crash(e) \/ Launch(e) \/ FinishLaunch(e) \/ RequestRecovery(e) PROVE CountInv'
    <2>1. UNCHANGED <<workflow_status, starts>>
        BY <1>6 DEF Crash, Launch, FinishLaunch, RequestRecovery
    <2> QED BY <2>1 DEF CountInv
<1>7. ASSUME NEW e \in Executors, RecoverOne(e) PROVE CountInv'
    <2>1. PICK item \in Listed : \/ ClearQueueAssignment(item.wf)
                                 \/ UNCHANGED <<workflow_status, task, starts>>
                                 \/ start_workflow(item.wf, e, TRUE)
        <3>1. recovering[e] \subseteq Listed
            BY DEF Inv, TypeOK
        <3> QED BY <1>7, <3>1, Zenon DEF RecoverOne
    <2>2. PICK w \in Workflows : w = item.wf
        BY DEF Listed
    <2>3. CASE UNCHANGED <<workflow_status, task, starts>>
        BY <2>3 DEF CountInv
    <2>4. CASE start_workflow(w, e, TRUE)
        BY <2>4, StartCounted
    <2>5. CASE ClearQueueAssignment(w)
        <3>1. /\ UNCHANGED starts
              /\ workflow_status' = [workflow_status EXCEPT ![w] =
                    IF workflow_status[w].queue_name # NoQueue /\ workflow_status[w].status = "PENDING"
                    THEN [workflow_status[w] EXCEPT !.status = "ENQUEUED"] ELSE workflow_status[w]]
            BY <2>5 DEF ClearQueueAssignment
        <3>2. CASE workflow_status[w].queue_name = NoQueue
            BY <1>0, <1>4, <3>1, <3>2
        <3>3. CASE workflow_status[w].queue_name # NoQueue
            <4>1. PICK r : workflow_status' = [workflow_status EXCEPT ![w] = r]
                BY <3>1
            <4>2. Counted(w, r, starts[w])
                BY <1>0, <3>3 DEF Counted
            <4> QED BY <1>0, <3>1, <4>1, <4>2, CountChanges
        <3> QED BY <3>2, <3>3
    <2> QED BY <2>1, <2>2, <2>3, <2>4, <2>5
<1>8. ASSUME NEW w \in Workflows, CancelWorkflow(w) PROVE CountInv'
    <2>1. PICK r : r = [workflow_status[w] EXCEPT !.status = "CANCELLED", !.queue_name = NoQueue]
        OBVIOUS
    <2>2. workflow_status' = [workflow_status EXCEPT ![w] = r] /\ UNCHANGED starts
        BY <1>8, <2>1 DEF CancelWorkflow, cancel_workflows
    <2>3. r.status = "CANCELLED" /\ r.queue_name = NoQueue /\ r.recovery_attempts = workflow_status[w].recovery_attempts
        BY <1>0, <2>1 DEF Row
    <2> QED BY <1>4, <2>2, <2>3
<1>9. \A w \in Workflows : ~ResumeWorkflow(w)
    BY <1>0 DEF ResumeWorkflow, Spend
<1>10. CASE UNCHANGED vars
    BY <1>10 DEF vars, CountInv
<1> QED BY <1>1, <1>2, <1>3, <1>5, <1>6, <1>7, <1>8, <1>9, <1>10 DEF Next

\* A workflow that never goes through a queue is begun at most 1 + max_retries times, wherever it is started,
\* however often its executors crash and whoever asks for recovery, as long as it is not resumed (which resets the
\* count).
THEOREM DeadLetterLimit == ASSUME MaxResumes = 0 PROVE Spec => []DirectStartsBounded
<1>1. Init => CountInv
    BY EngineAssumption DEF Init, CountInv, Counted, AbsentRow
<1>2. Inv /\ CountInv /\ [Next]_vars => CountInv'
    BY CountStep
<1>3. CountInv => DirectStartsBounded
    BY DEF CountInv, Counted, DirectStartsBounded
<1> QED BY <1>1, <1>2, <1>3, Invariance, PTL DEF Spec

====
