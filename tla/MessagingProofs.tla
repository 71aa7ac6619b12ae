---- MODULE MessagingProofs ----
(*
 * Proofs about Messaging, for all programs, any number of workflows, processes and overlapping executions,
 * and any number of crashes and lost connections.
 *)
EXTENDS Messaging, FiniteSetTheorems, SequenceTheorems, TLAPS

----
(* The inductive invariant *)

\* Steps are recorded in the order of the program; a durable sleep records its deadline only.
OrderInv ==
    \A w \in Workflows : \A i, j \in Positions(w) :
        i < j /\ operation_outputs[w][j] # None /\ Program[w][i] # "sleep" =>
            operation_outputs[w][i] # None

\* An execution is at an operation of its program that its place fits, and got the recorded result of
\* every operation before it.
Good(tk, outputs, due) ==
    tk.at # "idle" =>
        /\ tk.wf \in Workflows /\ tk.on \in Processes
        /\ tk.pc \in Positions(tk.wf)
        /\ Len(tk.view) = tk.pc - 1
        /\ tk.at \in {"check", "probe", "wait", "finish"} => Program[tk.wf][tk.pc] # "sleep"
        /\ tk.at = "doze" => Program[tk.wf][tk.pc] = "sleep"
        /\ \A i \in 1 .. tk.pc - 1 :
            IF Program[tk.wf][i] = "sleep"
            THEN due[tk.wf][i] = "past"
            ELSE outputs[tk.wf][i] # None /\ tk.view[i] = outputs[tk.wf][i]

TaskInv == \A t \in Tasks : Good(task[t], operation_outputs, deadlines)

\* The event is one of Source's, and only recorded set_event steps leave a mark on it.
EventInv ==
    /\ workflow_events # None => \E i \in Positions(Source) : workflow_events = <<Source, i>>
    /\ EventIsLatest

Inv == TypeOK /\ OrderInv /\ TaskInv /\ SentExactlyOnce /\ DeliveredExactlyOnce /\ EventInv

----
(* Operators *)

LEMMA ProgramOK ==
    ASSUME NEW w \in Workflows
    PROVE  /\ Program[w] \in Seq(Operations) /\ Len(Program[w]) \in Nat \ {0}
           /\ 1 \in Positions(w) /\ Positions(w) \subseteq Nat
           /\ \A i \in Positions(w) : Program[w][i] \in Operations /\ <<w, i>> \in Written
           /\ \A i \in Positions(w) : i # Len(Program[w]) => i + 1 \in Positions(w)
<1>1. Program[w] \in Seq(Operations) /\ Program[w] # <<>>
    BY MessagingAssumption
<1>2. Len(Program[w]) \in Nat /\ Len(Program[w]) # 0
    BY <1>1, EmptySeq, LenProperties
<1>3. \A i \in Positions(w) : Program[w][i] \in Operations
    BY <1>1, ElementOfSeq DEF Positions
<1>4. \A i \in Positions(w) : <<w, i>> \in Written
    BY DEF Written
<1> QED BY <1>1, <1>2, <1>3, <1>4 DEF Positions

\* Results that are recorded and deadlines that are past stay.
Keeps(outputs, outputs2, due, due2) ==
    \A w \in Workflows : \A i \in Positions(w) :
        /\ outputs[w][i] # None => outputs2[w][i] = outputs[w][i]
        /\ due[w][i] = "past" => due2[w][i] = "past"

LEMMA GoodKept ==
    ASSUME NEW tk \in Task, NEW outputs, NEW outputs2, NEW due, NEW due2,
           Keeps(outputs, outputs2, due, due2), Good(tk, outputs, due)
    PROVE  Good(tk, outputs2, due2)
<1> SUFFICES ASSUME tk.at # "idle" PROVE Good(tk, outputs2, due2)
    BY DEF Good
<1>1. tk.wf \in Workflows /\ tk.pc \in Positions(tk.wf)
    BY DEF Good
<1>2. \A i \in 1 .. tk.pc - 1 : i \in Positions(tk.wf)
    BY <1>1, ProgramOK DEF Positions
<1> QED BY <1>1, <1>2 DEF Good, Keeps

LEMMA IdleOK ==
    /\ IdleTask \in Task /\ IdleTask.at = "idle"
    /\ \A outputs, due : Good(IdleTask, outputs, due)
<1>1. <<>> \in Seq(Outputs)
    OBVIOUS
<1> QED BY <1>1 DEF IdleTask, Task, Places, Good

\* A body that gets the recorded result of its operation, or whose sleep is over, goes on in order.
LEMMA AdvanceOK ==
    ASSUME NEW tk \in Task, NEW outputs, NEW due, NEW r \in Outputs, tk.at # "idle", Good(tk, outputs, due),
           IF Program[tk.wf][tk.pc] = "sleep" THEN due[tk.wf][tk.pc] = "past"
           ELSE outputs[tk.wf][tk.pc] # None /\ r = outputs[tk.wf][tk.pc]
    PROVE  Advance(tk, r) \in Task /\ Good(Advance(tk, r), outputs, due)
<1> DEFINE new == [tk EXCEPT !.at = IF Program[tk.wf][tk.pc + 1] = "sleep" THEN "sleep" ELSE "check",
                             !.pc = tk.pc + 1, !.woken = FALSE, !.found = None, !.view = Append(tk.view, r)]
<1>1. CASE tk.pc = Len(Program[tk.wf])
    BY <1>1, IdleOK DEF Advance
<1>2. CASE tk.pc # Len(Program[tk.wf])
    <2>1. Advance(tk, r) = new
        BY <1>2 DEF Advance
    <2>2. /\ tk.wf \in Workflows /\ tk.on \in Processes /\ tk.pc \in Positions(tk.wf)
          /\ tk.view \in Seq(Outputs) /\ Len(tk.view) = tk.pc - 1
        BY DEF Good, Task
    <2>3. tk.pc \in Nat /\ tk.pc + 1 \in Positions(tk.wf)
        BY <1>2, <2>2, ProgramOK
    <2>4. PICK v \in Seq(Outputs) : v = Append(tk.view, r)
        BY <2>2, AppendProperties
    <2>5. /\ Len(v) = tk.pc /\ v[tk.pc] = r
          /\ \A i \in 1 .. tk.pc - 1 : v[i] = tk.view[i]
        BY <2>2, <2>3, <2>4, AppendProperties
    <2>6. new \in Task
        <3>1. new = [tk EXCEPT !.at = IF Program[tk.wf][tk.pc + 1] = "sleep" THEN "sleep" ELSE "check",
                              !.pc = tk.pc + 1, !.woken = FALSE, !.found = None, !.view = v]
            BY <2>4
        <3>2. tk.pc + 1 \in Nat
            BY <2>3
        <3> QED BY <3>1, <3>2 DEF Task, Places
    <2>7. /\ new.at \in {"sleep", "check"} /\ new.wf = tk.wf /\ new.on = tk.on /\ new.pc = tk.pc + 1
          /\ new.view = v
          /\ new.at = "check" => Program[tk.wf][tk.pc + 1] # "sleep"
        BY <2>4 DEF Task
    <2> HIDE DEF new
    <2>8. \A i \in 1 .. tk.pc :
            IF Program[tk.wf][i] = "sleep"
            THEN due[tk.wf][i] = "past"
            ELSE outputs[tk.wf][i] # None /\ v[i] = outputs[tk.wf][i]
        <3>1. \A i \in 1 .. tk.pc : i = tk.pc \/ i \in 1 .. tk.pc - 1
            BY <2>3
        <3> QED BY <2>5, <3>1 DEF Good
    <2>9. new.pc - 1 = tk.pc
        BY <2>3, <2>7
    <2>10. Good(new, outputs, due)
        BY <2>2, <2>3, <2>5, <2>7, <2>8, <2>9 DEF Good
    <2> QED BY <2>1, <2>6, <2>10
<1> QED BY <1>1, <1>2

\* Where a value occurs in a sequence, and how often when a value is appended.
Where(q, x) == {k \in 1 .. Len(q) : q[k] = x}

LEMMA AppendCount ==
    ASSUME NEW S, NEW s \in Seq(S), NEW v \in S, NEW x
    PROVE  /\ Cardinality(Where(s, x)) \in Nat
           /\ v = x => Cardinality(Where(Append(s, v), x)) = Cardinality(Where(s, x)) + 1
           /\ v # x => Cardinality(Where(Append(s, v), x)) = Cardinality(Where(s, x))
<1> DEFINE s2 == Append(s, v)
<1>1. /\ s2 \in Seq(S) /\ Len(s) \in Nat /\ Len(s2) = Len(s) + 1 /\ s2[Len(s) + 1] = v
      /\ \A k \in 1 .. Len(s) : s2[k] = s[k]
    BY AppendProperties, LenProperties
<1>2. IsFiniteSet(Where(s, x)) /\ Cardinality(Where(s, x)) \in Nat
    <2>1. IsFiniteSet(1 .. Len(s)) /\ Where(s, x) \subseteq 1 .. Len(s)
        BY <1>1, FS_Interval DEF Where
    <2> QED BY <2>1, FS_Subset, FS_CardinalityType
<1> HIDE DEF s2
<1>3. ASSUME v = x PROVE Cardinality(Where(s2, x)) = Cardinality(Where(s, x)) + 1
    <2>1. Where(s2, x) = Where(s, x) \cup {Len(s) + 1} /\ Len(s) + 1 \notin Where(s, x)
        BY <1>1, <1>3 DEF Where
    <2> QED BY <1>2, <2>1, FS_AddElement
<1>4. ASSUME v # x PROVE Cardinality(Where(s2, x)) = Cardinality(Where(s, x))
    <2>1. Where(s2, x) = Where(s, x)
        BY <1>1, <1>4 DEF Where
    <2> QED BY <2>1
<1> QED BY <1>2, <1>3, <1>4 DEF s2

\* The rank of a receipt among the receipts.
LEMMA RankBounds ==
    ASSUME NEW R \in SUBSET Positions(Receiver)
    PROVE  /\ IsFiniteSet(R) /\ Cardinality(R) \in Nat /\ R \subseteq Nat
           /\ \A i \in R : Cardinality({j \in R : j <= i}) \in 1 .. Cardinality(R)
<1>1. IsFiniteSet(Positions(Receiver)) /\ Positions(Receiver) \subseteq Nat
    <2>1. Len(Program[Receiver]) \in Nat /\ Positions(Receiver) = 1 .. Len(Program[Receiver])
        BY MessagingAssumption, ProgramOK DEF Positions
    <2> QED BY <2>1, FS_Interval
<1>2. IsFiniteSet(R) /\ Cardinality(R) \in Nat /\ R \subseteq Nat
    BY <1>1, FS_Subset, FS_CardinalityType
<1>3. ASSUME NEW i \in R
      PROVE  Cardinality({j \in R : j <= i}) \in 1 .. Cardinality(R)
    <2> DEFINE B == {j \in R : j <= i}
    <2>1. B \subseteq R /\ i \in B
        BY <1>2
    <2> HIDE DEF B
    <2>2. IsFiniteSet(B) /\ Cardinality(B) \in Nat /\ Cardinality(B) <= Cardinality(R)
        BY <1>2, <2>1, FS_Subset, FS_CardinalityType
    <2>3. Cardinality(B) # 0
        BY <2>1, <2>2, FS_EmptySet
    <2> QED BY <1>2, <2>2, <2>3 DEF B
<1> QED BY <1>2, <1>3

\* Steps that are no send, no recv and no set_event keep what is said of these.
LEMMA SentKept ==
    ASSUME Inv, UNCHANGED notifications,
           \A v \in Workflows : \A j \in Positions(v) :
                Program[v][j] = "send" => operation_outputs'[v][j] = operation_outputs[v][j]
    PROVE  SentExactlyOnce'
    BY DEF Inv, SentExactlyOnce

LEMMA DeliveredKept ==
    ASSUME Inv, UNCHANGED consumed,
           \A k \in 1 .. Len(notifications) : notifications'[k] = notifications[k],
           \A j \in Positions(Receiver) :
                Program[Receiver][j] = "recv" => operation_outputs'[Receiver][j] = operation_outputs[Receiver][j]
    PROVE  DeliveredExactlyOnce'
<1>1. PICK R \in SUBSET Positions(Receiver) : R = Receipts
    BY DEF Receipts
<1>2. Receipts' = R
    BY <1>1 DEF Receipts
<1>3. Cardinality(R) = consumed /\ consumed \in 0 .. Len(notifications) /\ Len(notifications) \in Nat
    BY <1>1, LenProperties DEF Inv, DeliveredExactlyOnce, TypeOK
<1>4. \A i \in R : Cardinality({j \in R : j <= i}) \in 1 .. Len(notifications)
    BY <1>3, RankBounds
<1>5. \A i \in R : operation_outputs'[Receiver][i] = operation_outputs[Receiver][i]
    BY <1>1 DEF Receipts
<1>6. \A i \in R : operation_outputs[Receiver][i] = notifications[Cardinality({j \in R : j <= i})]
    BY <1>1 DEF Inv, DeliveredExactlyOnce
<1> QED BY <1>2, <1>3, <1>4, <1>5, <1>6 DEF DeliveredExactlyOnce

LEMMA EventKept ==
    ASSUME Inv, UNCHANGED workflow_events,
           \A j \in Positions(Source) :
                Program[Source][j] = "set_event" => operation_outputs'[Source][j] = operation_outputs[Source][j]
    PROVE  EventInv'
    BY DEF Inv, EventInv, EventIsLatest

----
(* Steps that leave the tables alone *)

Memory ==
    /\ notifications_waiters \in [Processes -> SUBSET Tasks]
    /\ events_waiters \in [Processes -> SUBSET Tasks]
    /\ connected \in [Processes -> BOOLEAN]
    /\ used \in [{"starts", "disruptions"} -> Nat]

LEMMA MemoryStep ==
    ASSUME Inv, UNCHANGED tables, Memory', task' \in [Tasks -> Task],
           \A t \in Tasks : Good(task'[t], operation_outputs, deadlines)
    PROVE  Inv'
<1>1. TypeOK'
    BY DEF Inv, TypeOK, tables, Memory
<1>2. OrderInv' /\ EventInv'
    <2>1. OrderInv'
        BY DEF Inv, OrderInv, tables
    <2>2. EventInv'
        BY DEF Inv, EventInv, EventIsLatest, tables
    <2> QED BY <2>1, <2>2
<1>3. TaskInv'
    BY DEF TaskInv, tables
<1>4. SentExactlyOnce' /\ DeliveredExactlyOnce'
    <2>1. SentExactlyOnce'
        BY DEF Inv, SentExactlyOnce, tables
    <2>2. DeliveredExactlyOnce'
        BY DEF Inv, DeliveredExactlyOnce, Receipts, tables
    <2> QED BY <2>1, <2>2
<1> QED BY <1>1, <1>2, <1>3, <1>4 DEF Inv

\* One execution moves.
LEMMA TaskMoves ==
    ASSUME Inv, NEW t \in Tasks, NEW new \in Task, task' = [task EXCEPT ![t] = new],
           UNCHANGED tables, Memory', Good(new, operation_outputs, deadlines)
    PROVE  Inv'
<1>1. /\ task' \in [Tasks -> Task]
      /\ \A u \in Tasks : task'[u] = IF u = t THEN new ELSE task[u]
    BY DEF Inv, TypeOK
<1>2. \A u \in Tasks : Good(task'[u], operation_outputs, deadlines)
    BY <1>1 DEF Inv, TaskInv
<1> QED BY <1>1, <1>2, MemoryStep

\* What the invariant says of one execution.
LEMMA TaskFacts ==
    ASSUME Inv, NEW t \in Tasks
    PROVE  /\ Memory /\ task[t] \in Task /\ Good(task[t], operation_outputs, deadlines)
           /\ task[t].at # "idle" =>
                /\ task[t].wf \in Workflows /\ task[t].on \in Processes
                /\ task[t].pc \in Positions(task[t].wf)
                /\ operation_outputs[task[t].wf][task[t].pc] \in Outputs \cup {None}
<1>1. Memory /\ task[t] \in Task /\ Good(task[t], operation_outputs, deadlines)
    BY DEF Inv, TypeOK, TaskInv, Memory
<1>2. task[t].at # "idle" => /\ task[t].wf \in Workflows /\ task[t].on \in Processes
                             /\ task[t].pc \in Positions(task[t].wf)
    BY <1>1 DEF Good
<1> QED BY <1>1, <1>2 DEF Inv, TypeOK

LEMMA InitInv == Init => Inv
<1> SUFFICES ASSUME Init PROVE Inv
    OBVIOUS
<1>1. /\ \A w \in Workflows : \A i \in Positions(w) : operation_outputs[w][i] = None
      /\ notifications = <<>> /\ consumed = 0 /\ workflow_events = None
      /\ \A t \in Tasks : task[t] = IdleTask
    BY DEF Init
<1>2. TypeOK
    <2>1. notifications \in Seq(Written) /\ consumed \in 0 .. Len(notifications)
        BY <1>1
    <2>2. task \in [Tasks -> Task]
        BY IdleOK DEF Init
    <2> QED BY <2>1, <2>2 DEF Init, TypeOK
<1>3. OrderInv /\ EventInv
    BY <1>1, MessagingAssumption DEF OrderInv, EventInv, EventIsLatest
<1>4. TaskInv
    BY <1>1, IdleOK DEF TaskInv
<1>5. SentExactlyOnce
    <2>1. \A w \in Workflows : \A i \in Positions(w) :
            {k \in 1 .. Len(notifications) : notifications[k] = <<w, i>>} = {}
        BY <1>1
    <2> QED BY <1>1, <2>1, FS_EmptySet DEF SentExactlyOnce
<1>6. DeliveredExactlyOnce
    <2>1. Receipts = {}
        BY <1>1, MessagingAssumption DEF Receipts
    <2> QED BY <1>1, <2>1, FS_EmptySet DEF DeliveredExactlyOnce
<1> QED BY <1>2, <1>3, <1>4, <1>5, <1>6 DEF Inv

LEMMA StartInv == ASSUME Inv, NEW w \in Workflows, NEW p \in Processes, Start(w, p) PROVE Inv'
<1> DEFINE new == [IdleTask EXCEPT !.at = IF Program[w][1] = "sleep" THEN "sleep" ELSE "check",
                                  !.wf = w, !.on = p]
<1>1. PICK t \in Tasks : task' = [task EXCEPT ![t] = new]
    <2>1. (CHOOSE u \in Idle : TRUE) \in Idle
        BY DEF Start
    <2> QED BY <2>1 DEF Start, Idle
<1>2. IdleTask \in Task /\ IdleTask.pc = 1 /\ IdleTask.view = <<>>
    BY IdleOK DEF IdleTask
<1>3. /\ new \in Task /\ new.at \in {"sleep", "check"} /\ new.wf = w /\ new.on = p /\ new.pc = 1
      /\ new.view = <<>> /\ (new.at = "check" => Program[w][1] # "sleep")
    BY <1>2 DEF Task, Places
<1> HIDE DEF new
<1>4. Good(new, operation_outputs, deadlines)
    <2>1. 1 \in Positions(w) /\ Len(new.view) = 0 /\ 1 .. new.pc - 1 = {}
        BY <1>3, ProgramOK
    <2> QED BY <1>3, <2>1 DEF Good
<1>5. UNCHANGED tables /\ Memory'
    BY DEF Start, Spend, Inv, TypeOK, Memory
<1> QED BY <1>1, <1>3, <1>4, <1>5, TaskMoves

LEMMA CrashInv == ASSUME Inv, NEW p \in Processes, Crash(p) PROVE Inv'
<1>1. \A t \in Tasks : task'[t] = IF task[t].on = p THEN IdleTask ELSE task[t]
    BY DEF Crash
<1>2. task' \in [Tasks -> Task]
    BY IdleOK DEF Crash, Inv, TypeOK
<1>3. \A t \in Tasks : Good(task'[t], operation_outputs, deadlines)
    BY <1>1, IdleOK DEF Inv, TaskInv
<1>4. UNCHANGED tables /\ Memory'
    BY DEF Crash, Spend, Inv, TypeOK, Memory
<1> QED BY <1>2, <1>3, <1>4, MemoryStep

\* The listener only marks waiting executions as woken.
LEMMA WokenInv ==
    ASSUME Inv, NEW p \in Processes, NEW C, NotifyWaiters(p, C), UNCHANGED tables, Memory'
    PROVE  Inv'
<1>1. PICK S : task' = [t \in Tasks |-> IF t \in S /\ task[t].at \in {"probe", "wait"}
                                        THEN [task[t] EXCEPT !.woken = TRUE] ELSE task[t]]
    BY DEF NotifyWaiters
<1>2. ASSUME NEW t \in Tasks
      PROVE  task'[t] \in Task /\ Good(task'[t], operation_outputs, deadlines)
    <2>1. PICK tk \in Task : tk = task[t] /\ Good(tk, operation_outputs, deadlines)
        BY TaskFacts
    <2>2. task'[t] = tk \/ task'[t] = [tk EXCEPT !.woken = TRUE]
        BY <1>1, <2>1
    <2> DEFINE new == [tk EXCEPT !.woken = TRUE]
    <2>3. /\ new \in Task /\ new.at = tk.at /\ new.wf = tk.wf /\ new.on = tk.on /\ new.pc = tk.pc
          /\ new.view = tk.view
        BY DEF Task
    <2> HIDE DEF new
    <2>4. Good(new, operation_outputs, deadlines)
        BY <2>1, <2>3 DEF Good
    <2> QED BY <2>1, <2>2, <2>3, <2>4 DEF new
<1>3. task' \in [Tasks -> Task]
    BY <1>1, <1>2
<1> QED BY <1>2, <1>3, MemoryStep

LEMMA ListenerInv ==
    ASSUME Inv, NEW p \in Processes,
           Tick(p) \/ Connect(p) \/ Disconnect(p) \/ (\E c \in Channels : Deliver(p, c))
    PROVE  Inv'
<1>1. UNCHANGED tables /\ Memory'
    <2>1. Memory
        BY DEF Inv, TypeOK, Memory
    <2>2. CASE Tick(p) \/ Connect(p)
        BY <2>1, <2>2 DEF Tick, Connect, Memory
    <2>3. CASE Disconnect(p)
        BY <2>1, <2>3 DEF Disconnect, Spend, Memory, memory
    <2>4. CASE \E c \in Channels : Deliver(p, c)
        BY <2>1, <2>4 DEF Deliver, Memory
    <2> QED BY <2>2, <2>3, <2>4
<1>2. CASE Tick(p) \/ Connect(p)
    BY <1>1, <1>2, WokenInv DEF Tick, Connect, wake_all
<1>3. CASE Disconnect(p)
    <2>1. task' = task
        BY <1>3 DEF Disconnect, memory
    <2> QED BY <1>1, <2>1, MemoryStep DEF Inv, TypeOK, TaskInv
<1>4. CASE \E c \in Channels : Deliver(p, c)
    BY <1>1, <1>4, WokenInv DEF Deliver
<1> QED BY <1>2, <1>3, <1>4

----
(* Steps of an execution up to its transaction *)

\* The execution stays at its operation.
LEMMA StaysGood ==
    ASSUME NEW tk \in Task, NEW new \in Task, NEW outputs, NEW due, Good(tk, outputs, due), tk.at # "idle",
           new.wf = tk.wf, new.on = tk.on, new.pc = tk.pc, new.view = tk.view,
           new.at = "sleep" \/ new.at = tk.at \/ (new.at = "doze") = (Program[tk.wf][tk.pc] = "sleep")
    PROVE  Good(new, outputs, due)
    BY DEF Good

LEMMA ReplayInv == ASSUME Inv, NEW t \in Tasks, Replay(t) PROVE Inv'
<1>1. PICK tk \in Task : tk = task[t] /\ Good(tk, operation_outputs, deadlines)
    BY TaskFacts
<1>2. tk.at = "check" /\ operation_outputs[tk.wf][tk.pc] # None
    BY <1>1 DEF Replay, Recorded
<1>3. PICK r \in Outputs : r = operation_outputs[tk.wf][tk.pc]
    BY <1>1, <1>2, TaskFacts
<1>4. task' = [task EXCEPT ![t] = Advance(tk, r)]
    BY <1>1, <1>3 DEF Replay
<1>5. Program[tk.wf][tk.pc] # "sleep"
    BY <1>1, <1>2 DEF Good
<1>6. Advance(tk, r) \in Task /\ Good(Advance(tk, r), operation_outputs, deadlines)
    BY <1>1, <1>2, <1>3, <1>5, AdvanceOK
<1>7. UNCHANGED tables /\ Memory'
    BY DEF Replay, Inv, TypeOK, Memory
<1> QED BY <1>4, <1>6, <1>7, TaskMoves

LEMMA WakeUpInv == ASSUME Inv, NEW t \in Tasks, WakeUp(t) PROVE Inv'
<1>1. PICK tk \in Task : tk = task[t] /\ Good(tk, operation_outputs, deadlines)
    BY TaskFacts
<1>2. tk.at = "doze" /\ deadlines[tk.wf][tk.pc] = "past" /\ task' = [task EXCEPT ![t] = Advance(tk, Unit)]
    BY <1>1 DEF WakeUp, Past
<1>3. Program[tk.wf][tk.pc] = "sleep"
    BY <1>1, <1>2 DEF Good
<1>4. Unit \in Outputs
    BY DEF Outputs
<1>5. Advance(tk, Unit) \in Task /\ Good(Advance(tk, Unit), operation_outputs, deadlines)
    BY <1>1, <1>2, <1>3, <1>4, AdvanceOK
<1>6. UNCHANGED tables /\ Memory'
    BY DEF WakeUp, Inv, TypeOK, Memory
<1> QED BY <1>2, <1>5, <1>6, TaskMoves

LEMMA MissInv == ASSUME Inv, NEW t \in Tasks, Miss(t) PROVE Inv'
<1>1. PICK tk \in Task : tk = task[t] /\ Good(tk, operation_outputs, deadlines)
    BY TaskFacts
<1> DEFINE new == [tk EXCEPT !.at = "finish"]
<1>2. tk.at = "check" /\ task' = [task EXCEPT ![t] = new]
    BY <1>1 DEF Miss, Inv, TypeOK
<1>3. /\ new \in Task /\ new.at = "finish" /\ new.wf = tk.wf /\ new.on = tk.on /\ new.pc = tk.pc
      /\ new.view = tk.view
    BY DEF Task, Places
<1> HIDE DEF new
<1>4. Good(new, operation_outputs, deadlines)
    BY <1>1, <1>2, <1>3 DEF Good
<1>5. UNCHANGED tables /\ Memory'
    BY DEF Miss, Inv, TypeOK, Memory
<1> QED BY <1>2, <1>3, <1>4, <1>5, TaskMoves

LEMMA EnterRecvInv == ASSUME Inv, NEW t \in Tasks, EnterRecv(t) PROVE Inv'
<1>1. PICK tk \in Task : tk = task[t] /\ Good(tk, operation_outputs, deadlines)
    BY TaskFacts
<1> DEFINE waiting == [tk EXCEPT !.at = "sleep"]
<1>2. /\ tk.at = "check"
      /\ task' = [task EXCEPT ![t] = waiting] \/ task' = [task EXCEPT ![t] = IdleTask]
    BY <1>1 DEF EnterRecv
<1>3. /\ waiting \in Task /\ waiting.at = "sleep" /\ waiting.wf = tk.wf /\ waiting.on = tk.on
      /\ waiting.pc = tk.pc /\ waiting.view = tk.view
    BY DEF Task, Places
<1> HIDE DEF waiting
<1>4. Good(waiting, operation_outputs, deadlines)
    BY <1>1, <1>2, <1>3, StaysGood
<1>5. UNCHANGED tables /\ Memory'
    BY <1>1 DEF EnterRecv, Inv, TypeOK, Memory
<1> QED BY <1>2, <1>3, <1>4, <1>5, IdleOK, TaskMoves

LEMMA EnterGetEventInv == ASSUME Inv, NEW t \in Tasks, EnterGetEvent(t) PROVE Inv'
<1>1. PICK tk \in Task : tk = task[t] /\ Good(tk, operation_outputs, deadlines)
    BY TaskFacts
<1> DEFINE waiting == [tk EXCEPT !.at = "sleep"]
<1>2. tk.at = "check" /\ task' = [task EXCEPT ![t] = waiting]
    BY <1>1 DEF EnterGetEvent, Inv, TypeOK
<1>3. /\ waiting \in Task /\ waiting.at = "sleep" /\ waiting.wf = tk.wf /\ waiting.on = tk.on
      /\ waiting.pc = tk.pc /\ waiting.view = tk.view
    BY DEF Task, Places
<1> HIDE DEF waiting
<1>4. Good(waiting, operation_outputs, deadlines)
    BY <1>1, <1>2, <1>3, StaysGood
<1>5. UNCHANGED tables /\ Memory'
    BY DEF EnterGetEvent, Inv, TypeOK, Memory
<1> QED BY <1>2, <1>3, <1>4, <1>5, TaskMoves

LEMMA ProbeInv == ASSUME Inv, NEW t \in Tasks, Probe(t) PROVE Inv'
<1>1. PICK tk \in Task : tk = task[t] /\ Good(tk, operation_outputs, deadlines)
    BY TaskFacts
<1>2. PICK place \in {"finish", "wait"}, event \in Written \cup {None} :
        task' = [task EXCEPT ![t] = [tk EXCEPT !.at = place, !.found = event]]
    BY <1>1 DEF Probe, select_workflow_event, Inv, TypeOK
<1> DEFINE new == [tk EXCEPT !.at = place, !.found = event]
<1>3. /\ new \in Task /\ new.at = place /\ new.wf = tk.wf /\ new.on = tk.on
      /\ new.pc = tk.pc /\ new.view = tk.view
    BY DEF Task, Places
<1> HIDE DEF new
<1>4. Good(new, operation_outputs, deadlines)
    BY <1>1, <1>3 DEF Good, Probe
<1>5. UNCHANGED tables /\ Memory'
    BY DEF Probe, Inv, TypeOK, Memory
<1>6. task' = [task EXCEPT ![t] = new]
    BY <1>2 DEF new
<1> QED BY <1>3, <1>4, <1>5, <1>6, TaskMoves

LEMMA WakeInv == ASSUME Inv, NEW t \in Tasks, Wake(t) PROVE Inv'
<1>1. PICK tk \in Task : tk = task[t] /\ Good(tk, operation_outputs, deadlines)
    BY TaskFacts
<1> DEFINE new == [tk EXCEPT !.at = "probe", !.woken = FALSE]
<1>2. tk.at = "wait" /\ task' = [task EXCEPT ![t] = new]
    BY <1>1 DEF Wake
<1>3. /\ new \in Task /\ new.at = "probe" /\ new.wf = tk.wf /\ new.on = tk.on
      /\ new.pc = tk.pc /\ new.view = tk.view
    BY DEF Task, Places
<1> HIDE DEF new
<1>4. Good(new, operation_outputs, deadlines)
    BY <1>1, <1>2, <1>3 DEF Good
<1>5. UNCHANGED tables /\ Memory'
    BY DEF Wake, Inv, TypeOK, Memory
<1> QED BY <1>2, <1>3, <1>4, <1>5, TaskMoves

----
(* Deadlines *)

\* Deadlines are recorded and pass; those that are past stay so.
LEMMA DueStep ==
    ASSUME Inv, task' \in [Tasks -> Task], TaskInv', deadlines' = [w \in Workflows |-> deadlines'[w]],
           \A w \in Workflows : deadlines'[w] \in [Positions(w) -> {"none", "recorded", "past"}],
           UNCHANGED <<operation_outputs, notifications, consumed, workflow_events, notifications_waiters,
                       events_waiters, connected, used>>
    PROVE  Inv'
<1>1. TypeOK'
    BY DEF Inv, TypeOK
<1>2. OrderInv' /\ EventInv'
    BY EventKept DEF Inv, OrderInv
<1>3. SentExactlyOnce' /\ DeliveredExactlyOnce'
    BY SentKept, DeliveredKept
<1> QED BY <1>1, <1>2, <1>3 DEF Inv

LEMMA DeadlinePassesInv ==
    ASSUME Inv, NEW w \in Workflows, NEW i \in Positions(w), DeadlinePasses(w, i) PROVE Inv'
<1>1. /\ deadlines' = [deadlines EXCEPT ![w][i] = "past"] /\ task' = task
      /\ deadlines = [v \in Workflows |-> deadlines[v]]
      /\ \A v \in Workflows : deadlines[v] \in [Positions(v) -> {"none", "recorded", "past"}]
      /\ task \in [Tasks -> Task]
    BY DEF DeadlinePasses, memory, Inv, TypeOK
<1>2. /\ deadlines' = [v \in Workflows |-> deadlines'[v]]
      /\ \A v \in Workflows : deadlines'[v] \in [Positions(v) -> {"none", "recorded", "past"}]
      /\ \A v \in Workflows : \A j \in Positions(v) : deadlines[v][j] = "past" => deadlines'[v][j] = "past"
    BY <1>1
<1>3. Keeps(operation_outputs, operation_outputs', deadlines, deadlines')
    BY <1>2 DEF Keeps, DeadlinePasses
<1>4. TaskInv'
    BY <1>1, <1>3, GoodKept DEF TaskInv, Inv
<1> QED BY <1>1, <1>2, <1>4, DueStep DEF DeadlinePasses, memory

LEMMA RecordSleepInv == ASSUME Inv, NEW t \in Tasks, RecordSleep(t) PROVE Inv'
<1>1. PICK tk \in Task : tk = task[t] /\ Good(tk, operation_outputs, deadlines)
    BY TaskFacts
<1>2. /\ deadlines' = [deadlines EXCEPT ![tk.wf][tk.pc] =
                            IF deadlines[tk.wf][tk.pc] = "none" THEN "recorded" ELSE deadlines[tk.wf][tk.pc]]
      /\ deadlines = [v \in Workflows |-> deadlines[v]]
      /\ \A v \in Workflows : deadlines[v] \in [Positions(v) -> {"none", "recorded", "past"}]
      /\ task \in [Tasks -> Task] /\ tk.at = "sleep"
    BY <1>1 DEF RecordSleep, Inv, TypeOK
<1>3. tk.wf \in Workflows /\ tk.pc \in Positions(tk.wf)
    BY <1>1, <1>2 DEF Good
<1>4. /\ deadlines' = [v \in Workflows |-> deadlines'[v]]
      /\ \A v \in Workflows : deadlines'[v] \in [Positions(v) -> {"none", "recorded", "past"}]
      /\ \A v \in Workflows : \A j \in Positions(v) : deadlines[v][j] = "past" => deadlines'[v][j] = "past"
    BY <1>2, <1>3
<1>5. Keeps(operation_outputs, operation_outputs', deadlines, deadlines')
    BY <1>4 DEF Keeps, RecordSleep
<1> DEFINE new == [tk EXCEPT !.at = IF Program[tk.wf][tk.pc] = "sleep" THEN "doze" ELSE "probe"]
<1>6. task' = [task EXCEPT ![t] = new]
    BY <1>1, <1>2 DEF RecordSleep, Op
<1>7. /\ new \in Task /\ new.wf = tk.wf /\ new.on = tk.on /\ new.pc = tk.pc /\ new.view = tk.view
      /\ new.at = IF Program[tk.wf][tk.pc] = "sleep" THEN "doze" ELSE "probe"
    BY DEF Task, Places
<1> HIDE DEF new
<1>8. Good(new, operation_outputs, deadlines)
    BY <1>1, <1>2, <1>7, StaysGood
<1>9. task' \in [Tasks -> Task] /\ \A u \in Tasks : task'[u] = IF u = t THEN new ELSE task[u]
    BY <1>2, <1>6, <1>7
<1>10. \A u \in Tasks : task'[u] \in Task /\ Good(task'[u], operation_outputs, deadlines)
    BY <1>8, <1>9 DEF Inv, TaskInv
<1>11. TaskInv'
    BY <1>5, <1>10, GoodKept DEF TaskInv
<1> QED BY <1>4, <1>9, <1>11, DueStep DEF RecordSleep

----
(* The transactions *)

\* Result r of operation n of w is recorded: nothing else of operation_outputs changes, later steps are
\* not recorded yet, and every execution still has what is recorded.
StepRecorded(w, n, r) ==
    /\ operation_outputs[w][n] = None
    /\ \A j \in Positions(w) : operation_outputs[w][j] # None => j < n
    /\ operation_outputs' = [v \in Workflows |-> operation_outputs'[v]]
    /\ \A v \in Workflows : operation_outputs'[v] \in [Positions(v) -> Outputs \cup {None}]
    /\ \A v \in Workflows : \A j \in Positions(v) :
        operation_outputs'[v][j] = IF v = w /\ j = n THEN r ELSE operation_outputs[v][j]
    /\ task' \in [Tasks -> Task] /\ TaskInv' /\ OrderInv'

LEMMA RecordOK ==
    ASSUME Inv, NEW t \in Tasks, NEW r \in Outputs, task[t].at = "finish", Record(t, r), UNCHANGED deadlines,
           NEW w \in Workflows, NEW n \in Positions(w), w = task[t].wf, n = task[t].pc
    PROVE  StepRecorded(w, n, r)
<1>1. PICK tk \in Task : tk = task[t] /\ Good(tk, operation_outputs, deadlines)
    BY TaskFacts
<1>2. w = tk.wf /\ n = tk.pc /\ Program[w][n] # "sleep"
    BY <1>1 DEF Good
<1>3. /\ operation_outputs[w][n] = None
      /\ operation_outputs' = [operation_outputs EXCEPT ![w][n] = r]
      /\ task' = [task EXCEPT ![t] = Advance(tk, r)]
    BY <1>1, <1>2 DEF Record, Recorded
<1>4. /\ operation_outputs = [v \in Workflows |-> operation_outputs[v]]
      /\ \A v \in Workflows : operation_outputs[v] \in [Positions(v) -> Outputs \cup {None}]
      /\ task \in [Tasks -> Task] /\ r # None
    BY MessagingAssumption DEF Inv, TypeOK, Outputs
<1>5. /\ operation_outputs' = [v \in Workflows |-> operation_outputs'[v]]
      /\ \A v \in Workflows : operation_outputs'[v] \in [Positions(v) -> Outputs \cup {None}]
      /\ \A v \in Workflows : \A j \in Positions(v) :
            operation_outputs'[v][j] = IF v = w /\ j = n THEN r ELSE operation_outputs[v][j]
    BY <1>3, <1>4
<1>6. \A j \in Positions(w) : operation_outputs[w][j] # None => j < n
    <2>1. \A j \in Positions(w) : n < j => operation_outputs[w][j] = None
        BY <1>2, <1>3 DEF Inv, OrderInv
    <2> QED BY <1>3, <2>1, ProgramOK
<1>7. Keeps(operation_outputs, operation_outputs', deadlines, deadlines')
    BY <1>3, <1>5 DEF Keeps
<1>8. \A u \in Tasks : task[u] \in Task /\ Good(task[u], operation_outputs', deadlines')
    BY <1>4, <1>7, GoodKept DEF Inv, TaskInv
<1>9. PICK outputs, due : outputs = operation_outputs' /\ due = deadlines'
    OBVIOUS
<1>10. Good(tk, outputs, due) /\ tk.at # "idle" /\ outputs[tk.wf][tk.pc] = r
    BY <1>1, <1>2, <1>5, <1>8, <1>9
<1>11. Advance(tk, r) \in Task /\ Good(Advance(tk, r), outputs, due)
    BY <1>2, <1>4, <1>10, AdvanceOK
<1>12. task' \in [Tasks -> Task] /\ TaskInv'
    <2>1. task' \in [Tasks -> Task] /\ \A u \in Tasks : task'[u] = IF u = t THEN Advance(tk, r) ELSE task[u]
        BY <1>3, <1>4, <1>11
    <2> QED BY <1>8, <1>9, <1>11, <2>1 DEF TaskInv
<1>13. OrderInv'
    <2> SUFFICES ASSUME NEW v \in Workflows, NEW i \in Positions(v), NEW j \in Positions(v), i < j,
                        operation_outputs'[v][j] # None, Program[v][i] # "sleep"
                 PROVE  operation_outputs'[v][i] # None
        BY DEF OrderInv
    <2>1. CASE v = w /\ j = n
        <3>1. tk.wf = v /\ i \in 1 .. tk.pc - 1
            BY <1>2, <2>1, ProgramOK DEF Positions
        <3>2. operation_outputs[v][i] # None
            BY <1>1, <1>10, <3>1 DEF Good
        <3> QED BY <1>4, <1>5, <3>2
    <2>2. CASE ~(v = w /\ j = n)
        <3>1. operation_outputs[v][j] # None
            BY <1>5, <2>2
        <3>2. operation_outputs[v][i] # None
            BY <3>1 DEF Inv, OrderInv
        <3> QED BY <1>4, <1>5, <3>2
    <2> QED BY <2>1, <2>2
<1> QED BY <1>3, <1>5, <1>6, <1>12, <1>13 DEF StepRecorded

\* The primary key is taken: the execution ends and the tables stay as they are.
LEMMA ConflictInv ==
    ASSUME Inv, NEW t \in Tasks, Conflict(t), Memory',
           UNCHANGED <<deadlines, notifications, consumed, workflow_events>>
    PROVE  Inv'
<1>1. UNCHANGED tables /\ task' = [task EXCEPT ![t] = IdleTask]
    BY DEF Conflict, tables
<1> QED BY <1>1, IdleOK, TaskMoves

LEMMA FinishSendInv == ASSUME Inv, NEW t \in Tasks, FinishSend(t) PROVE Inv'
<1>1. /\ task[t].at = "finish" /\ Op(task[t]) = "send"
      /\ UNCHANGED <<deadlines, consumed, workflow_events, notifications_waiters, events_waiters, connected, used>>
      /\ Memory' /\ Memory
    BY DEF FinishSend, Memory, Inv, TypeOK
<1>2. CASE Conflict(t) /\ UNCHANGED notifications
    BY <1>1, <1>2, ConflictInv
<1>3. CASE Record(t, Unit) /\ insert_notification(task[t])
    <2>1. Unit \in Outputs /\ Unit # None
        BY MessagingAssumption DEF Outputs
    <2>2. PICK w \in Workflows : w = task[t].wf /\ task[t].pc \in Positions(w)
        BY <1>1, TaskFacts
    <2>3. PICK n \in Positions(w) : n = task[t].pc
        BY <2>2
    <2>4. /\ operation_outputs[w][n] = None
          /\ operation_outputs' = [v \in Workflows |-> operation_outputs'[v]]
          /\ \A v \in Workflows : operation_outputs'[v] \in [Positions(v) -> Outputs \cup {None}]
          /\ \A v \in Workflows : \A j \in Positions(v) :
                operation_outputs'[v][j] = IF v = w /\ j = n THEN Unit ELSE operation_outputs[v][j]
          /\ task' \in [Tasks -> Task] /\ TaskInv' /\ OrderInv'
        <3>1. StepRecorded(w, n, Unit)
            BY <1>1, <1>3, <2>1, <2>2, <2>3, RecordOK
        <3> QED BY <3>1 DEF StepRecorded
    <2>5. /\ Program[w][n] = "send" /\ <<w, n>> \in Written
          /\ notifications \in Seq(Written) /\ consumed \in 0 .. Len(notifications)
          /\ notifications' = Append(notifications, <<w, n>>)
        BY <1>1, <1>3, <2>2, <2>3, ProgramOK DEF Op, insert_notification, Value, Inv, TypeOK
    <2>6. /\ notifications' \in Seq(Written) /\ Len(notifications) \in Nat
          /\ Len(notifications') = Len(notifications) + 1
          /\ \A k \in 1 .. Len(notifications) : notifications'[k] = notifications[k]
        BY <2>5, AppendProperties, LenProperties
    <2>7. TypeOK'
        <3>1. consumed' \in 0 .. Len(notifications')
            BY <1>1, <2>5, <2>6
        <3> QED BY <1>1, <2>4, <2>6, <3>1 DEF Inv, TypeOK
    <2>8. SentExactlyOnce'
        <3> SUFFICES ASSUME NEW v \in Workflows, NEW i \in Positions(v), Program[v][i] = "send"
                     PROVE  Cardinality(Where(notifications', <<v, i>>)) =
                                IF operation_outputs'[v][i] = None THEN 0 ELSE 1
            BY DEF SentExactlyOnce, Where
        <3>1. Cardinality(Where(notifications, <<v, i>>)) = IF operation_outputs[v][i] = None THEN 0 ELSE 1
            BY DEF Inv, SentExactlyOnce, Where
        <3>2. PICK s \in Seq(Written) : s = notifications
            BY <2>5
        <3>3. /\ <<w, n>> = <<v, i>> =>
                    Cardinality(Where(notifications', <<v, i>>)) = Cardinality(Where(notifications, <<v, i>>)) + 1
              /\ <<w, n>> # <<v, i>> =>
                    Cardinality(Where(notifications', <<v, i>>)) = Cardinality(Where(notifications, <<v, i>>))
            BY <2>5, <3>2, AppendCount
        <3>4. CASE v = w /\ i = n
            BY <2>1, <2>4, <3>1, <3>3, <3>4
        <3>5. CASE ~(v = w /\ i = n)
            <4>1. <<w, n>> # <<v, i>>
                BY <3>5
            <4> QED BY <2>4, <3>1, <3>3, <3>5, <4>1
        <3> QED BY <3>4, <3>5
    <2>9. DeliveredExactlyOnce'
        <3>1. \A j \in Positions(Receiver) : Program[Receiver][j] = "recv" =>
                operation_outputs'[Receiver][j] = operation_outputs[Receiver][j]
            BY <2>4, <2>5, MessagingAssumption
        <3> QED BY <1>1, <2>6, <3>1, DeliveredKept
    <2>10. EventInv'
        <3>1. \A i \in Positions(Source) : Program[Source][i] = "set_event" =>
                operation_outputs'[Source][i] = operation_outputs[Source][i]
            BY <2>4, <2>5, MessagingAssumption
        <3> QED BY <1>1, <3>1, EventKept
    <2> QED BY <2>4, <2>7, <2>8, <2>9, <2>10 DEF Inv
<1> QED BY <1>2, <1>3 DEF FinishSend

LEMMA FinishSetEventInv == ASSUME Inv, NEW t \in Tasks, FinishSetEvent(t) PROVE Inv'
<1>1. /\ task[t].at = "finish" /\ Op(task[t]) = "set_event"
      /\ UNCHANGED <<deadlines, notifications, consumed, notifications_waiters, events_waiters, connected, used>>
      /\ Memory' /\ Memory
    BY DEF FinishSetEvent, Memory, Inv, TypeOK
<1>2. CASE Conflict(t) /\ UNCHANGED workflow_events
    BY <1>1, <1>2, ConflictInv
<1>3. CASE Record(t, Unit) /\ upsert_workflow_event(task[t])
    <2>1. Unit \in Outputs
        BY DEF Outputs
    <2>2. PICK w \in Workflows : w = task[t].wf /\ task[t].pc \in Positions(w)
        BY <1>1, TaskFacts
    <2>3. PICK n \in Positions(w) : n = task[t].pc
        BY <2>2
    <2>4. /\ operation_outputs[w][n] = None
          /\ \A j \in Positions(w) : operation_outputs[w][j] # None => j < n
          /\ operation_outputs' = [v \in Workflows |-> operation_outputs'[v]]
          /\ \A v \in Workflows : operation_outputs'[v] \in [Positions(v) -> Outputs \cup {None}]
          /\ \A v \in Workflows : \A j \in Positions(v) :
                operation_outputs'[v][j] = IF v = w /\ j = n THEN Unit ELSE operation_outputs[v][j]
          /\ task' \in [Tasks -> Task] /\ TaskInv' /\ OrderInv'
        <3>1. StepRecorded(w, n, Unit)
            BY <1>1, <1>3, <2>1, <2>2, <2>3, RecordOK
        <3> QED BY <3>1 DEF StepRecorded
    <2>5. /\ Program[w][n] = "set_event" /\ <<w, n>> \in Written
          /\ workflow_events' = IF w = Source THEN <<w, n>> ELSE workflow_events
        BY <1>1, <1>3, <2>2, <2>3, ProgramOK DEF Op, upsert_workflow_event, Value
    <2>6. TypeOK'
        BY <1>1, <2>4, <2>5 DEF Inv, TypeOK
    <2>7. SentExactlyOnce'
        <3>1. \A v \in Workflows : \A j \in Positions(v) :
                Program[v][j] = "send" => operation_outputs'[v][j] = operation_outputs[v][j]
            BY <2>4, <2>5
        <3> QED BY <1>1, <3>1, SentKept
    <2>8. DeliveredExactlyOnce'
        <3>1. \A j \in Positions(Receiver) : Program[Receiver][j] = "recv" =>
                operation_outputs'[Receiver][j] = operation_outputs[Receiver][j]
            BY <2>4, <2>5, MessagingAssumption
        <3> QED BY <1>1, <3>1, DeliveredKept
    <2>9. EventInv'
        <3>1. CASE w # Source
            BY <2>4, <2>5, <3>1, MessagingAssumption, EventKept
        <3>2. CASE w = Source
            <4>1. workflow_events' = <<Source, n>> /\ workflow_events' # None /\ workflow_events'[2] = n
                BY <2>5, <3>2, MessagingAssumption
            <4>2. \A i \in Positions(Source) : operation_outputs'[Source][i] # None => n >= i
                <5>1. \A i \in Positions(Source) : operation_outputs'[Source][i] # None => i = n \/ i < n
                    BY <2>4, <3>2
                <5>2. n \in Nat /\ Positions(Source) \subseteq Nat
                    BY <3>2, MessagingAssumption, ProgramOK
                <5> QED BY <5>1, <5>2
            <4> QED BY <3>2, <4>1, <4>2 DEF EventInv, EventIsLatest
        <3> QED BY <3>1, <3>2
    <2> QED BY <2>4, <2>6, <2>7, <2>8, <2>9 DEF Inv
<1> QED BY <1>2, <1>3 DEF FinishSetEvent

LEMMA FinishGetEventInv == ASSUME Inv, NEW t \in Tasks, FinishGetEvent(t) PROVE Inv'
<1> DEFINE r == IF task[t].found = None THEN Timeout ELSE task[t].found
<1>1. /\ task[t].at = "finish" /\ Op(task[t]) = "get_event"
      /\ UNCHANGED <<deadlines, notifications, consumed, workflow_events, notifications_waiters, connected, used>>
      /\ Memory' /\ Memory
    BY DEF FinishGetEvent, DropGuard, Memory, Inv, TypeOK
<1>2. CASE Conflict(t)
    BY <1>1, <1>2, ConflictInv
<1>3. CASE Record(t, r)
    <2>0. r \in Outputs
        BY TaskFacts DEF Task, Outputs
    <2>1. PICK res \in Outputs : Record(t, res)
        BY <1>3, <2>0
    <2>2. PICK w \in Workflows : w = task[t].wf /\ task[t].pc \in Positions(w)
        BY <1>1, TaskFacts
    <2>3. PICK n \in Positions(w) : n = task[t].pc
        BY <2>2
    <2>4. /\ operation_outputs[w][n] = None
          /\ \A j \in Positions(w) : operation_outputs[w][j] # None => j < n
          /\ operation_outputs' = [v \in Workflows |-> operation_outputs'[v]]
          /\ \A v \in Workflows : operation_outputs'[v] \in [Positions(v) -> Outputs \cup {None}]
          /\ \A v \in Workflows : \A j \in Positions(v) :
                operation_outputs'[v][j] = IF v = w /\ j = n THEN res ELSE operation_outputs[v][j]
          /\ task' \in [Tasks -> Task] /\ TaskInv' /\ OrderInv'
        <3>1. StepRecorded(w, n, res)
            BY <1>1, <1>3, <2>1, <2>2, <2>3, RecordOK
        <3> QED BY <3>1 DEF StepRecorded
    <2>5. Program[w][n] = "get_event"
        BY <1>1, <2>2, <2>3 DEF Op
    <2>6. TypeOK'
        BY <1>1, <2>4 DEF Inv, TypeOK, Memory
    <2>7. SentExactlyOnce'
        <3>1. \A v \in Workflows : \A j \in Positions(v) :
                Program[v][j] = "send" => operation_outputs'[v][j] = operation_outputs[v][j]
            BY <2>4, <2>5
        <3> QED BY <1>1, <3>1, SentKept
    <2>8. DeliveredExactlyOnce'
        <3>1. \A j \in Positions(Receiver) : Program[Receiver][j] = "recv" =>
                operation_outputs'[Receiver][j] = operation_outputs[Receiver][j]
            BY <2>4, <2>5, MessagingAssumption
        <3> QED BY <1>1, <3>1, DeliveredKept
    <2>9. EventInv'
        <3>1. \A i \in Positions(Source) : Program[Source][i] = "set_event" =>
                operation_outputs'[Source][i] = operation_outputs[Source][i]
            BY <2>4, <2>5, MessagingAssumption
        <3> QED BY <1>1, <3>1, EventKept
    <2> QED BY <2>4, <2>6, <2>7, <2>8, <2>9 DEF Inv
<1> QED BY <1>2, <1>3 DEF FinishGetEvent

LEMMA FinishRecvInv == ASSUME Inv, NEW t \in Tasks, FinishRecv(t) PROVE Inv'
<1>1. /\ task[t].at = "finish" /\ Op(task[t]) = "recv"
      /\ UNCHANGED <<deadlines, notifications, workflow_events, events_waiters, connected, used>>
      /\ Memory' /\ Memory
    BY DEF FinishRecv, DropGuard, Memory, Inv, TypeOK
<1>2. CASE Conflict(t) /\ UNCHANGED consumed
    BY <1>1, <1>2, ConflictInv
<1>3. CASE Record(t, OldestNotification) /\ consume_oldest_notification
    <2>0. /\ notifications \in Seq(Written) /\ Len(notifications) \in Nat /\ consumed \in 0 .. Len(notifications)
          /\ consumed < Len(notifications) => notifications[consumed + 1] \in Written
        BY LenProperties, ElementOfSeq DEF Inv, TypeOK
    <2>1. PICK res \in Outputs :
            /\ Record(t, res)
            /\ IF consumed < Len(notifications)
               THEN res = notifications[consumed + 1] /\ res \in Written /\ consumed' = consumed + 1
               ELSE res = Timeout /\ consumed' = consumed
        BY <1>3, <2>0 DEF OldestNotification, consume_oldest_notification, notification_exists_unconsumed, Outputs
    <2>2. PICK w \in Workflows : w = task[t].wf /\ task[t].pc \in Positions(w)
        BY <1>1, TaskFacts
    <2>3. PICK n \in Positions(w) : n = task[t].pc
        BY <2>2
    <2>4. /\ operation_outputs[w][n] = None
          /\ \A j \in Positions(w) : operation_outputs[w][j] # None => j < n
          /\ operation_outputs' = [v \in Workflows |-> operation_outputs'[v]]
          /\ \A v \in Workflows : operation_outputs'[v] \in [Positions(v) -> Outputs \cup {None}]
          /\ \A v \in Workflows : \A j \in Positions(v) :
                operation_outputs'[v][j] = IF v = w /\ j = n THEN res ELSE operation_outputs[v][j]
          /\ task' \in [Tasks -> Task] /\ TaskInv' /\ OrderInv'
        <3>1. StepRecorded(w, n, res)
            BY <1>1, <1>3, <2>1, <2>2, <2>3, RecordOK
        <3> QED BY <3>1 DEF StepRecorded
    <2>5. Program[w][n] = "recv" /\ w = Receiver
        BY <1>1, <2>2, <2>3, MessagingAssumption DEF Op
    <2>6. TypeOK'
        <3>1. consumed' \in 0 .. Len(notifications')
            BY <1>1, <2>1, <2>0
        <3> QED BY <1>1, <2>4, <3>1 DEF Inv, TypeOK, Memory
    <2>7. SentExactlyOnce'
        <3>1. \A v \in Workflows : \A j \in Positions(v) :
                Program[v][j] = "send" => operation_outputs'[v][j] = operation_outputs[v][j]
            BY <2>4, <2>5
        <3> QED BY <1>1, <3>1, SentKept
    <2>8. DeliveredExactlyOnce'
        <3>1. PICK R \in SUBSET Positions(Receiver) : R = Receipts
            BY DEF Receipts
        <3>2. /\ Cardinality(R) = consumed
              /\ \A i \in R : operation_outputs[Receiver][i] = notifications[Cardinality({j \in R : j <= i})]
            BY <3>1 DEF Inv, DeliveredExactlyOnce
        <3>3. n \notin R /\ \A j \in R : j < n /\ operation_outputs'[Receiver][j] = operation_outputs[Receiver][j]
            BY <2>4, <2>5, <3>1, MessagingAssumption DEF Receipts
        <3>4. CASE consumed < Len(notifications)
            <4> DEFINE R2 == R \cup {n}
            <4>0. res \in Written /\ n \in Positions(Receiver) /\ Program[Receiver][n] = "recv"
                BY <2>1, <2>5, <3>4
            <4>a. \A j \in Positions(Receiver) :
                    operation_outputs'[Receiver][j] \in Written <=> j = n \/ operation_outputs[Receiver][j] \in Written
                BY <2>4, <2>5, <4>0
            <4>1. Receipts' = R2
                BY <3>1, <4>0, <4>a DEF Receipts
            <4>2. Cardinality(R2) = consumed + 1
                BY <3>2, <3>3, RankBounds, FS_AddElement
            <4>3. {j \in R2 : j <= n} = R2
                BY <3>3, RankBounds, ProgramOK, MessagingAssumption, <2>5
            <4>4. \A i \in R : {j \in R2 : j <= i} = {j \in R : j <= i}
                <5>1. R \subseteq Nat /\ n \in Nat
                    BY <2>5, RankBounds, ProgramOK, MessagingAssumption
                <5> QED BY <3>3, <5>1
            <4>5. operation_outputs'[Receiver][n] = notifications[consumed + 1]
                BY <2>1, <2>4, <2>5, <3>4
            <4> HIDE DEF R2
            <4>6. \A i \in R2 : operation_outputs'[Receiver][i] = notifications[Cardinality({j \in R2 : j <= i})]
                <5>1. ASSUME NEW i \in R
                      PROVE  operation_outputs'[Receiver][i] = notifications[Cardinality({j \in R2 : j <= i})]
                    BY <3>2, <3>3, <4>4
                <5>2. operation_outputs'[Receiver][n] = notifications[Cardinality({j \in R2 : j <= n})]
                    BY <4>2, <4>3, <4>5
                <5> QED BY <5>1, <5>2 DEF R2
            <4>7. consumed' = consumed + 1 /\ notifications' = notifications
                BY <1>1, <2>1, <3>4
            <4> QED BY <4>1, <4>2, <4>6, <4>7 DEF DeliveredExactlyOnce
        <3>5. CASE ~(consumed < Len(notifications))
            <4>0. res \notin Written /\ None \notin Written /\ n \in Positions(Receiver)
                BY <2>1, <2>5, <3>5, MessagingAssumption
            <4>a. \A j \in Positions(Receiver) :
                    operation_outputs'[Receiver][j] \in Written <=> operation_outputs[Receiver][j] \in Written
                BY <2>4, <2>5, <4>0
            <4>1. Receipts' = R
                BY <3>1, <4>a DEF Receipts
            <4>2. consumed' = consumed /\ notifications' = notifications
                BY <1>1, <2>1, <3>5
            <4> QED BY <3>2, <3>3, <4>1, <4>2 DEF DeliveredExactlyOnce
        <3> QED BY <3>4, <3>5
    <2>9. EventInv'
        <3>1. \A i \in Positions(Source) : Program[Source][i] = "set_event" =>
                operation_outputs'[Source][i] = operation_outputs[Source][i]
            BY <2>4, <2>5, MessagingAssumption
        <3> QED BY <1>1, <3>1, EventKept
    <2> QED BY <2>4, <2>6, <2>7, <2>8, <2>9 DEF Inv
<1> QED BY <1>2, <1>3 DEF FinishRecv

----
(* The theorems *)

LEMMA NextInv == Inv /\ [Next]_vars => Inv'
<1> SUFFICES ASSUME Inv, [Next]_vars PROVE Inv'
    OBVIOUS
<1>1. CASE UNCHANGED vars
    <2>1. UNCHANGED tables /\ Memory' /\ task' = task
        BY <1>1 DEF vars, tables, Inv, TypeOK, Memory
    <2> QED BY <2>1, MemoryStep DEF Inv, TypeOK, TaskInv
<1>2. ASSUME NEW w \in Workflows, NEW p \in Processes, Start(w, p) PROVE Inv'
    BY <1>2, StartInv
<1>3. ASSUME NEW t \in Tasks, TaskStep(t) PROVE Inv'
    BY <1>3, ReplayInv, MissInv, EnterRecvInv, EnterGetEventInv, RecordSleepInv, WakeUpInv, ProbeInv, WakeInv,
       FinishSendInv, FinishSetEventInv, FinishRecvInv, FinishGetEventInv DEF TaskStep
<1>4. ASSUME NEW w \in Workflows, NEW i \in Positions(w), DeadlinePasses(w, i) PROVE Inv'
    BY <1>4, DeadlinePassesInv
<1>5. ASSUME NEW p \in Processes, NEW c \in Channels, Deliver(p, c) PROVE Inv'
    BY <1>5, ListenerInv
<1>6. ASSUME NEW p \in Processes, Tick(p) \/ Disconnect(p) \/ Connect(p) \/ Crash(p) PROVE Inv'
    BY <1>6, ListenerInv, CrashInv
<1> QED BY <1>1, <1>2, <1>3, <1>4, <1>5, <1>6 DEF Next

LEMMA Invariance == Spec => []Inv
    BY InitInv, NextInv, PTL DEF Spec

\* Tables, executions and waiter registries stay well formed; no more messages are consumed than were sent.
THEOREM MessagingTypeCorrect == Spec => []TypeOK
<1>1. Inv => TypeOK
    BY DEF Inv
<1> QED BY <1>1, Invariance, PTL

\* A send inserts its message exactly when its step is recorded, however many executions of the sender run
\* the send at once and however often it is replayed: the insert and the record are one transaction, and the
\* primary key of operation_outputs lets one of them commit.
THEOREM MessagesSentOnce == Spec => []SentExactlyOnce
<1>1. Inv => SentExactlyOnce
    BY DEF Inv
<1> QED BY <1>1, Invariance, PTL

\* Every message consumed is the recorded result of one recv of the receiver, oldest first, across crashes,
\* timeouts and overlapping executions: steps are recorded in program order, so the recv that consumes the
\* next message comes after every recv that has one.
THEOREM MessagesDeliveredOnce == Spec => []DeliveredExactlyOnce
<1>1. Inv => DeliveredExactlyOnce
    BY DEF Inv
<1> QED BY <1>1, Invariance, PTL

\* The event a reader sees is never older than a set_event step that is recorded: a lagging execution cannot
\* put an older value back, since its step has been recorded by the one ahead.
THEOREM EventNeverRegresses == Spec => []EventIsLatest
<1>1. Inv => EventIsLatest
    BY DEF Inv, EventInv
<1> QED BY <1>1, Invariance, PTL

\* Whatever an execution was given by send, recv, set_event, get_event and sleep so far is what is recorded,
\* so that all executions of a workflow agree on it.
THEOREM ExecutionsAgree == Spec => []ResultsAgree
<1>1. Inv => ResultsAgree
    BY DEF Inv, TaskInv, Good, ResultsAgree, Live
<1> QED BY <1>1, Invariance, PTL

====
