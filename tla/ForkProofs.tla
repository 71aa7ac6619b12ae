---- MODULE ForkProofs ----
(*
 * For any body, any set of fork calls and any bounds: what a reader of a fork sees matches the steps
 * that were copied or executed, and a fork executes exactly the rest of the body.
 *
 * Neither property is inductive. Inv adds what the staged copy of an open transaction holds after
 * each of its statements (CopyOk), that the steps below a reached start_step stay in the original's
 * log until the transaction ends (the row lock keeps them from being deleted), and that every log is a
 * prefix of the body, so that a step is executed only after everything it can come after.
 *
 * The second part is about the control plane (ControlPlane), which manages workflows beside the forks:
 * for any workflows, requests and bounds, a success answer is true and a garbage collection spares what
 * it counted. There the inductive invariant, ControlInv, says for every handler how far its request is
 * and what it can still owe at that place.
 *)
EXTENDS Fork, ControlPlane, TLAPS, FiniteSetTheorems, WellFoundedInduction

\* The recorded steps are a prefix of the body.
Closed(S) == \A n \in S, m \in Steps : m < n => m \in S

PastInsert(k) == k.at \notin {"idle", "insert"}

\* What the transaction has staged, when all steps below start_step had been recorded at its start.
CopyOk(k) ==
    /\ k.at # "ops" => k.copy.ops = {n \in Steps : n < k.start_step}
    /\ k.at \notin {"ops", "history"} =>
          k.copy.history = {n \in Steps : n < k.start_step /\ Kind(n) = "event"}
    /\ k.at \notin {"ops", "history", "events"} =>
          k.copy.event = {n \in k.copy.history : \A m \in k.copy.history : m <= n}
    /\ k.at = "commit" => EffectsMatch(k.copy)

\* A fork_workflow call of caller c, as k, over the row, the history record b of its id and the
\* original's log.
CallOk(k, status, b, original) ==
    /\ k.at # "idle" => k.id \in ForkIds
    /\ Closed(k.copy.ops)
    /\ k.at = "insert" => k.copy = NoLog
    /\ PastInsert(k) =>
          /\ status = "ABSENT"
          /\ b.start_step = k.start_step
          /\ b.reached =>
                /\ \A n \in Steps : n < k.start_step => n \in original.ops
                /\ CopyOk(k)

CallInv ==
    /\ \A c \in Callers :
          CallOk(call[c], workflow_status[call[c].id].status, begun[call[c].id], log[Original])
    /\ \A c, d \in Callers :
          PastInsert(call[c]) /\ PastInsert(call[d]) /\ call[c].id = call[d].id => c = d

\* A workflow: its row's status, its log, the position of its body and what it has executed.
RunOk(status, l, next, r) ==
    /\ Closed(l.ops)
    /\ status # "ABSENT" => \A n \in Steps : n < next => n \in l.ops
    /\ status # "ABSENT" => \A n \in Steps : r[n] = 1 => n \in l.ops
    /\ \A n \in Steps : r[n] <= 1

\* A fork, with the history record b of its creation.
ForkOk(status, l, next, r, b) ==
    /\ status = "ABSENT" => next = 0 /\ \A n \in Steps : r[n] = 0
    /\ status = "SUCCESS" => next = Len(Program)
    /\ status # "ABSENT" /\ b.reached =>
          /\ EffectsMatch(l)
          /\ \A n \in Steps : n < b.start_step => n \in l.ops /\ r[n] = 0
          /\ \A n \in Steps : n \in l.ops /\ n >= b.start_step => r[n] = 1

WorkflowInv ==
    /\ \A w \in Workflows : RunOk(workflow_status[w].status, log[w], next_step[w], ran[w])
    /\ \A f \in ForkIds : ForkOk(workflow_status[f].status, log[f], next_step[f], ran[f], begun[f])
    /\ EffectsMatch(log[Original])

Inv == TypeOK /\ CallInv /\ WorkflowInv

----
(* Lemmas about logs. *)

LEMMA StepsAreNat == Steps \subseteq Nat /\ Len(Program) \in Nat /\ \A n \in Steps : n < Len(Program)
BY ForkAssumption DEF Steps

\* The empty log is the log of no steps.
LEMMA EmptyLog == NoLog \in Log /\ EffectsMatch(NoLog) /\ Closed(NoLog.ops)
BY DEF NoLog, Log, EffectsMatch, Closed

\* Executing the first step that is not recorded keeps the recorded steps a prefix of the body.
LEMMA ExecuteClosed ==
    ASSUME NEW l \in Log, NEW n \in Steps, NEW o \in Nat, Closed(l.ops),
           \A m \in Steps : m < n => m \in l.ops
    PROVE  Execute(l, n, o) \in Log /\ Closed(Execute(l, n, o).ops)
           /\ Execute(l, n, o).ops = l.ops \cup {n}
BY DEF Log, Entry, Execute, Closed

\* It comes after every recorded step, so it adds the latest event or the last stream entry.
LEMMA ExecuteEffects ==
    ASSUME NEW l \in Log, NEW n \in Steps, NEW o \in Nat, Closed(l.ops), n \notin l.ops,
           EffectsMatch(l), IsNextOffset(l.stream, o)
    PROVE  EffectsMatch(Execute(l, n, o))
<1>1. \A m \in l.ops : m \in Nat /\ m < n
  BY StepsAreNat DEF Closed, Log
<1>2. l.ops \subseteq Steps /\ l.history \subseteq l.ops
  BY DEF Log, EffectsMatch
<1>3. \A r \in l.stream : r.function_id \in l.ops /\ r.offset \in Nat /\ r.offset < o
  BY DEF Log, Entry, EffectsMatch, IsNextOffset
<1>4. n \in Nat
  BY StepsAreNat
<1>5. CASE Kind(n) = "event"
  <2> DEFINE x == Execute(l, n, o)
  <2>1. x.ops = l.ops \cup {n} /\ x.history = l.history \cup {n} /\ x.event = {n} /\ x.stream = l.stream
    BY <1>5 DEF Execute
  <2> HIDE DEF x
  <2>2. x.history = {m \in x.ops : Kind(m) = "event"}
    BY <2>1, <1>5 DEF EffectsMatch
  <2>3. x.event = {m \in x.history : \A k \in x.history : k <= m}
    BY <2>1, <1>1, <1>2, <1>4
  <2>4. \A m \in Steps : (m \in x.ops /\ Kind(m) = "stream") <=> \E r \in x.stream : r.function_id = m
    BY <2>1, <1>5, <1>3 DEF EffectsMatch
  <2>5. QED
    BY <2>1, <2>2, <2>3, <2>4 DEF EffectsMatch, x
<1>6. CASE Kind(n) = "stream"
  <2> DEFINE x == Execute(l, n, o)
             e == [offset |-> o, function_id |-> n]
  <2>1. x.ops = l.ops \cup {n} /\ x.history = l.history /\ x.event = l.event /\ x.stream = l.stream \cup {e}
    BY <1>6 DEF Execute
  <2>2. e.offset = o /\ e.function_id = n
    OBVIOUS
  <2> HIDE DEF x, e
  <2>3. x.history = {m \in x.ops : Kind(m) = "event"}
    BY <2>1, <1>6 DEF EffectsMatch
  <2>4. x.event = {m \in x.history : \A k \in x.history : k <= m}
    BY <2>1 DEF EffectsMatch
  <2>5. \A m \in Steps : (m \in x.ops /\ Kind(m) = "stream") <=> \E r \in x.stream : r.function_id = m
    BY <2>1, <2>2, <1>6 DEF EffectsMatch
  <2>6. \A r, q \in x.stream : r.function_id < q.function_id <=> r.offset < q.offset
    BY <2>1, <2>2, <1>1, <1>3, <1>4 DEF EffectsMatch
  <2>7. \A r \in x.stream : r.offset = 0 \/ \E q \in x.stream : q.offset + 1 = r.offset
    BY <2>1, <2>2 DEF EffectsMatch, IsNextOffset
  <2>8. QED
    BY <2>3, <2>4, <2>5, <2>6, <2>7 DEF EffectsMatch, x
<1>7. CASE Kind(n) \notin {"event", "stream"}
  <2> DEFINE x == Execute(l, n, o)
  <2>1. x.ops = l.ops \cup {n} /\ x.history = l.history /\ x.event = l.event /\ x.stream = l.stream
    BY <1>7 DEF Execute
  <2> HIDE DEF x
  <2>2. QED
    BY <2>1, <1>7, <1>3 DEF EffectsMatch, x
<1>8. QED
  BY <1>5, <1>6, <1>7

\* The entries below a step are in order and without a gap: an entry's predecessor is of an earlier step.
LEMMA StreamBelow ==
    ASSUME NEW l \in Log, EffectsMatch(l), NEW s \in StartSteps, NEW x \in Log,
           \A n \in Steps : n < s => n \in l.ops,
           x.ops = {n \in Steps : n < s},
           x.history = {n \in Steps : n < s /\ Kind(n) = "event"},
           x.event = {n \in x.history : \A m \in x.history : m <= n},
           x.stream = {r \in l.stream : r.function_id < s}
    PROVE  EffectsMatch(x)
<1>1. s \in Nat
  BY StepsAreNat DEF StartSteps
<1>2. \A r \in l.stream : r.function_id \in Steps /\ r.offset \in Nat
  BY DEF Log, Entry
<1>3. x.history = {n \in x.ops : Kind(n) = "event"}
  OBVIOUS
<1>4. \A n \in Steps : (n \in x.ops /\ Kind(n) = "stream") <=> \E r \in x.stream : r.function_id = n
  BY DEF EffectsMatch
<1>5. \A r, q \in x.stream : r.function_id < q.function_id <=> r.offset < q.offset
  BY DEF EffectsMatch
<1>6. ASSUME NEW r \in x.stream PROVE r.offset = 0 \/ \E q \in x.stream : q.offset + 1 = r.offset
  <2>1. CASE r.offset = 0
    BY <2>1
  <2>2. CASE r.offset # 0
    <3>1. PICK q \in l.stream : q.offset + 1 = r.offset
      BY <2>2 DEF EffectsMatch
    <3>2. q.function_id < r.function_id
      BY <3>1, <1>2 DEF EffectsMatch
    <3>3. q.function_id \in Nat /\ r.function_id \in Nat /\ r.function_id < s
      BY <1>2, StepsAreNat
    <3>4. q.function_id < s
      BY <3>2, <3>3, <1>1
    <3>5. q \in x.stream
      BY <3>4
    <3>6. QED
      BY <3>1, <3>5
  <2>3. QED
    BY <2>1, <2>2
<1>7. QED
  BY <1>3, <1>4, <1>5, <1>6 DEF EffectsMatch

----
(* The invariant. *)

LEMMA InitInv == Init => Inv
<1> SUFFICES ASSUME Init PROVE Inv
  OBVIOUS
<1>1. TypeOK
  <2>1. workflow_status \in [Workflows -> Row]
    BY DEF Init, Workflows, AbsentRow, Row
  <2>2. log \in [Workflows -> Log]
    BY EmptyLog DEF Init
  <2>3. 0 \in 0..Len(Program) /\ 0 \in StartSteps
    BY StepsAreNat DEF StartSteps
  <2>4. IdleCall \in Call
    BY EmptyLog, <2>3 DEF IdleCall, Call, Workflows
  <2>5. QED
    BY <2>1, <2>2, <2>3, <2>4 DEF Init, TypeOK
<1>2. CallInv
  <2>1. \A c \in Callers : call[c] = IdleCall
    BY DEF Init
  <2>2. \A c \in Callers : call[c].at = "idle" /\ Closed(call[c].copy.ops)
    BY <2>1, EmptyLog DEF IdleCall
  <2>3. QED
    BY <2>2 DEF CallInv, CallOk, PastInsert
<1>3. WorkflowInv
  <2>1. \A w \in Workflows : /\ log[w] = NoLog /\ next_step[w] = 0
                             /\ \A n \in Steps : ran[w][n] = 0
    BY DEF Init
  <2>2. \A f \in ForkIds : workflow_status[f].status = "ABSENT"
    BY ForkAssumption DEF Init, Workflows, AbsentRow
  <2>3. ASSUME NEW w \in Workflows PROVE RunOk(workflow_status[w].status, log[w], next_step[w], ran[w])
    <3>1. log[w] = NoLog /\ next_step[w] = 0 /\ \A n \in Steps : ran[w][n] = 0
      BY <2>1
    <3>2. \A n \in Steps : ~(n < 0) /\ ran[w][n] # 1 /\ ran[w][n] <= 1
      BY <3>1, StepsAreNat
    <3>3. QED
      BY <3>1, <3>2, EmptyLog DEF RunOk
  <2>4. \A f \in ForkIds : ForkOk(workflow_status[f].status, log[f], next_step[f], ran[f], begun[f])
    BY <2>1, <2>2 DEF ForkOk, Workflows
  <2>5. EffectsMatch(log[Original])
    BY <2>1, EmptyLog DEF Workflows
  <2>6. QED
    BY <2>3, <2>4, <2>5 DEF WorkflowInv
<1>4. QED
  BY <1>1, <1>2, <1>3 DEF Inv

\* A step that leaves calls, forks' creation and the rows' existence alone keeps what is said of calls,
\* if no recorded step of the original disappears.
LEMMA CallsUndisturbed ==
    ASSUME TypeOK, CallInv, UNCHANGED <<call, begun>>,
           \A f \in ForkIds : workflow_status[f].status = "ABSENT" => workflow_status'[f].status = "ABSENT",
           (\E c \in Callers : PastInsert(call[c])) => log[Original].ops \subseteq log'[Original].ops
    PROVE  CallInv'
<1>1. ASSUME NEW c \in Callers
      PROVE  CallOk(call[c], workflow_status'[call[c].id].status, begun[call[c].id], log'[Original])
  <2>1. CallOk(call[c], workflow_status[call[c].id].status, begun[call[c].id], log[Original])
    BY DEF CallInv
  <2>2. PastInsert(call[c]) => call[c].at # "idle"
    BY DEF PastInsert
  <2>3. QED
    BY <2>1, <2>2 DEF CallOk
<1>2. QED
  BY <1>1 DEF CallInv

\* The step of a running body: the invariant of its workflow from the one before.
LEMMA RunOne ==
    ASSUME NEW l \in Log, NEW n \in Steps, NEW r \in [Steps -> Nat], NEW o \in Nat,
           n \notin l.ops, IsNextOffset(l.stream, o), RunOk("PENDING", l, n, r)
    PROVE  LET x == Execute(l, n, o)
               q == [r EXCEPT ![n] = r[n] + 1]
           IN /\ x \in Log
              /\ RunOk("PENDING", x, n + 1, q)
              /\ EffectsMatch(l) => EffectsMatch(x)
              /\ \A b : b.start_step \in Nat /\ ForkOk("PENDING", l, n, r, b)
                          => ForkOk("PENDING", x, n + 1, q, b)
<1> DEFINE x == Execute(l, n, o)
           q == [r EXCEPT ![n] = r[n] + 1]
<1>1. \A m \in Steps : m < n => m \in l.ops
  BY DEF RunOk
<1>2. x \in Log /\ Closed(x.ops) /\ x.ops = l.ops \cup {n}
  BY <1>1, ExecuteClosed DEF RunOk
<1>3. EffectsMatch(l) => EffectsMatch(x)
  BY ExecuteEffects DEF RunOk
<1>4. r[n] \in Nat /\ r[n] <= 1 /\ r[n] # 1
  BY DEF RunOk
<1>5. q[n] = 1 /\ \A m \in Steps : m # n => q[m] = r[m]
  BY <1>4
<1> HIDE DEF x, q
<1>6. RunOk("PENDING", x, n + 1, q)
  <2>1. \A m \in Steps : m < n + 1 => m \in x.ops
    BY <1>1, <1>2, StepsAreNat
  <2>2. \A m \in Steps : q[m] = 1 => m \in x.ops
    BY <1>2, <1>5 DEF RunOk
  <2>3. \A m \in Steps : q[m] <= 1
    BY <1>5 DEF RunOk
  <2>4. QED
    BY <1>2, <2>1, <2>2, <2>3 DEF RunOk
<1>7. ASSUME NEW b, b.start_step \in Nat, ForkOk("PENDING", l, n, r, b)
      PROVE  ForkOk("PENDING", x, n + 1, q, b)
  <2> SUFFICES ASSUME b.reached
               PROVE  /\ EffectsMatch(x)
                      /\ \A m \in Steps : m < b.start_step => m \in x.ops /\ q[m] = 0
                      /\ \A m \in Steps : m \in x.ops /\ m >= b.start_step => q[m] = 1
    BY DEF ForkOk
  <2>1. EffectsMatch(x)
    BY <1>7, <1>3 DEF ForkOk
  <2>2. \A m \in Steps : m < b.start_step => m \in x.ops /\ q[m] = 0
    BY <1>7, <1>2, <1>5 DEF ForkOk
  <2>3. \A m \in Steps : m \in x.ops /\ m >= b.start_step => q[m] = 1
    BY <1>7, <1>2, <1>5 DEF ForkOk
  <2>4. QED
    BY <2>1, <2>2, <2>3
<1>8. QED
  BY <1>2, <1>3, <1>6, <1>7 DEF x, q

LEMMA RunStepInv ==
    ASSUME Inv, NEW w \in Workflows, RunStep(w)
    PROVE  Inv'
<1> DEFINE n == next_step[w]
           l == log[w]
<1>1. TypeOK /\ CallInv /\ WorkflowInv
  BY DEF Inv
<1>2. workflow_status[w].status = "PENDING" /\ n \in Steps
  BY DEF RunStep
<1>3. next_step' = [next_step EXCEPT ![w] = n + 1]
      /\ UNCHANGED <<workflow_status, call, begun, restarts, forks>>
  BY DEF RunStep
<1>4. l \in Log /\ ran[w] \in [Steps -> Nat] /\ Original \in Workflows /\ ForkIds \subseteq Workflows
  BY <1>1 DEF TypeOK, Workflows
<1>5. n + 1 \in 0..Len(Program) /\ next_step' \in [Workflows -> 0..Len(Program)]
  BY <1>1, <1>2, <1>3, StepsAreNat DEF TypeOK
<1>6. RunOk("PENDING", l, n, ran[w])
  BY <1>1, <1>2 DEF WorkflowInv
<1>7. w \in ForkIds => ForkOk("PENDING", l, n, ran[w], begun[w])
  BY <1>1, <1>2 DEF WorkflowInv
<1>8. CASE n \in l.ops
  <2>1. UNCHANGED <<log, ran>>
    BY <1>8 DEF RunStep
  <2>2. TypeOK'
    BY <1>1, <1>3, <1>5, <2>1 DEF TypeOK
  <2>3. CallInv'
    BY <1>1, <1>3, <2>1, CallsUndisturbed
  <2>4. RunOk("PENDING", l, n + 1, ran[w])
    <3>1. \A m \in Steps : m < n => m \in l.ops
      BY <1>6 DEF RunOk
    <3>2. \A m \in Steps : m < n + 1 => m < n \/ m = n
      <4>1. n \in Nat /\ Steps \subseteq Nat
        BY <1>2, StepsAreNat
      <4> HIDE DEF n
      <4> QED BY <4>1
    <3>3. \A m \in Steps : m < n + 1 => m \in l.ops
      BY <3>1, <3>2, <1>8
    <3> HIDE DEF n, l
    <3>4. QED
      BY <3>3, <1>6 DEF RunOk
  <2>5. w \in ForkIds => ForkOk("PENDING", l, n + 1, ran[w], begun[w])
    BY <1>7 DEF ForkOk
  <2>6. next_step'[w] = n + 1 /\ \A v \in Workflows : v # w => next_step'[v] = next_step[v]
    BY <1>1, <1>3 DEF TypeOK
  <2>7. WorkflowInv'
    BY <1>1, <1>2, <1>3, <1>4, <2>1, <2>4, <2>5, <2>6 DEF WorkflowInv
  <2>8. QED
    BY <2>2, <2>3, <2>7 DEF Inv
<1>9. CASE n \notin l.ops
  <2>1. PICK o \in StartSteps : /\ IsNextOffset(l.stream, o)
                                /\ log' = [log EXCEPT ![w] = Execute(l, n, o)]
                                /\ ran' = [ran EXCEPT ![w][n] = @ + 1]
    BY <1>9 DEF RunStep
  <2>2. o \in Nat
    BY StepsAreNat DEF StartSteps
  <2> DEFINE x == Execute(l, n, o)
             q == [ran[w] EXCEPT ![n] = ran[w][n] + 1]
  <2>3. /\ x \in Log
        /\ RunOk("PENDING", x, n + 1, q)
        /\ EffectsMatch(l) => EffectsMatch(x)
    BY <1>2, <1>4, <1>6, <1>9, <2>1, <2>2, RunOne
  <2>4. w \in ForkIds => ForkOk("PENDING", x, n + 1, q, begun[w])
    <3>1. SUFFICES ASSUME w \in ForkIds PROVE ForkOk("PENDING", x, n + 1, q, begun[w])
      OBVIOUS
    <3>2. PICK b : b = begun[w]
      OBVIOUS
    <3>3. b.start_step \in Nat
      BY <1>1, <3>1, <3>2, StepsAreNat DEF TypeOK, StartSteps
    <3>4. ForkOk("PENDING", l, n, ran[w], b)
      BY <1>7, <3>1, <3>2
    <3>5. ForkOk("PENDING", x, n + 1, q, b)
      BY <1>2, <1>4, <1>6, <1>9, <2>1, <2>2, <3>3, <3>4, RunOne
    <3>6. QED
      BY <3>2, <3>5
  <2>5. q \in [Steps -> Nat]
    BY <1>2, <1>4
  <2>6. /\ log'[w] = x /\ ran'[w] = q /\ next_step'[w] = n + 1
        /\ \A v \in Workflows : v # w => log'[v] = log[v] /\ ran'[v] = ran[v] /\ next_step'[v] = next_step[v]
        /\ log' \in [Workflows -> Log] /\ ran' \in [Workflows -> [Steps -> Nat]]
    BY <1>1, <1>3, <2>1, <2>3, <2>5 DEF TypeOK
  <2>7. x.ops = l.ops \cup {n}
    BY DEF Execute
  <2> HIDE DEF x, q
  <2>8. TypeOK'
    BY <1>1, <1>3, <1>5, <2>6 DEF TypeOK
  <2>9. CallInv'
    <3>1. log[Original].ops \subseteq log'[Original].ops
      BY <1>4, <2>6, <2>7
    <3>2. QED
      BY <1>1, <1>3, <3>1, CallsUndisturbed
  <2>10. WorkflowInv'
    BY <1>1, <1>2, <1>3, <1>4, <2>3, <2>4, <2>6 DEF WorkflowInv
  <2>11. QED
    BY <2>8, <2>9, <2>10 DEF Inv
<1>10. QED
  BY <1>8, <1>9

\* The status of one workflow changes, and nothing else: it exists before and after, and succeeds
\* only at the end of its body.
LEMMA StatusStep ==
    ASSUME Inv, NEW w \in Workflows, NEW row \in Row,
           workflow_status[w].status # "ABSENT", row.status # "ABSENT",
           row.status = "SUCCESS" => next_step[w] = Len(Program),
           workflow_status' = [workflow_status EXCEPT ![w] = row],
           UNCHANGED <<log, next_step, call, ran, begun, restarts, forks>>
    PROVE  Inv'
<1>1. TypeOK /\ CallInv /\ WorkflowInv
  BY DEF Inv
<1>2. /\ workflow_status'[w] = row
      /\ \A v \in Workflows : v # w => workflow_status'[v] = workflow_status[v]
      /\ workflow_status' \in [Workflows -> Row]
  BY <1>1 DEF TypeOK
<1>3. ForkIds \subseteq Workflows
  BY DEF Workflows
<1>4. TypeOK'
  BY <1>1, <1>2 DEF TypeOK
<1>5. CallInv'
  BY <1>1, <1>2, <1>3, CallsUndisturbed
<1>6. \A v \in Workflows : RunOk(workflow_status'[v].status, log[v], next_step[v], ran[v])
  <2>1. RunOk(row.status, log[w], next_step[w], ran[w])
    BY <1>1 DEF WorkflowInv, RunOk
  <2>2. QED
    BY <1>1, <1>2, <2>1 DEF WorkflowInv
<1>7. \A f \in ForkIds : ForkOk(workflow_status'[f].status, log[f], next_step[f], ran[f], begun[f])
  <2>1. w \in ForkIds => ForkOk(row.status, log[w], next_step[w], ran[w], begun[w])
    BY <1>1 DEF WorkflowInv, ForkOk
  <2>2. QED
    BY <1>1, <1>2, <1>3, <2>1 DEF WorkflowInv
<1>8. WorkflowInv'
  BY <1>1, <1>6, <1>7 DEF WorkflowInv
<1>9. QED
  BY <1>4, <1>5, <1>8 DEF Inv

LEMMA FinishInv ==
    ASSUME Inv, NEW w \in Workflows, Finish(w)
    PROVE  Inv'
<1> DEFINE row == [workflow_status[w] EXCEPT !.status = "SUCCESS"]
<1>1. workflow_status[w] \in Row
  BY DEF Inv, TypeOK
<1>2. row \in Row /\ row.status = "SUCCESS"
  BY <1>1 DEF Row
<1>3. QED
  BY <1>2, StatusStep DEF Finish

LEMMA DequeueInv ==
    ASSUME Inv, NEW f \in ForkIds, Dequeue(f)
    PROVE  Inv'
<1> DEFINE row == [workflow_status[f] EXCEPT !.status = "PENDING"]
<1>1. f \in Workflows /\ workflow_status[f] \in Row
  BY DEF Inv, TypeOK, Workflows
<1>2. row \in Row /\ row.status = "PENDING"
  BY <1>1 DEF Row
<1>3. QED
  BY <1>1, <1>2, StatusStep DEF Dequeue

LEMMA CancelInv ==
    ASSUME Inv, Cancel
    PROVE  Inv'
<1> DEFINE row == [workflow_status[Original] EXCEPT !.status = "CANCELLED"]
<1>1. Original \in Workflows /\ workflow_status[Original] \in Row
  BY DEF Inv, TypeOK, Workflows
<1>2. row \in Row /\ row.status = "CANCELLED"
  BY <1>1 DEF Row
<1>3. QED
  BY <1>1, <1>2, StatusStep DEF Cancel

LEMMA RestartInv ==
    ASSUME Inv, NEW w \in Workflows, Restart(w)
    PROVE  Inv'
<1>1. TypeOK /\ CallInv /\ WorkflowInv
  BY DEF Inv
<1>2. /\ workflow_status[w].status = "PENDING"
      /\ next_step' = [next_step EXCEPT ![w] = 0] /\ restarts' = restarts + 1
      /\ UNCHANGED <<workflow_status, log, call, ran, begun, forks>>
  BY DEF Restart
<1>3. /\ next_step'[w] = 0
      /\ \A v \in Workflows : v # w => next_step'[v] = next_step[v]
  BY <1>1, <1>2 DEF TypeOK
<1>4. TypeOK'
  BY <1>1, <1>2, StepsAreNat DEF TypeOK
<1>5. CallInv'
  BY <1>1, <1>2, CallsUndisturbed
<1>6. RunOk("PENDING", log[w], 0, ran[w])
  BY <1>1, <1>2, StepsAreNat DEF WorkflowInv, RunOk
<1>7. w \in ForkIds => ForkOk("PENDING", log[w], 0, ran[w], begun[w])
  BY <1>1, <1>2 DEF WorkflowInv, ForkOk
<1>8. WorkflowInv'
  BY <1>1, <1>2, <1>3, <1>6, <1>7 DEF WorkflowInv, Workflows
<1>9. QED
  BY <1>4, <1>5, <1>8 DEF Inv

LEMMA DeleteInv ==
    ASSUME Inv, Delete
    PROVE  Inv'
<1>1. TypeOK /\ CallInv /\ WorkflowInv
  BY DEF Inv
<1>2. /\ workflow_status' = [workflow_status EXCEPT ![Original] = AbsentRow]
      /\ log' = [log EXCEPT ![Original] = NoLog]
      /\ UNCHANGED <<next_step, call, ran, begun, restarts, forks>>
  BY DEF Delete
<1>3. ~ \E c \in Callers : PastInsert(call[c])
  BY DEF Delete, Locked, PastInsert
<1>4. Original \in Workflows /\ ForkIds \subseteq Workflows /\ Original \notin ForkIds
  BY ForkAssumption DEF Workflows
<1>5. /\ workflow_status'[Original].status = "ABSENT" /\ log'[Original] = NoLog
      /\ \A v \in Workflows : v # Original => workflow_status'[v] = workflow_status[v] /\ log'[v] = log[v]
  BY <1>1, <1>2, <1>4 DEF TypeOK, AbsentRow
<1>6. TypeOK'
  <2>1. AbsentRow \in Row
    BY DEF AbsentRow, Row
  <2>2. QED
    BY <1>1, <1>2, <2>1, EmptyLog DEF TypeOK
<1>7. CallInv'
  BY <1>1, <1>2, <1>3, <1>4, <1>5, CallsUndisturbed
<1>8. RunOk("ABSENT", NoLog, next_step[Original], ran[Original])
  BY <1>1, <1>4, EmptyLog DEF WorkflowInv, RunOk
<1>9. WorkflowInv'
  BY <1>1, <1>2, <1>4, <1>5, <1>8, EmptyLog DEF WorkflowInv
<1>10. QED
  BY <1>6, <1>7, <1>9 DEF Inv

\* One call moves on and no table changes. The creation record of an id is written only while no row
\* has the id and no other open transaction holds it.
LEMMA CallStep ==
    ASSUME Inv, NEW c \in Callers, NEW k \in Call,
           call' = [call EXCEPT ![c] = k],
           UNCHANGED <<workflow_status, log, next_step, ran, restarts>>, forks' \in Nat,
           begun' \in [ForkIds -> [start_step : StartSteps, reached : BOOLEAN]],
           \A g \in ForkIds : begun'[g] # begun[g] =>
              /\ workflow_status[g].status = "ABSENT"
              /\ \A d \in Callers : d # c /\ PastInsert(call[d]) => call[d].id # g,
           PastInsert(k) => \A d \in Callers : d # c /\ PastInsert(call[d]) => call[d].id # k.id,
           CallOk(k, workflow_status[k.id].status, begun'[k.id], log[Original])
    PROVE  Inv'
<1>1. TypeOK /\ CallInv /\ WorkflowInv
  BY DEF Inv
<1>2. /\ call'[c] = k /\ \A d \in Callers : d # c => call'[d] = call[d]
      /\ call' \in [Callers -> Call]
  BY <1>1 DEF TypeOK
<1>3. TypeOK'
  BY <1>1, <1>2 DEF TypeOK
<1>4. ASSUME NEW d \in Callers, d # c
      PROVE  CallOk(call[d], workflow_status[call[d].id].status, begun'[call[d].id], log[Original])
  <2>1. CallOk(call[d], workflow_status[call[d].id].status, begun[call[d].id], log[Original])
    BY <1>1 DEF CallInv
  <2>2. PastInsert(call[d]) => call[d].id \in ForkIds
    BY <2>1 DEF CallOk, PastInsert
  <2>3. PastInsert(call[d]) => begun'[call[d].id] = begun[call[d].id]
    BY <1>4, <2>2
  <2>4. QED
    BY <2>1, <2>3 DEF CallOk
<1>5. CallInv'
  <2>1. \A d \in Callers : CallOk(call'[d], workflow_status[call'[d].id].status, begun'[call'[d].id], log[Original])
    BY <1>2, <1>4
  <2>2. \A a, d \in Callers :
           PastInsert(call'[a]) /\ PastInsert(call'[d]) /\ call'[a].id = call'[d].id => a = d
    BY <1>1, <1>2 DEF CallInv
  <2>3. QED
    BY <2>1, <2>2 DEF CallInv
<1>6. WorkflowInv'
  <2>1. ASSUME NEW g \in ForkIds
        PROVE  ForkOk(workflow_status[g].status, log[g], next_step[g], ran[g], begun'[g])
    <3>1. ForkOk(workflow_status[g].status, log[g], next_step[g], ran[g], begun[g])
      BY <1>1 DEF WorkflowInv
    <3>2. begun'[g] = begun[g] \/ workflow_status[g].status = "ABSENT"
      OBVIOUS
    <3>3. QED
      BY <3>1, <3>2 DEF ForkOk
  <2>2. QED
    BY <1>1, <2>1 DEF WorkflowInv
<1>7. QED
  BY <1>3, <1>5, <1>6 DEF Inv

\* A call that goes back to idle.
LEMMA IdleOk ==
    /\ IdleCall \in Call /\ ~PastInsert(IdleCall)
    /\ \A status, b, original : CallOk(IdleCall, status, b, original)
<1>1. 0 \in StartSteps
  BY StepsAreNat DEF StartSteps
<1>2. IdleCall \in Call
  BY EmptyLog, <1>1 DEF IdleCall, Call, Workflows
<1>3. IdleCall.at = "idle" /\ IdleCall.copy = NoLog
  BY DEF IdleCall
<1>4. QED
  BY <1>2, <1>3, EmptyLog DEF CallOk, PastInsert

LEMMA ReadOriginalInv ==
    ASSUME Inv, NEW c \in Callers, NEW f \in ForkIds, NEW s \in StartSteps, ReadOriginal(c, f, s)
    PROVE  Inv'
<1> DEFINE k == [IdleCall EXCEPT !.at = "insert", !.id = f, !.start_step = s]
<1>1. k \in Call /\ k.at = "insert" /\ k.id = f /\ k.copy = NoLog
  BY EmptyLog DEF Call, IdleCall, Workflows
<1>2. /\ call' = [call EXCEPT ![c] = k] /\ forks' = forks + 1
      /\ UNCHANGED <<workflow_status, log, next_step, ran, begun, restarts>>
  BY DEF ReadOriginal
<1> HIDE DEF k
<1>3. forks' \in Nat /\ begun' = begun /\ begun \in [ForkIds -> [start_step : StartSteps, reached : BOOLEAN]]
  BY <1>2 DEF Inv, TypeOK
<1>4. ~PastInsert(k) /\ CallOk(k, workflow_status[k.id].status, begun[k.id], log[Original])
  BY <1>1, EmptyLog DEF CallOk, PastInsert
<1>5. QED
  BY <1>1, <1>2, <1>3, <1>4, CallStep

LEMMA InsertForkInv ==
    ASSUME Inv, NEW c \in Callers, InsertFork(c)
    PROVE  Inv'
<1> DEFINE f == call[c].id
           s == call[c].start_step
<1>1. TypeOK /\ CallInv /\ WorkflowInv
  BY DEF Inv
<1>2. /\ call[c].at = "insert"
      /\ \A d \in Callers \ {c} : call[d].id = f => call[d].at \in {"idle", "insert"}
      /\ UNCHANGED <<workflow_status, log, next_step, ran, restarts, forks>>
  BY DEF InsertFork
<1>3. f \in ForkIds /\ call[c].copy = NoLog /\ call[c] \in Call /\ s \in StartSteps /\ s \in Nat
  <2>1. CallOk(call[c], workflow_status[f].status, begun[f], log[Original]) /\ call[c] \in Call
    BY <1>1 DEF CallInv, TypeOK
  <2>2. QED
    BY <2>1, <1>2, StepsAreNat DEF CallOk, Call, StartSteps
<1>4. forks' \in Nat /\ begun \in [ForkIds -> [start_step : StartSteps, reached : BOOLEAN]]
  BY <1>1, <1>2 DEF TypeOK
<1>5. CASE workflow_status[f].status # "ABSENT"
  <2>1. call' = [call EXCEPT ![c] = IdleCall] /\ begun' = begun
    BY <1>5 DEF InsertFork
  <2>2. CallOk(IdleCall, workflow_status[IdleCall.id].status, begun'[IdleCall.id], log[Original])
    BY IdleOk
  <2>3. QED
    BY <1>2, <1>4, <2>1, <2>2, IdleOk, CallStep
<1>6. CASE workflow_status[f].status = "ABSENT"
  <2> DEFINE k == [call[c] EXCEPT !.at = IF s = 0 THEN "commit" ELSE "ops"]
             reached == \A n \in Steps : n < s => n \in log[Original].ops
             b == [start_step |-> s, reached |-> reached]
  <2>1. call' = [call EXCEPT ![c] = k] /\ begun' = [begun EXCEPT ![f] = b]
    BY <1>6 DEF InsertFork
  <2>2. reached \in BOOLEAN
    OBVIOUS
  <2>3. b \in [start_step : StartSteps, reached : BOOLEAN] /\ b.start_step = s /\ (b.reached <=> reached)
    BY <1>3
  <2>4. /\ k \in Call /\ k.id = f /\ k.start_step = s /\ k.copy = NoLog
        /\ k.at = IF s = 0 THEN "commit" ELSE "ops"
    BY <1>3 DEF Call
  <2> HIDE DEF k, b
  <2>5. begun'[f] = b /\ \A g \in ForkIds : g # f => begun'[g] = begun[g]
    BY <1>3, <1>4, <2>1
  <2>6. begun' \in [ForkIds -> [start_step : StartSteps, reached : BOOLEAN]]
    BY <1>4, <2>1, <2>3
  <2>7. \A d \in Callers : d # c /\ PastInsert(call[d]) => call[d].id # f
    BY <1>2 DEF PastInsert
  <2>8. CopyOk(k)
    <3>1. CASE s = 0
      <4>1. \A n \in Steps : ~(n < s)
        BY <3>1, StepsAreNat
      <4>2. k.copy.ops = {} /\ k.copy.history = {} /\ k.copy.event = {}
        BY <2>4 DEF NoLog
      <4>3. QED
        BY <2>4, <4>1, <4>2, EmptyLog DEF CopyOk
    <3>2. CASE s # 0
      BY <3>2, <2>4 DEF CopyOk
    <3>3. QED
      BY <3>1, <3>2
  <2>9. CallOk(k, "ABSENT", b, log[Original])
    BY <1>3, <2>3, <2>4, <2>8, EmptyLog DEF CallOk
  <2>10. CallOk(k, workflow_status[k.id].status, begun'[k.id], log[Original])
    BY <1>6, <2>4, <2>5, <2>9
  <2>11. \A g \in ForkIds : begun'[g] # begun[g] =>
            /\ workflow_status[g].status = "ABSENT"
            /\ \A d \in Callers : d # c /\ PastInsert(call[d]) => call[d].id # g
    BY <1>6, <2>5, <2>7
  <2>12. k \in Call /\ call' = [call EXCEPT ![c] = k]
         /\ \A d \in Callers : d # c /\ PastInsert(call[d]) => call[d].id # k.id
    BY <2>1, <2>4, <2>7
  <2>13. QED
    BY <1>2, <1>4, <2>6, <2>10, <2>11, <2>12, CallStep
<1>7. QED
  BY <1>5, <1>6

\* A copying statement: the transaction stays open under its id, and its staged copy stays right.
LEMMA CopyStep ==
    ASSUME Inv, NEW c \in Callers, NEW k \in Call, PastInsert(call[c]), PastInsert(k),
           k.id = call[c].id, k.start_step = call[c].start_step,
           call' = [call EXCEPT ![c] = k],
           UNCHANGED <<workflow_status, log, next_step, ran, begun, restarts, forks>>,
           Closed(k.copy.ops),
           /\ \A n \in Steps : n < call[c].start_step => n \in log[Original].ops
           /\ CopyOk(call[c])
           => CopyOk(k)
    PROVE  Inv'
<1>1. TypeOK /\ CallInv
  BY DEF Inv
<1>2. CallOk(call[c], workflow_status[call[c].id].status, begun[call[c].id], log[Original])
  BY <1>1 DEF CallInv
<1>3. CallOk(k, workflow_status[k.id].status, begun[k.id], log[Original])
  BY <1>2 DEF CallOk, PastInsert
<1>4. \A d \in Callers : d # c /\ PastInsert(call[d]) => call[d].id # k.id
  BY <1>1 DEF CallInv
<1>5. forks' \in Nat /\ begun' = begun /\ begun \in [ForkIds -> [start_step : StartSteps, reached : BOOLEAN]]
  BY <1>1 DEF TypeOK
<1>6. QED
  BY <1>3, <1>4, <1>5, CallStep

\* What the copying statements take for granted.
LEMMA Copying ==
    ASSUME Inv, NEW c \in Callers
    PROVE  /\ call[c] \in Call /\ call[c].start_step \in Nat /\ Closed(call[c].copy.ops)
           /\ log[Original] \in Log /\ Closed(log[Original].ops) /\ EffectsMatch(log[Original])
<1>1. TypeOK /\ CallInv /\ WorkflowInv
  BY DEF Inv
<1>2. Original \in Workflows
  BY DEF Workflows
<1>3. CallOk(call[c], workflow_status[call[c].id].status, begun[call[c].id], log[Original])
  BY <1>1 DEF CallInv
<1>4. RunOk(workflow_status[Original].status, log[Original], next_step[Original], ran[Original])
  BY <1>1, <1>2 DEF WorkflowInv
<1>5. QED
  BY <1>1, <1>2, <1>3, <1>4, StepsAreNat DEF TypeOK, CallOk, RunOk, WorkflowInv, Call, StartSteps

\* The part of a prefix below a step is a prefix.
LEMMA BelowClosed ==
    ASSUME NEW S \in SUBSET Steps, Closed(S), NEW s \in Nat
    PROVE  Closed({n \in S : n < s})
<1> SUFFICES ASSUME NEW n \in S, n < s, NEW m \in Steps, m < n
             PROVE  m \in S /\ m < s
  BY DEF Closed
<1>1. n \in Nat /\ m \in Nat
  BY StepsAreNat
<1>2. QED
  BY <1>1 DEF Closed

LEMMA CopyOpsInv ==
    ASSUME Inv, NEW c \in Callers, CopyOps(c)
    PROVE  Inv'
<1> DEFINE l == log[Original]
           s == call[c].start_step
           ops == {n \in l.ops : n < s}
           k == [call[c] EXCEPT !.at = "history", !.copy.ops = ops]
<1>1. call[c] \in Call /\ s \in Nat /\ l \in Log /\ Closed(l.ops)
  BY Copying
<1>2. ops \subseteq Steps /\ Closed(ops)
  <2>1. l.ops \in SUBSET Steps
    BY <1>1 DEF Log
  <2>2. QED
    BY <1>1, <2>1, BelowClosed
<1>3. /\ k \in Call /\ k.at = "history" /\ k.id = call[c].id /\ k.start_step = s /\ k.copy.ops = ops
  BY <1>1, <1>2 DEF Call, Log
<1>4. /\ call' = [call EXCEPT ![c] = k] /\ call[c].at = "ops"
      /\ UNCHANGED <<workflow_status, log, next_step, ran, begun, restarts, forks>>
  BY DEF CopyOps, Below
<1> HIDE DEF k
<1>5. (\A n \in Steps : n < s => n \in l.ops) => CopyOk(k)
  <2> SUFFICES ASSUME \A n \in Steps : n < s => n \in l.ops PROVE CopyOk(k)
    OBVIOUS
  <2>1. ops = {n \in Steps : n < s}
    BY <1>1 DEF Log
  <2>2. QED
    BY <1>3, <2>1 DEF CopyOk
<1>6. PastInsert(call[c]) /\ PastInsert(k)
  BY <1>3, <1>4 DEF PastInsert
<1>7. QED
  BY <1>2, <1>3, <1>4, <1>5, <1>6, CopyStep

LEMMA CopyHistoryInv ==
    ASSUME Inv, NEW c \in Callers, CopyHistory(c)
    PROVE  Inv'
<1> DEFINE l == log[Original]
           s == call[c].start_step
           h == {n \in l.history : n < s}
           k == [call[c] EXCEPT !.at = "events", !.copy.history = h]
<1>1. call[c] \in Call /\ s \in Nat /\ l \in Log /\ EffectsMatch(l) /\ Closed(call[c].copy.ops)
  BY Copying
<1>2. h \subseteq Steps
  BY <1>1 DEF Log
<1>3. /\ k \in Call /\ k.at = "events" /\ k.id = call[c].id /\ k.start_step = s
      /\ k.copy.ops = call[c].copy.ops /\ k.copy.history = h
  BY <1>1, <1>2 DEF Call, Log
<1>4. /\ call' = [call EXCEPT ![c] = k] /\ call[c].at = "history"
      /\ UNCHANGED <<workflow_status, log, next_step, ran, begun, restarts, forks>>
  BY DEF CopyHistory, Below
<1> HIDE DEF k
<1>5. (\A n \in Steps : n < s => n \in l.ops) /\ CopyOk(call[c]) => CopyOk(k)
  <2> SUFFICES ASSUME \A n \in Steps : n < s => n \in l.ops, CopyOk(call[c]) PROVE CopyOk(k)
    OBVIOUS
  <2>1. h = {n \in Steps : n < s /\ Kind(n) = "event"}
    BY <1>1 DEF Log, EffectsMatch
  <2>2. QED
    BY <1>3, <1>4, <2>1 DEF CopyOk
<1>6. PastInsert(call[c]) /\ PastInsert(k)
  BY <1>3, <1>4 DEF PastInsert
<1>7. QED
  BY <1>1, <1>3, <1>4, <1>5, <1>6, CopyStep

LEMMA CopyEventsInv ==
    ASSUME Inv, NEW c \in Callers, CopyEvents(c)
    PROVE  Inv'
<1> DEFINE l == log[Original]
           s == call[c].start_step
           h == {n \in l.history : n < s}
           latest == {n \in h : \A m \in h : m <= n}
           k == [call[c] EXCEPT !.at = "streams", !.copy.event = latest]
<1>1. call[c] \in Call /\ s \in Nat /\ l \in Log /\ EffectsMatch(l) /\ Closed(call[c].copy.ops)
  BY Copying
<1>2. latest \subseteq Steps
  BY <1>1 DEF Log
<1>3. /\ k \in Call /\ k.at = "streams" /\ k.id = call[c].id /\ k.start_step = s
      /\ k.copy.ops = call[c].copy.ops /\ k.copy.history = call[c].copy.history /\ k.copy.event = latest
  BY <1>1, <1>2 DEF Call, Log
<1>4. /\ call' = [call EXCEPT ![c] = k] /\ call[c].at = "events"
      /\ UNCHANGED <<workflow_status, log, next_step, ran, begun, restarts, forks>>
  BY DEF CopyEvents, LatestEvent, Below
<1> HIDE DEF k
<1>5. (\A n \in Steps : n < s => n \in l.ops) /\ CopyOk(call[c]) => CopyOk(k)
  <2> SUFFICES ASSUME \A n \in Steps : n < s => n \in l.ops, CopyOk(call[c]) PROVE CopyOk(k)
    OBVIOUS
  <2>1. h = {n \in Steps : n < s /\ Kind(n) = "event"}
    BY <1>1 DEF Log, EffectsMatch
  <2>2. call[c].copy.history = h
    BY <1>4, <2>1 DEF CopyOk
  <2>3. QED
    BY <1>3, <1>4, <2>2 DEF CopyOk
<1>6. PastInsert(call[c]) /\ PastInsert(k)
  BY <1>3, <1>4 DEF PastInsert
<1>7. QED
  BY <1>1, <1>3, <1>4, <1>5, <1>6, CopyStep

LEMMA CopyStreamsInv ==
    ASSUME Inv, NEW c \in Callers, CopyStreams(c)
    PROVE  Inv'
<1> DEFINE l == log[Original]
           s == call[c].start_step
           entries == {r \in l.stream : r.function_id < s}
           k == [call[c] EXCEPT !.at = "commit", !.copy.stream = entries]
<1>1. call[c] \in Call /\ s \in Nat /\ l \in Log /\ EffectsMatch(l) /\ Closed(call[c].copy.ops)
  BY Copying
<1>2. entries \subseteq Entry /\ s \in StartSteps
  BY <1>1 DEF Log, Call
<1>3. /\ k \in Call /\ k.at = "commit" /\ k.id = call[c].id /\ k.start_step = s
      /\ k.copy.ops = call[c].copy.ops /\ k.copy.history = call[c].copy.history
      /\ k.copy.event = call[c].copy.event /\ k.copy.stream = entries /\ k.copy \in Log
  BY <1>1, <1>2 DEF Call, Log
<1>4. /\ call' = [call EXCEPT ![c] = k] /\ call[c].at = "streams"
      /\ UNCHANGED <<workflow_status, log, next_step, ran, begun, restarts, forks>>
  BY DEF CopyStreams
<1> HIDE DEF k
<1>5. (\A n \in Steps : n < s => n \in l.ops) /\ CopyOk(call[c]) => CopyOk(k)
  <2> SUFFICES ASSUME \A n \in Steps : n < s => n \in l.ops, CopyOk(call[c]) PROVE CopyOk(k)
    OBVIOUS
  <2>1. /\ k.copy.ops = {n \in Steps : n < s}
        /\ k.copy.history = {n \in Steps : n < s /\ Kind(n) = "event"}
        /\ k.copy.event = {n \in k.copy.history : \A m \in k.copy.history : m <= n}
    BY <1>3, <1>4 DEF CopyOk
  <2>2. EffectsMatch(k.copy)
    BY <1>1, <1>2, <1>3, <2>1, StreamBelow
  <2>3. QED
    BY <1>3, <2>1, <2>2 DEF CopyOk
<1>6. PastInsert(call[c]) /\ PastInsert(k)
  BY <1>3, <1>4 DEF PastInsert
<1>7. QED
  BY <1>1, <1>3, <1>4, <1>5, <1>6, CopyStep

LEMMA CommitForkInv ==
    ASSUME Inv, NEW c \in Callers, CommitFork(c)
    PROVE  Inv'
<1> DEFINE f == call[c].id
           k == call[c]
<1>1. TypeOK /\ CallInv /\ WorkflowInv
  BY DEF Inv
<1>2. /\ k.at = "commit"
      /\ workflow_status' = [workflow_status EXCEPT
            ![f].status = "ENQUEUED",
            ![Original].was_forked_from = (workflow_status[Original].status # "ABSENT")]
      /\ log' = [log EXCEPT ![f] = k.copy]
      /\ call' = [call EXCEPT ![c] = IdleCall]
      /\ UNCHANGED <<next_step, ran, begun, restarts, forks>>
  BY DEF CommitFork
<1>3. CallOk(k, workflow_status[f].status, begun[f], log[Original]) /\ k \in Call
  BY <1>1 DEF CallInv, TypeOK
<1>4. PastInsert(k) /\ f \in ForkIds /\ workflow_status[f].status = "ABSENT" /\ Closed(k.copy.ops)
  BY <1>2, <1>3 DEF CallOk, PastInsert
<1>5. k.copy \in Log /\ k.start_step \in Nat
  BY <1>3, StepsAreNat DEF Call, StartSteps
<1>6. begun[f].reached => begun[f].start_step = k.start_step /\ EffectsMatch(k.copy)
                          /\ k.copy.ops = {n \in Steps : n < k.start_step}
  BY <1>2, <1>3, <1>4 DEF CallOk, CopyOk
<1>7. f \in Workflows /\ Original \in Workflows /\ f # Original /\ ForkIds \subseteq Workflows
  BY <1>4, ForkAssumption DEF Workflows
<1>8. /\ workflow_status' \in [Workflows -> Row]
      /\ workflow_status'[f].status = "ENQUEUED"
      /\ \A v \in Workflows : v # f => workflow_status'[v].status = workflow_status[v].status
  <2> DEFINE b == (workflow_status[Original].status # "ABSENT")
  <2>1. b \in BOOLEAN
    OBVIOUS
  <2>2. workflow_status \in [Workflows -> Row]
    BY <1>1 DEF TypeOK
  <2>3. workflow_status' = [workflow_status EXCEPT ![f].status = "ENQUEUED", ![Original].was_forked_from = b]
    BY <1>2
  <2> HIDE DEF b
  <2>4. QED
    BY <1>7, <2>1, <2>2, <2>3 DEF Row
<1>9. /\ log'[f] = k.copy /\ \A v \in Workflows : v # f => log'[v] = log[v]
      /\ log' \in [Workflows -> Log]
  BY <1>1, <1>2, <1>5, <1>7 DEF TypeOK
<1>10. /\ call'[c] = IdleCall /\ \A d \in Callers : d # c => call'[d] = call[d]
       /\ call' \in [Callers -> Call]
  BY <1>1, <1>2, IdleOk DEF TypeOK
<1>11. TypeOK'
  BY <1>1, <1>2, <1>8, <1>9, <1>10 DEF TypeOK
<1>12. CallInv'
  <2>1. ASSUME NEW d \in Callers, d # c
        PROVE  CallOk(call[d], workflow_status'[call[d].id].status, begun[call[d].id], log[Original])
    <3>1. CallOk(call[d], workflow_status[call[d].id].status, begun[call[d].id], log[Original])
      BY <1>1 DEF CallInv
    <3>2. PastInsert(call[d]) => call[d].id # f /\ call[d].id \in Workflows
      BY <1>1, <1>4, <2>1 DEF CallInv, TypeOK, Call
    <3>3. PastInsert(call[d]) => workflow_status'[call[d].id].status = workflow_status[call[d].id].status
      BY <1>8, <3>2
    <3>4. QED
      BY <3>1, <3>3 DEF CallOk
  <2>2. \A d \in Callers : CallOk(call'[d], workflow_status'[call'[d].id].status, begun[call'[d].id], log'[Original])
    BY <1>7, <1>9, <1>10, <2>1, IdleOk
  <2>3. \A a, d \in Callers :
           PastInsert(call'[a]) /\ PastInsert(call'[d]) /\ call'[a].id = call'[d].id => a = d
    BY <1>1, <1>10, IdleOk DEF CallInv
  <2>4. QED
    BY <1>2, <2>2, <2>3 DEF CallInv
<1>13. WorkflowInv'
  <2>1. next_step[f] = 0 /\ \A n \in Steps : ran[f][n] = 0
    BY <1>1, <1>4 DEF WorkflowInv, ForkOk
  <2>2. RunOk("ENQUEUED", k.copy, 0, ran[f])
    BY <1>4, <2>1, StepsAreNat DEF RunOk
  <2>3. ForkOk("ENQUEUED", k.copy, 0, ran[f], begun[f])
    <3> SUFFICES ASSUME begun[f].reached
                 PROVE  /\ EffectsMatch(k.copy)
                        /\ \A n \in Steps : n < begun[f].start_step => n \in k.copy.ops /\ ran[f][n] = 0
                        /\ \A n \in Steps : n \in k.copy.ops /\ n >= begun[f].start_step => ran[f][n] = 1
      BY DEF ForkOk
    <3>1. \A n \in Steps : n \in k.copy.ops <=> n < begun[f].start_step
      BY <1>6
    <3>2. \A n \in Steps : n \in k.copy.ops => ~(n >= begun[f].start_step)
      BY <1>5, <1>6, StepsAreNat
    <3>3. QED
      BY <1>6, <2>1, <3>1, <3>2
  <2>4. UNCHANGED <<next_step, ran, begun>>
    BY <1>2
  <2>5. ASSUME NEW w \in Workflows
        PROVE  RunOk(workflow_status'[w].status, log'[w], next_step[w], ran[w])
    <3>1. CASE w = f
      BY <1>8, <1>9, <2>1, <2>2, <3>1
    <3>2. CASE w # f
      <4>1. workflow_status'[w].status = workflow_status[w].status /\ log'[w] = log[w]
        BY <1>8, <1>9, <3>2
      <4>2. QED
        BY <1>1, <4>1 DEF WorkflowInv
    <3>3. QED
      BY <3>1, <3>2
  <2>6. ASSUME NEW g \in ForkIds
        PROVE  ForkOk(workflow_status'[g].status, log'[g], next_step[g], ran[g], begun[g])
    <3>1. CASE g = f
      BY <1>8, <1>9, <2>1, <2>3, <3>1
    <3>2. CASE g # f
      <4>1. workflow_status'[g].status = workflow_status[g].status /\ log'[g] = log[g]
        BY <1>7, <1>8, <1>9, <3>2
      <4>2. QED
        BY <1>1, <4>1 DEF WorkflowInv
    <3>3. QED
      BY <3>1, <3>2
  <2>7. EffectsMatch(log'[Original])
    <3>1. log'[Original] = log[Original]
      BY <1>7, <1>9
    <3>2. QED
      BY <1>1, <3>1 DEF WorkflowInv
  <2>8. QED
    BY <2>4, <2>5, <2>6, <2>7 DEF WorkflowInv
<1>14. QED
  BY <1>11, <1>12, <1>13 DEF Inv

LEMMA AbortForkInv ==
    ASSUME Inv, NEW c \in Callers, AbortFork(c)
    PROVE  Inv'
<1> DEFINE f == call[c].id
           none == [start_step |-> 0, reached |-> FALSE]
<1>1. TypeOK /\ CallInv /\ WorkflowInv
  BY DEF Inv
<1>2. /\ call[c].at # "idle" /\ call' = [call EXCEPT ![c] = IdleCall]
      /\ begun' = [begun EXCEPT ![f] = IF call[c].at = "insert" THEN @ ELSE none]
      /\ UNCHANGED <<workflow_status, log, next_step, ran, restarts, forks>>
  BY DEF AbortFork
<1>3. CallOk(call[c], workflow_status[f].status, begun[f], log[Original])
  BY <1>1 DEF CallInv
<1>4. f \in ForkIds /\ begun \in [ForkIds -> [start_step : StartSteps, reached : BOOLEAN]]
  BY <1>1, <1>2, <1>3 DEF CallOk, TypeOK
<1>5. none \in [start_step : StartSteps, reached : BOOLEAN]
  BY StepsAreNat DEF StartSteps
<1> HIDE DEF none
<1>6. begun' \in [ForkIds -> [start_step : StartSteps, reached : BOOLEAN]]
  BY <1>2, <1>4, <1>5
<1>7. \A g \in ForkIds : begun'[g] # begun[g] => g = f /\ PastInsert(call[c])
  BY <1>2, <1>4 DEF PastInsert
<1>8. PastInsert(call[c]) =>
         /\ workflow_status[f].status = "ABSENT"
         /\ \A d \in Callers : d # c /\ PastInsert(call[d]) => call[d].id # f
  BY <1>1, <1>3 DEF CallOk, CallInv
<1>9. CallOk(IdleCall, workflow_status[IdleCall.id].status, begun'[IdleCall.id], log[Original])
  BY IdleOk
<1>10. forks' \in Nat
  BY <1>1, <1>2 DEF TypeOK
<1>11. \A g \in ForkIds : begun'[g] # begun[g] =>
          /\ workflow_status[g].status = "ABSENT"
          /\ \A d \in Callers : d # c /\ PastInsert(call[d]) => call[d].id # g
  BY <1>7, <1>8
<1>12. QED
  BY <1>2, <1>6, <1>9, <1>10, <1>11, IdleOk, CallStep

LEMMA StepInv == Inv /\ [Next]_vars => Inv'
<1> SUFFICES ASSUME Inv, [Next]_vars PROVE Inv'
  OBVIOUS
<1>1. CASE UNCHANGED vars
  BY <1>1 DEF vars, Inv, TypeOK, CallInv, WorkflowInv
<1>2. ASSUME NEW w \in Workflows, RunStep(w) \/ Finish(w) \/ Restart(w) PROVE Inv'
  BY <1>2, RunStepInv, FinishInv, RestartInv
<1>3. ASSUME NEW f \in ForkIds, Dequeue(f) PROVE Inv'
  BY <1>3, DequeueInv
<1>4. CASE Cancel \/ Delete
  BY <1>4, CancelInv, DeleteInv
<1>5. ASSUME NEW c \in Callers, ForkStep(c) \/ AbortFork(c) PROVE Inv'
  BY <1>5, InsertForkInv, CopyOpsInv, CopyHistoryInv, CopyEventsInv, CopyStreamsInv, CommitForkInv,
     AbortForkInv DEF ForkStep
<1>6. ASSUME NEW c \in Callers, NEW f \in ForkIds, NEW s \in StartSteps, ReadOriginal(c, f, s)
      PROVE  Inv'
  BY <1>6, ReadOriginalInv
<1>7. QED
  BY <1>1, <1>2, <1>3, <1>4, <1>5, <1>6 DEF Next

LEMMA Invariance == Spec => []Inv
BY InitInv, StepInv, PTL DEF Spec

----
(* Theorems *)

\* Rows, logs, calls and creation records are well formed in every reachable state, for any body and
\* any number of concurrent fork_workflow calls; in particular a fork's id is never the original's.
THEOREM ForkTypeCorrect == Spec => []TypeOK
BY Invariance, PTL DEF Inv

\* However the original runs on, crashes, finishes, is cancelled, deleted or forked again while
\* fork_workflow copies its four tables: a fork from a step the original had reached has exactly the
\* history, the current event and the gapless, ordered stream that its recorded steps made.
THEOREM ForkIsConsistent == Spec => []ForkEffectsMatchLog
<1>1. Inv => ForkEffectsMatchLog
  BY DEF Inv, WorkflowInv, ForkOk, ForkEffectsMatchLog
<1>2. QED
  BY <1>1, Invariance, PTL

\* A fork from a step that the original had reached never executes one that was copied, whatever crashes,
\* replays and other forks there are, and has executed every other one when it succeeds.
THEOREM ForkRunsTheRest == Spec => []ForkExecutesTheRest
<1>1. ASSUME Inv PROVE ForkExecutesTheRest
  <2>1. \A w \in Workflows : RunOk(workflow_status[w].status, log[w], next_step[w], ran[w])
    BY <1>1 DEF Inv, WorkflowInv
  <2>2. ASSUME NEW f \in ForkIds, begun[f].reached, NEW n \in Steps
        PROVE  /\ ran[f][n] > 0 => n >= begun[f].start_step
               /\ workflow_status[f].status = "SUCCESS" /\ n >= begun[f].start_step => ran[f][n] > 0
    <3>1. /\ RunOk(workflow_status[f].status, log[f], next_step[f], ran[f])
          /\ ForkOk(workflow_status[f].status, log[f], next_step[f], ran[f], begun[f])
      BY <1>1, <2>1 DEF Inv, WorkflowInv, Workflows
    <3>2. begun[f].start_step \in Nat /\ n \in Nat /\ n < Len(Program)
      BY <1>1, StepsAreNat DEF Inv, TypeOK, StartSteps
    <3>3. ran[f][n] \in Nat /\ ran[f][n] <= 1
      BY <1>1, <3>1 DEF Inv, TypeOK, RunOk, Workflows
    <3>4. ran[f][n] > 0 => ran[f][n] = 1
      BY <3>3
    <3>5. ran[f][n] = 1 => n >= begun[f].start_step
      BY <2>2, <3>1, <3>2 DEF ForkOk
    <3>6. workflow_status[f].status = "SUCCESS" => n \in log[f].ops
      BY <3>1, <3>2 DEF ForkOk, RunOk
    <3>7. workflow_status[f].status = "SUCCESS" /\ n >= begun[f].start_step => ran[f][n] = 1
      BY <2>2, <3>1, <3>6 DEF ForkOk
    <3>8. QED
      BY <3>4, <3>5, <3>7
  <2>3. QED
    BY <2>2 DEF ForkExecutesTheRest
<1>2. QED
  BY <1>1, Invariance, PTL

----
(* The control plane: cancel, resume, delete, recovery and retention, beside fork_workflow. *)

Requests == ConductorRequests \cup AdminRequests

ManagedRow == [status : Statuses, created_at : 0..MaxClock, owner : {"me", "dead"}, queued : BOOLEAN]

\* The rows a garbage collection has counted.
Kept == [id : Managed, created_at : Nat]

Places ==
    {"idle", "list_pending", "recover", "statement", "gc_rows", "gc_delete", "list_active", "cancel_listed", "reply"}

HandlerState ==
    [at : Places,
     req : Requests \cup {NoRequest}, pending : SUBSET [id : Managed, queued : BOOLEAN], todo : SUBSET Managed,
     cutoff : SUBSET Nat, keep : SUBSET Kept, ok : BOOLEAN]

\* What d, of a request r, says of a row: it is not settled, and r asks for it.
Owed(d, r, row) ==
    /\ d.id \in Managed /\ ~Settled(d.want, row)
    /\ \/ r.type \in {"cancel", "resume", "delete"} /\ d.want = r.type /\ d.id \in r.ids
       \/ /\ r.type = "retention" /\ d.want = "cancel" /\ row.status \in Active
          /\ \E c \in r.timeout_cutoff : row.created_at <= c
       \/ /\ r.type = "retention" /\ d.want = "collect" /\ row.status \notin Active \cup {"ABSENT"}
          /\ \E c \in r.gc_cutoff : row.created_at < c

\* The cutoff of a garbage collection is not before the one it was given, and no later than any row that
\* it counted and was not to take anyway.
CutoffOk(k) ==
    \E x \in Nat :
        /\ k.cutoff = {x}
        /\ \A c \in k.req.gc_cutoff : c <= x
        /\ \A e \in k.keep : (\A c \in k.req.gc_cutoff : e.created_at >= c) => e.created_at >= x

\* How far the request is, and what it can still owe there.
Progress(k, owes) ==
    /\ k.at \in {"list_pending", "recover"} => k.req.type = "recovery"
    /\ k.at = "statement" => k.req.type \in {"cancel", "resume", "delete"}
    /\ k.at \in {"gc_rows", "gc_delete", "list_active", "cancel_listed"} => k.req.type = "retention"
    /\ k.at = "gc_rows" => k.cutoff = k.req.gc_cutoff /\ k.req.gc_rows \ {0} # {}
    /\ k.at = "gc_delete" => CutoffOk(k)
    /\ k.at = "list_active" => k.req.timeout_cutoff # {} /\ \A d \in owes : d.want = "cancel"
    /\ k.at = "cancel_listed" => \A d \in owes : d.want = "cancel" /\ d.id \in k.todo
    /\ k.at = "reply" /\ k.ok => owes = {}

HandlerInv(h) ==
    IF handler[h].at = "idle" THEN handler[h] = Idle /\ due[h] = {}
    ELSE /\ handler[h].req \in Requests
         /\ \A d \in due[h] : Owed(d, handler[h].req, rows[d.id])
         /\ Progress(handler[h], due[h])

\* Rows are well formed and an absent one is blank.
RowsOk ==
    /\ rows \in [Managed -> ManagedRow]
    /\ \A w \in Managed : rows[w].status = "ABSENT" => rows[w] = AbsentWorkflow

StateOk ==
    /\ RowsOk
    /\ tasks \in [Managed -> 0..MaxTasks] /\ clock \in 0..MaxClock
    /\ session \in {"waiting", "connected", "stopped"} /\ link \in {"ok", "closed", "silent"} /\ stopping \in BOOLEAN
    /\ inbox \in Seq(ConductorRequests)
    /\ handler \in [Handlers -> HandlerState]

ControlInv == StateOk /\ \A h \in Handlers : HandlerInv(h)

LEMMA RequestFields ==
    ASSUME NEW r \in Requests
    PROVE  /\ r.type \in Types /\ r.ids \subseteq Managed
           /\ r.gc_cutoff \subseteq Nat /\ r.gc_rows \subseteq Nat /\ r.timeout_cutoff \subseteq Nat
           /\ \A m, n \in r.gc_cutoff : m = n
           /\ \A m, n \in r.gc_rows : m = n
           /\ \A m, n \in r.timeout_cutoff : m = n
           /\ r.type # "retention" => r.gc_cutoff = {} /\ r.timeout_cutoff = {}
           /\ r.type \in {"recovery", "retention"} => r.ids = {}
BY ControlPlaneAssumption DEF Requests

LEMMA Limits ==
    MaxClock \in Nat /\ MaxTasks \in Nat
BY ControlPlaneAssumption

LEMMA IdleHandler ==
    /\ Idle \in HandlerState /\ Idle.at = "idle" /\ Idle.ok = FALSE /\ Idle.req = NoRequest
BY DEF Idle, HandlerState, Places

\* A row that stays keeps its created_at.
RowStep ==
    \A w \in Managed : rows[w].status # "ABSENT" /\ rows'[w].status # "ABSENT" => rows'[w].created_at = rows[w].created_at

LEMMA OwedKept ==
    ASSUME NEW d, NEW r, NEW row, NEW new, Owed(d, r, row), ~Settled(d.want, new),
           row.status # "ABSENT" /\ new.status # "ABSENT" => new.created_at = row.created_at
    PROVE  Owed(d, r, new)
BY DEF Owed, Settled, Active

LEMMA DueShrinks ==
    ASSUME Track, NEW h \in Handlers, handler[h].at # "idle"
    PROVE  /\ \A d \in due'[h] : d \in due[h] /\ ~Settled(d.want, rows'[d.id])
           /\ handler'[h].at = "idle" => due'[h] = {}
<1>1. due'[h] = {d \in due[h] : handler'[h].at # "idle" /\ ~Settled(d.want, rows'[d.id])}
    BY DEF Track
<1> QED BY <1>1

LEMMA ProgressShrinks ==
    ASSUME NEW k, NEW S, NEW T, T \subseteq S, Progress(k, S)
    PROVE  Progress(k, T)
BY DEF Progress

LEMMA HandlerNext ==
    ASSUME NEW h \in Handlers,
           handler'[h].at = "idle" => handler'[h] = Idle /\ due'[h] = {},
           handler'[h].at # "idle" => /\ handler'[h].req \in Requests
                                      /\ \A d \in due'[h] : Owed(d, handler'[h].req, rows'[d.id])
                                      /\ Progress(handler'[h], due'[h])
    PROVE  HandlerInv(h)'
BY DEF HandlerInv, Idle, NoRequest, Owed, Settled, Active, Progress, CutoffOk, Requests

\* A step of somebody else.
LEMMA HandlerKept ==
    ASSUME NEW h \in Handlers, HandlerInv(h), RowStep, Track, handler'[h] = handler[h]
    PROVE  HandlerInv(h)'
<1>1. CASE handler[h].at = "idle"
    <2>1. due'[h] = {}
        BY <1>1 DEF Track
    <2>2. handler[h] = Idle
        BY <1>1 DEF HandlerInv
    <2> QED BY <1>1, <2>1, <2>2, HandlerNext
<1>2. CASE handler[h].at # "idle"
    <2>1. handler[h].req \in Requests /\ Progress(handler[h], due[h]) /\ \A d \in due[h] : Owed(d, handler[h].req, rows[d.id])
        BY <1>2 DEF HandlerInv
    <2>2. \A d \in due'[h] : d \in due[h] /\ ~Settled(d.want, rows'[d.id])
        BY <1>2, DueShrinks
    <2>3. ASSUME NEW d \in due'[h] PROVE Owed(d, handler[h].req, rows'[d.id])
        <3>1. Owed(d, handler[h].req, rows[d.id]) /\ ~Settled(d.want, rows'[d.id])
            BY <2>1, <2>2, <2>3
        <3>2. d.id \in Managed
            BY <3>1 DEF Owed
        <3> QED BY <3>1, <3>2, OwedKept DEF RowStep
    <2>4. Progress(handler[h], due'[h])
        BY <2>1, <2>2, ProgressShrinks
    <2> QED BY <1>2, <2>1, <2>3, <2>4, HandlerNext
<1> QED BY <1>1, <1>2

\* A step of the request that h works on.
LEMMA HandlerMoves ==
    ASSUME NEW h \in Handlers, HandlerInv(h), RowStep, Track, handler[h].at # "idle",
           handler'[h].at # "idle", handler'[h].req = handler[h].req,
           (\A d \in due'[h] : d \in due[h] /\ Owed(d, handler[h].req, rows'[d.id])) => Progress(handler'[h], due'[h])
    PROVE  HandlerInv(h)'
<1>1. handler[h].req \in Requests /\ \A d \in due[h] : Owed(d, handler[h].req, rows[d.id])
    BY DEF HandlerInv
<1>2. \A d \in due'[h] : d \in due[h] /\ ~Settled(d.want, rows'[d.id])
    BY DueShrinks
<1>3. ASSUME NEW d \in due'[h] PROVE Owed(d, handler[h].req, rows'[d.id])
    <2>1. Owed(d, handler[h].req, rows[d.id]) /\ ~Settled(d.want, rows'[d.id])
        BY <1>1, <1>2, <1>3
    <2>2. d.id \in Managed
        BY <2>1 DEF Owed
    <2> QED BY <2>1, <2>2, OwedKept DEF RowStep
<1> QED BY <1>1, <1>2, <1>3, HandlerNext

LEMMA RowUpdate ==
    ASSUME NEW f \in [Managed -> ManagedRow], rows' = f,
           \A w \in Managed : f[w].status = "ABSENT" => f[w] = AbsentWorkflow,
           \A w \in Managed : rows[w].status # "ABSENT" /\ f[w].status # "ABSENT" => f[w].created_at = rows[w].created_at
    PROVE  RowsOk' /\ RowStep
BY DEF RowsOk, RowStep, ManagedRow, AbsentWorkflow

LEMMA RowsKept ==
    ASSUME RowsOk, rows' = rows
    PROVE  RowsOk' /\ RowStep
BY DEF RowsOk, RowStep, ManagedRow, AbsentWorkflow

LEMMA OneRow ==
    ASSUME RowsOk, NEW v \in Managed, NEW new \in ManagedRow, rows' = [rows EXCEPT ![v] = new],
           new.status # "ABSENT", rows[v].status # "ABSENT" => new.created_at = rows[v].created_at
    PROVE  RowsOk' /\ RowStep
<1> DEFINE f == [rows EXCEPT ![v] = new]
<1>1. rows \in [Managed -> ManagedRow] /\ \A w \in Managed : rows[w].status = "ABSENT" => rows[w] = AbsentWorkflow
    BY DEF RowsOk
<1>2. f \in [Managed -> ManagedRow] /\ \A w \in Managed : f[w] = IF w = v THEN new ELSE rows[w]
    BY <1>1
<1>3. rows' = f
    OBVIOUS
<1> HIDE DEF f
<1> QED BY <1>1, <1>2, <1>3, RowUpdate

LEMMA BlankRow == AbsentWorkflow \in ManagedRow /\ AbsentWorkflow.status = "ABSENT"
BY Limits DEF AbsentWorkflow, ManagedRow, Statuses

LEMMA CancelledRows ==
    ASSUME RowsOk, NEW S, rows' = Cancelled(S)
    PROVE  RowsOk' /\ RowStep /\ \A w \in Managed \cap S : rows'[w].status \notin Active
<1>1. rows \in [Managed -> ManagedRow] /\ \A w \in Managed : rows[w].status = "ABSENT" => rows[w] = AbsentWorkflow
    BY DEF RowsOk
<1>2. ASSUME NEW w \in Managed, rows[w].status \in Active
      PROVE  /\ [rows[w] EXCEPT !.status = "CANCELLED", !.queued = FALSE] \in ManagedRow
             /\ [rows[w] EXCEPT !.status = "CANCELLED", !.queued = FALSE].status = "CANCELLED"
             /\ [rows[w] EXCEPT !.status = "CANCELLED", !.queued = FALSE].created_at = rows[w].created_at
    BY <1>1 DEF ManagedRow, Statuses
<1> DEFINE f == Cancelled(S)
<1>3. \A w \in Managed : \/ w \in S /\ rows[w].status \in Active /\ f[w] = [rows[w] EXCEPT !.status = "CANCELLED", !.queued = FALSE]
                         \/ (w \notin S \/ rows[w].status \notin Active) /\ f[w] = rows[w]
    BY DEF Cancelled
<1>4. f \in [Managed -> ManagedRow]
    <2>1. \A w \in Managed : f[w] \in ManagedRow
        BY <1>1, <1>2, <1>3
    <2>2. f = [w \in Managed |-> f[w]]
        BY DEF Cancelled
    <2> HIDE DEF f
    <2> QED BY <2>1, <2>2
<1>5. rows' = f
    OBVIOUS
<1> HIDE DEF f
<1>6. \A w \in Managed : /\ f[w].status = "ABSENT" => f[w] = AbsentWorkflow
                         /\ rows[w].status # "ABSENT" /\ f[w].status # "ABSENT" => f[w].created_at = rows[w].created_at
                         /\ w \in S => f[w].status \notin Active
    BY <1>1, <1>2, <1>3 DEF Active
<1> QED BY <1>4, <1>5, <1>6, RowUpdate

LEMMA ResumedRows ==
    ASSUME RowsOk, NEW S, rows' = Resumed(S)
    PROVE  RowsOk' /\ RowStep /\ \A w \in Managed \cap S : rows'[w].status # "CANCELLED"
<1>1. rows \in [Managed -> ManagedRow] /\ \A w \in Managed : rows[w].status = "ABSENT" => rows[w] = AbsentWorkflow
    BY DEF RowsOk
<1>2. ASSUME NEW w \in Managed
      PROVE  /\ [rows[w] EXCEPT !.status = "ENQUEUED", !.queued = TRUE] \in ManagedRow
             /\ [rows[w] EXCEPT !.status = "ENQUEUED", !.queued = TRUE].status = "ENQUEUED"
             /\ [rows[w] EXCEPT !.status = "ENQUEUED", !.queued = TRUE].created_at = rows[w].created_at
    BY <1>1 DEF ManagedRow, Statuses
<1> DEFINE f == Resumed(S)
<1>3. \A w \in Managed : \/ w \in S /\ rows[w].status \notin {"ABSENT", "SUCCESS"} /\ f[w] = [rows[w] EXCEPT !.status = "ENQUEUED", !.queued = TRUE]
                         \/ (w \notin S \/ rows[w].status \in {"ABSENT", "SUCCESS"}) /\ f[w] = rows[w]
    BY DEF Resumed
<1>4. f \in [Managed -> ManagedRow]
    <2>1. \A w \in Managed : f[w] \in ManagedRow
        BY <1>1, <1>2, <1>3
    <2>2. f = [w \in Managed |-> f[w]]
        BY DEF Resumed
    <2> HIDE DEF f
    <2> QED BY <2>1, <2>2
<1>5. rows' = f
    OBVIOUS
<1> HIDE DEF f
<1>6. \A w \in Managed : /\ f[w].status = "ABSENT" => f[w] = AbsentWorkflow
                         /\ rows[w].status # "ABSENT" /\ f[w].status # "ABSENT" => f[w].created_at = rows[w].created_at
                         /\ w \in S => f[w].status # "CANCELLED"
    BY <1>1, <1>2, <1>3
<1> QED BY <1>4, <1>5, <1>6, RowUpdate

LEMMA DeletedRows ==
    ASSUME RowsOk, NEW S, rows' = Deleted(S)
    PROVE  /\ RowsOk' /\ RowStep
           /\ \A w \in Managed : w \in S => rows'[w].status = "ABSENT"
           /\ \A w \in Managed : w \notin S => rows'[w] = rows[w]
<1>1. rows \in [Managed -> ManagedRow] /\ \A w \in Managed : rows[w].status = "ABSENT" => rows[w] = AbsentWorkflow
    BY DEF RowsOk
<1> DEFINE f == Deleted(S)
<1>3. \A w \in Managed : \/ w \in S /\ f[w] = AbsentWorkflow
                         \/ w \notin S /\ f[w] = rows[w]
    BY DEF Deleted
<1>4. f \in [Managed -> ManagedRow]
    <2>1. \A w \in Managed : f[w] \in ManagedRow
        BY <1>1, <1>3, BlankRow
    <2>2. f = [w \in Managed |-> f[w]]
        BY DEF Deleted
    <2> HIDE DEF f
    <2> QED BY <2>1, <2>2
<1>5. rows' = f
    OBVIOUS
<1> HIDE DEF f
<1>6. \A w \in Managed : /\ f[w].status = "ABSENT" => f[w] = AbsentWorkflow
                         /\ rows[w].status # "ABSENT" /\ f[w].status # "ABSENT" => f[w].created_at = rows[w].created_at
                         /\ w \in S => f[w].status = "ABSENT"
                         /\ w \notin S => f[w] = rows[w]
    BY <1>1, <1>3, BlankRow
<1> QED BY <1>4, <1>5, <1>6, RowUpdate

\* The parts of StateOk that a step leaves alone.
LEMMA StateNext ==
    ASSUME StateOk, RowsOk', tasks' \in [Managed -> 0..MaxTasks], clock' \in 0..MaxClock,
           session' \in {"waiting", "connected", "stopped"}, link' \in {"ok", "closed", "silent"},
           stopping' \in BOOLEAN, inbox' \in Seq(ConductorRequests), handler' \in [Handlers -> HandlerState]
    PROVE  StateOk'
BY DEF StateOk, Handlers, HandlerState, Places, Kept, Requests, NoRequest

\* A step of nobody's request.
LEMMA OtherStep ==
    ASSUME ControlInv, StateOk', RowStep, Track, handler' = handler
    PROVE  ControlInv'
<1>1. \A h \in Handlers : HandlerInv(h)'
    BY HandlerKept DEF ControlInv
<1> QED BY <1>1 DEF ControlInv, Handlers

\* A step of the request of h.
LEMMA OwnStep ==
    ASSUME ControlInv, StateOk', RowStep, Track, NEW h \in Handlers, HandlerInv(h)',
           \A g \in Handlers \ {h} : handler'[g] = handler[g]
    PROVE  ControlInv'
<1>1. \A g \in Handlers \ {h} : HandlerInv(g)'
    BY HandlerKept DEF ControlInv
<1>2. \A g \in Handlers : HandlerInv(g)'
    BY <1>1
<1> QED BY <1>2 DEF ControlInv, Handlers

LEMMA HandlerFields ==
    ASSUME NEW k \in HandlerState
    PROVE  /\ k.req \in Requests \cup {NoRequest} /\ k.pending \in SUBSET [id : Managed, queued : BOOLEAN]
           /\ k.todo \in SUBSET Managed /\ k.cutoff \in SUBSET Nat /\ k.keep \in SUBSET Kept /\ k.ok \in BOOLEAN
BY DEF HandlerState, Places

LEMMA StatusSet ==
    ASSUME NEW row \in ManagedRow, NEW s \in Statuses
    PROVE  /\ [row EXCEPT !.status = s] \in ManagedRow
           /\ [row EXCEPT !.status = s].status = s /\ [row EXCEPT !.status = s].created_at = row.created_at
BY DEF ManagedRow

LEMMA RowClaimed ==
    ASSUME NEW row \in ManagedRow
    PROVE  /\ [row EXCEPT !.status = "PENDING", !.owner = "me"] \in ManagedRow
           /\ [row EXCEPT !.status = "PENDING", !.owner = "me"].status = "PENDING"
           /\ [row EXCEPT !.status = "PENDING", !.owner = "me"].created_at = row.created_at
BY DEF ManagedRow, Statuses

LEMMA OwnerSet ==
    ASSUME NEW row \in ManagedRow
    PROVE  /\ [row EXCEPT !.owner = "me"] \in ManagedRow
           /\ [row EXCEPT !.owner = "me"].status = row.status /\ [row EXCEPT !.owner = "me"].created_at = row.created_at
BY DEF ManagedRow

LEMMA InsertedRow ==
    ASSUME NEW o \in {"me", "dead"}, clock + 1 \in 0..MaxClock
    PROVE  NewRow(o) \in ManagedRow /\ NewRow(o).status = "PENDING"
BY DEF NewRow, ManagedRow, Statuses

LEMMA StartWorkflowKeeps ==
    ASSUME ControlInv, Track, NEW w \in Managed, NEW o \in {"me", "dead"}, StartWorkflow(w, o)
    PROVE  ControlInv'
<1>1. StateOk /\ RowsOk
    BY DEF ControlInv, StateOk
<1>2. clock \in Nat /\ clock < MaxClock /\ clock' = clock + 1 /\ clock' \in 0..MaxClock
    BY <1>1, Limits DEF StateOk, StartWorkflow
<1>3. PICK new \in ManagedRow : new = NewRow(o) /\ new.status = "PENDING"
    BY <1>2, InsertedRow
<1>4. rows' = [rows EXCEPT ![w] = new] /\ rows[w].status = "ABSENT"
    BY <1>3 DEF StartWorkflow
<1>5. RowsOk' /\ RowStep
    BY <1>1, <1>3, <1>4, OneRow
<1>6. tasks' \in [Managed -> 0..MaxTasks]
    <2>1. tasks \in [Managed -> 0..MaxTasks] /\ tasks' = [tasks EXCEPT ![w] = @ + (IF o = "me" THEN 1 ELSE 0)]
        BY <1>1 DEF StateOk, StartWorkflow
    <2>2. o = "me" => tasks[w] < MaxTasks
        BY DEF StartWorkflow
    <2>3. tasks[w] + (IF o = "me" THEN 1 ELSE 0) \in 0..MaxTasks
        BY <2>1, <2>2, Limits
    <2> QED BY <2>1, <2>3
<1>7. UNCHANGED <<session, link, inbox, handler, stopping>>
    BY DEF StartWorkflow, connection, counters
<1>8. StateOk'
    BY <1>1, <1>2, <1>5, <1>6, <1>7, StateNext DEF StateOk
<1> QED BY <1>5, <1>7, <1>8, OtherStep

LEMMA ClaimKeeps ==
    ASSUME ControlInv, Track, NEW w \in Managed, Claim(w)
    PROVE  ControlInv'
<1>1. StateOk /\ RowsOk
    BY DEF ControlInv, StateOk
<1>2. rows \in [Managed -> ManagedRow]
    BY <1>1 DEF RowsOk
<1> DEFINE new == [rows[w] EXCEPT !.status = "PENDING", !.owner = "me"]
<1>3. new \in ManagedRow /\ new.status = "PENDING" /\ new.created_at = rows[w].created_at
    <2>1. rows[w] \in ManagedRow
        BY <1>2
    <2> QED BY <2>1, RowClaimed
<1>4. rows' = [rows EXCEPT ![w] = new]
    BY <1>2 DEF Claim, ManagedRow
<1> HIDE DEF new
<1>5. RowsOk' /\ RowStep
    BY <1>1, <1>3, <1>4, OneRow
<1>6. tasks' \in [Managed -> 0..MaxTasks]
    BY <1>1, Limits DEF StateOk, Claim
<1>7. UNCHANGED <<clock, session, link, inbox, handler, stopping>>
    BY DEF Claim, connection, counters
<1>8. StateOk'
    BY <1>1, <1>5, <1>6, <1>7, StateNext DEF StateOk
<1> QED BY <1>5, <1>7, <1>8, OtherStep

LEMMA EndTaskKeeps ==
    ASSUME ControlInv, Track, NEW w \in Managed, EndTask(w)
    PROVE  ControlInv'
<1>1. StateOk /\ RowsOk
    BY DEF ControlInv, StateOk
<1>2. rows \in [Managed -> ManagedRow]
    BY <1>1 DEF RowsOk
<1>5. RowsOk' /\ RowStep
    <2>1. CASE rows' = rows
        BY <1>1, <2>1, RowsKept
    <2>2. CASE rows' = [rows EXCEPT ![w].status = "SUCCESS"]
        <3> DEFINE new == [rows[w] EXCEPT !.status = "SUCCESS"]
        <3>3. new \in ManagedRow /\ new.status = "SUCCESS" /\ new.created_at = rows[w].created_at
            <4>1. rows[w] \in ManagedRow /\ "SUCCESS" \in Statuses
                BY <1>2 DEF Statuses
            <4> QED BY <4>1, StatusSet
        <3>4. rows' = [rows EXCEPT ![w] = new]
            BY <1>2, <2>2 DEF ManagedRow
        <3> HIDE DEF new
        <3> QED BY <1>1, <3>3, <3>4, OneRow
    <2> QED BY <2>1, <2>2 DEF EndTask
<1>6. tasks' \in [Managed -> 0..MaxTasks]
    BY <1>1, Limits DEF StateOk, EndTask
<1>7. UNCHANGED <<clock, session, link, inbox, handler, stopping>>
    BY DEF EndTask, connection, counters
<1>8. StateOk'
    BY <1>1, <1>5, <1>6, <1>7, StateNext DEF StateOk
<1> QED BY <1>5, <1>7, <1>8, OtherStep

\* The steps of the connection that touch no request.
LEMMA ConnectionKeeps ==
    ASSUME ControlInv, Track, UNCHANGED <<rows, tasks, clock, handler>>,
           session' \in {"waiting", "connected", "stopped"}, link' \in {"ok", "closed", "silent"},
           stopping' \in BOOLEAN, inbox' \in Seq(ConductorRequests)
    PROVE  ControlInv'
<1>1. StateOk /\ RowsOk
    BY DEF ControlInv, StateOk
<1>2. RowsOk' /\ RowStep
    BY <1>1, RowsKept
<1>3. tasks' \in [Managed -> 0..MaxTasks] /\ clock' \in 0..MaxClock /\ handler' \in [Handlers -> HandlerState]
    BY <1>1 DEF StateOk
<1>4. StateOk'
    BY <1>1, <1>2, <1>3, StateNext
<1> QED BY <1>2, <1>4, OtherStep

LEMMA ConnectionSteps ==
    ASSUME ControlInv, Track,
           \/ Connect \/ Disconnect \/ StopSession \/ Shutdown
           \/ \E r \in ConductorRequests : Send(r)
           \/ \E how \in {"closed", "silent"} : CutLink(how)
    PROVE  ControlInv'
<1>1. /\ session \in {"waiting", "connected", "stopped"} /\ link \in {"ok", "closed", "silent"} /\ stopping \in BOOLEAN
      /\ inbox \in Seq(ConductorRequests)
    BY DEF ControlInv, StateOk
<1>2. << >> \in Seq(ConductorRequests)
    OBVIOUS
<1>3. CASE Connect
    BY <1>1, <1>2, <1>3, ConnectionKeeps DEF Connect, database, counters
<1>4. CASE Disconnect
    BY <1>1, <1>2, <1>4, ConnectionKeeps DEF Disconnect, database, counters
<1>5. CASE StopSession
    BY <1>1, <1>2, <1>5, ConnectionKeeps DEF StopSession, database, counters
<1>6. CASE Shutdown
    BY <1>1, <1>6, ConnectionKeeps DEF Shutdown, database, connection
<1>7. ASSUME NEW r \in ConductorRequests, Send(r) PROVE ControlInv'
    <2>1. inbox' \in Seq(ConductorRequests)
        BY <1>1, <1>7 DEF Send
    <2> QED BY <1>1, <1>7, <2>1, ConnectionKeeps DEF Send, database
<1>8. ASSUME NEW how \in {"closed", "silent"}, CutLink(how) PROVE ControlInv'
    BY <1>1, <1>8, ConnectionKeeps DEF CutLink, database
<1> QED BY <1>3, <1>4, <1>5, <1>6, <1>7, <1>8

\* A step of the request of h that does not touch the connection: what is left to show is where h goes and
\* what is still owed there.
LEMMA Moves ==
    ASSUME ControlInv, Track, RowsOk', RowStep, tasks' \in [Managed -> 0..MaxTasks], clock' \in 0..MaxClock,
           UNCHANGED <<session, link, inbox, stopping>>, NEW h \in Handlers, NEW k \in HandlerState,
           handler' = [handler EXCEPT ![h] = k], handler[h].at # "idle", k.at # "idle", k.req = handler[h].req,
           (\A d \in due'[h] : d \in due[h] /\ Owed(d, handler[h].req, rows'[d.id])) => Progress(k, due'[h])
    PROVE  ControlInv'
<1>1. StateOk /\ handler \in [Handlers -> HandlerState] /\ HandlerInv(h)
    BY DEF ControlInv, StateOk
<1>2. /\ handler' \in [Handlers -> HandlerState] /\ handler'[h] = k
      /\ \A g \in Handlers \ {h} : handler'[g] = handler[g]
    BY <1>1
<1>3. StateOk'
    BY <1>1, <1>2, StateNext DEF StateOk
<1>4. HandlerInv(h)'
    BY <1>1, <1>2, HandlerMoves
<1> QED BY <1>2, <1>3, <1>4, OwnStep

\* The same for a step that reads only.
LEMMA Reads ==
    ASSUME ControlInv, Track, UNCHANGED <<rows, tasks, clock, session, link, inbox, stopping>>,
           NEW h \in Handlers, NEW k \in HandlerState,
           handler' = [handler EXCEPT ![h] = k], handler[h].at # "idle", k.at # "idle", k.req = handler[h].req,
           (\A d \in due'[h] : d \in due[h] /\ Owed(d, handler[h].req, rows[d.id])) => Progress(k, due'[h])
    PROVE  ControlInv'
<1>1. RowsOk' /\ RowStep
    BY RowsKept DEF ControlInv, StateOk
<1>2. tasks' \in [Managed -> 0..MaxTasks] /\ clock' \in 0..MaxClock
    BY DEF ControlInv, StateOk
<1> QED BY <1>1, <1>2, Moves

LEMMA ObligedOwed ==
    ASSUME NEW r \in Requests, NEW d \in Obliged(r), ~Settled(d.want, rows[d.id])
    PROVE  Owed(d, r, rows[d.id])
<1>1. /\ r.type \in Types /\ r.ids \subseteq Managed
      /\ r.type # "retention" => r.gc_cutoff = {} /\ r.timeout_cutoff = {}
      /\ r.type \in {"recovery", "retention"} => r.ids = {}
    BY RequestFields
<1>2. CASE d \in {[id |-> w, want |-> r.type] : w \in Existing \cap r.ids}
    <2>1. d.id \in r.ids /\ d.want = r.type
        BY <1>2
    <2>2. r.type \in {"cancel", "resume", "delete"}
        BY <1>1, <2>1 DEF Types
    <2> QED BY <1>1, <2>1, <2>2 DEF Owed
<1>3. CASE d \in {[id |-> w, want |-> "cancel"] : w \in {v \in Existing : rows[v].status \in Active
                                                       /\ \E c \in r.timeout_cutoff : rows[v].created_at <= c}}
    <2>1. d.id \in Existing /\ d.want = "cancel" /\ rows[d.id].status \in Active /\ \E c \in r.timeout_cutoff : rows[d.id].created_at <= c
        BY <1>3
    <2>2. r.type = "retention" /\ d.id \in Managed
        BY <1>1, <2>1 DEF Existing
    <2> QED BY <2>1, <2>2 DEF Owed
<1>4. CASE d \in {[id |-> w, want |-> "collect"] : w \in {v \in Existing : rows[v].status \notin Active
                                                        /\ \E c \in r.gc_cutoff : rows[v].created_at < c}}
    <2>1. d.id \in Existing /\ d.want = "collect" /\ rows[d.id].status \notin Active /\ \E c \in r.gc_cutoff : rows[d.id].created_at < c
        BY <1>4
    <2>2. r.type = "retention" /\ d.id \in Managed /\ rows[d.id].status \notin Active \cup {"ABSENT"}
        BY <1>1, <2>1 DEF Existing
    <2> QED BY <2>1, <2>2 DEF Owed
<1> QED BY <1>2, <1>3, <1>4 DEF Obliged

LEMMA BeginFields ==
    ASSUME NEW r \in Requests
    PROVE  /\ Begin(r) \in HandlerState /\ Begin(r).at = FirstStatement(r) /\ Begin(r).req = r
           /\ Begin(r).cutoff = r.gc_cutoff /\ Begin(r).keep = {} /\ Begin(r).ok = TRUE
           /\ FirstStatement(r) \in {"list_pending", "statement", "gc_rows", "gc_delete", "list_active", "reply"}
<1>1. FirstStatement(r) \in {"list_pending", "statement", "gc_rows", "gc_delete", "list_active", "reply"}
    BY DEF FirstStatement, TimeoutOrReply
<1>2. r.gc_cutoff \in SUBSET Nat
    BY RequestFields
<1> QED BY <1>1, <1>2 DEF Begin, Idle, HandlerState, Places

\* What a request owes when it has nothing to wait for.
LEMMA NothingOwed ==
    ASSUME NEW r, NEW d, NEW row, Owed(d, r, row), r.type \notin {"cancel", "resume", "delete"}
    PROVE  /\ r.type = "retention"
           /\ r.gc_cutoff = {} => d.want = "cancel"
           /\ r.timeout_cutoff = {} => d.want = "collect"
           /\ d.want \in {"cancel", "collect"}
BY DEF Owed

LEMMA BeginProgress ==
    ASSUME NEW r \in Requests, NEW S, \A d \in S : Owed(d, r, rows[d.id]),
           NEW k, k.at = FirstStatement(r), k.req = r, k.cutoff = r.gc_cutoff, k.keep = {}
    PROVE  Progress(k, S)
<1>1. r.type \in Types /\ r.gc_cutoff \subseteq Nat /\ \A m, n \in r.gc_cutoff : m = n
    BY RequestFields
<1>2. CASE r.type = "recovery"
    BY <1>2 DEF Progress, FirstStatement
<1>3. CASE r.type \in {"cancel", "resume", "delete"}
    <2>1. k.at = "statement"
        BY <1>3 DEF FirstStatement
    <2> QED BY <1>3, <2>1 DEF Progress
<1>4. CASE r.type = "retention"
    <2>1. CASE r.gc_rows \ {0} # {}
        <3>1. k.at = "gc_rows"
            BY <1>4, <2>1 DEF FirstStatement
        <3> QED BY <1>4, <2>1, <3>1 DEF Progress
    <2>2. CASE r.gc_rows \ {0} = {} /\ r.gc_cutoff # {}
        <3>1. k.at = "gc_delete"
            BY <1>4, <2>2 DEF FirstStatement
        <3>2. PICK x \in Nat : r.gc_cutoff = {x}
            BY <1>1, <2>2
        <3>3. CutoffOk(k)
            BY <3>2 DEF CutoffOk
        <3> QED BY <1>4, <3>1, <3>3 DEF Progress
    <2>3. CASE r.gc_rows \ {0} = {} /\ r.gc_cutoff = {}
        <3>1. k.at = IF r.timeout_cutoff = {} THEN "reply" ELSE "list_active"
            BY <1>4, <2>3 DEF FirstStatement, TimeoutOrReply
        <3>2. \A d \in S : d.want = "cancel" /\ r.timeout_cutoff # {}
            BY <1>4, <2>3, NothingOwed
        <3>3. CASE r.timeout_cutoff = {}
            BY <3>1, <3>2, <3>3 DEF Progress
        <3>4. CASE r.timeout_cutoff # {}
            <4>1. k.at = "list_active"
                BY <3>1, <3>4
            <4> QED BY <1>4, <3>2, <3>4, <4>1 DEF Progress
        <3> QED BY <3>3, <3>4
    <2> QED BY <2>1, <2>2, <2>3
<1> QED BY <1>1, <1>2, <1>3, <1>4 DEF Types

\* A request arrives at a handler that is free.
LEMMA BeginKeeps ==
    ASSUME ControlInv, Track, UNCHANGED <<rows, tasks, clock, session, link, stopping>>,
           inbox' \in Seq(ConductorRequests), NEW h \in Handlers, NEW r \in Requests, handler[h].at = "idle",
           handler' = [handler EXCEPT ![h] = Begin(r)]
    PROVE  ControlInv'
<1>1. StateOk /\ RowsOk /\ handler \in [Handlers -> HandlerState]
    BY DEF ControlInv, StateOk
<1>2. RowsOk' /\ RowStep
    BY <1>1, RowsKept
<1>3. PICK k \in HandlerState : /\ k = Begin(r) /\ k.at = FirstStatement(r) /\ k.req = r
                                /\ k.cutoff = r.gc_cutoff /\ k.keep = {} /\ k.at # "idle"
    BY BeginFields
<1>4. /\ handler' \in [Handlers -> HandlerState] /\ handler'[h] = k
      /\ \A g \in Handlers \ {h} : handler'[g] = handler[g]
    BY <1>1, <1>3
<1>5. StateOk'
    BY <1>1, <1>2, <1>4, StateNext DEF StateOk
<1>6. \A d \in due'[h] : d \in Obliged(r) /\ ~Settled(d.want, rows[d.id])
    <2>1. due'[h] = {d \in Obliged(handler'[h].req) : handler'[h].at # "idle" /\ ~Settled(d.want, rows'[d.id])}
        BY DEF Track
    <2>2. handler'[h].req = r
        BY <1>3, <1>4
    <2> QED BY <2>1, <2>2
<1>7. \A d \in due'[h] : Owed(d, r, rows[d.id])
    BY <1>6, ObligedOwed
<1>8. Progress(k, due'[h])
    BY <1>3, <1>7, BeginProgress
<1>9. HandlerInv(h)'
    BY <1>3, <1>4, <1>7, <1>8, HandlerNext
<1> QED BY <1>2, <1>4, <1>5, <1>9, OwnStep

LEMMA ReceiveKeeps ==
    ASSUME ControlInv, Track, Receive
    PROVE  ControlInv'
<1>1. inbox \in Seq(ConductorRequests) /\ inbox # << >>
    BY DEF ControlInv, StateOk, Receive
<1>2. Tail(inbox) \in Seq(ConductorRequests)
    BY <1>1
<1>3. PICK r \in Requests : r = Head(inbox)
    BY <1>1 DEF Requests
<1>4. /\ handler["conductor"].at = "idle" /\ handler' = [handler EXCEPT !["conductor"] = Begin(r)]
      /\ inbox' = Tail(inbox) /\ UNCHANGED <<rows, tasks, clock, session, link, stopping>>
    BY <1>3 DEF Receive, database, counters
<1>5. "conductor" \in Handlers
    BY DEF Handlers
<1> QED BY <1>2, <1>4, <1>5, BeginKeeps

LEMMA AdminCallKeeps ==
    ASSUME ControlInv, Track, NEW r \in AdminRequests, AdminCall(r)
    PROVE  ControlInv'
<1>1. inbox \in Seq(ConductorRequests) /\ r \in Requests
    BY DEF ControlInv, StateOk, Requests
<1>4. /\ handler["admin"].at = "idle" /\ handler' = [handler EXCEPT !["admin"] = Begin(r)]
      /\ UNCHANGED <<rows, tasks, clock, session, link, inbox, stopping>>
    BY DEF AdminCall, database, connection
<1>5. "admin" \in Handlers
    BY DEF Handlers
<1> QED BY <1>1, <1>4, <1>5, BeginKeeps

\* A request is answered.
LEMMA AnswerKeeps ==
    ASSUME ControlInv, Track, UNCHANGED <<rows, tasks, clock, link, stopping>>,
           session' \in {"waiting", "connected", "stopped"}, inbox' \in Seq(ConductorRequests),
           NEW h \in Handlers, handler[h].at = "reply", handler' = [handler EXCEPT ![h] = Idle]
    PROVE  ControlInv'
<1>1. StateOk /\ RowsOk /\ handler \in [Handlers -> HandlerState]
    BY DEF ControlInv, StateOk
<1>2. RowsOk' /\ RowStep
    BY <1>1, RowsKept
<1>4. /\ handler' \in [Handlers -> HandlerState] /\ handler'[h] = Idle
      /\ \A g \in Handlers \ {h} : handler'[g] = handler[g]
    BY <1>1, IdleHandler
<1>5. StateOk'
    BY <1>1, <1>2, <1>4, StateNext DEF StateOk
<1>6. due'[h] = {}
    BY <1>4, IdleHandler, DueShrinks
<1>7. handler'[h].at = "idle"
    BY <1>4, IdleHandler
<1>8. HandlerInv(h)'
    BY <1>4, <1>6, <1>7, HandlerNext
<1> QED BY <1>2, <1>4, <1>5, <1>8, OwnStep

LEMMA ReplyKeeps ==
    ASSUME ControlInv, Track, Reply \/ AdminReply
    PROVE  ControlInv'
<1>1. inbox \in Seq(ConductorRequests) /\ session \in {"waiting", "connected", "stopped"}
    BY DEF ControlInv, StateOk
<1>2. "conductor" \in Handlers /\ "admin" \in Handlers
    BY DEF Handlers
<1>3. CASE Reply
    <2>1. /\ handler["conductor"].at = "reply" /\ handler' = [handler EXCEPT !["conductor"] = Idle]
          /\ UNCHANGED <<rows, tasks, clock, link, stopping>>
        BY <1>3 DEF Reply, database, counters
    <2>2. session' \in {"waiting", "connected", "stopped"} /\ inbox' \in Seq(ConductorRequests)
        <3>1. << >> \in Seq(ConductorRequests)
            OBVIOUS
        <3>2. \/ session' = "waiting" /\ inbox' = << >>
              \/ session' = session /\ inbox' = inbox
            BY <1>3 DEF Reply
        <3> QED BY <1>1, <3>1, <3>2
    <2> QED BY <1>2, <2>1, <2>2, AnswerKeeps
<1>4. CASE AdminReply
    <2>1. /\ handler["admin"].at = "reply" /\ handler' = [handler EXCEPT !["admin"] = Idle]
          /\ UNCHANGED <<rows, tasks, clock, session, link, inbox, stopping>>
        BY <1>4 DEF AdminReply, database, connection, counters
    <2> QED BY <1>1, <1>2, <2>1, AnswerKeeps
<1> QED BY <1>3, <1>4

LEMMA GotoFields ==
    ASSUME ControlInv, NEW h \in Handlers, NEW at \in Places, Goto(h, at)
    PROVE  \E k \in HandlerState :
               /\ handler' = [handler EXCEPT ![h] = k] /\ k.at = at
               /\ k.req = handler[h].req /\ k.cutoff = handler[h].cutoff /\ k.ok = handler[h].ok
<1>1. handler[h] \in HandlerState /\ handler \in [Handlers -> HandlerState]
    BY DEF ControlInv, StateOk
<1> DEFINE k == [handler[h] EXCEPT !.at = at]
<1>2. k \in HandlerState /\ k.at = at /\ k.req = handler[h].req /\ k.cutoff = handler[h].cutoff /\ k.ok = handler[h].ok
    BY <1>1 DEF HandlerState, Places
<1>3. handler' = [handler EXCEPT ![h] = k]
    BY <1>1 DEF Goto
<1> HIDE DEF k
<1> QED BY <1>2, <1>3

LEMMA Unchanging ==
    ASSUME ControlInv
    PROVE  tasks \in [Managed -> 0..MaxTasks] /\ clock \in 0..MaxClock /\ RowsOk
BY DEF ControlInv, StateOk

LEMMA StatementKeeps ==
    ASSUME ControlInv, Track, NEW h \in Handlers, Statement(h)
    PROVE  ControlInv'
<1> DEFINE r == handler[h].req
<1>1. handler[h].at = "statement" /\ Goto(h, "reply") /\ UNCHANGED <<tasks, clock, session, link, inbox, stopping>>
    BY DEF Statement, connection, counters
<1>2. PICK k \in HandlerState : handler' = [handler EXCEPT ![h] = k] /\ k.at = "reply" /\ k.req = r
    BY <1>1, GotoFields DEF Places
<1>3. RowsOk' /\ RowStep /\ ~\E d : Owed(d, r, rows'[d.id])
    <2>1. RowsOk
        BY Unchanging
    <2>2. CASE r.type = "cancel" /\ rows' = Cancelled(r.ids)
        <3>1. RowsOk' /\ RowStep /\ \A w \in Managed \cap r.ids : rows'[w].status \notin Active
            BY <2>1, <2>2, CancelledRows
        <3>2. ASSUME NEW d, Owed(d, r, rows'[d.id]) PROVE FALSE
            <4>1. d.want = "cancel" /\ d.id \in Managed \cap r.ids /\ ~Settled(d.want, rows'[d.id])
                BY <2>2, <3>2 DEF Owed
            <4> QED BY <3>1, <4>1 DEF Settled
        <3> QED BY <3>1, <3>2
    <2>3. CASE r.type = "resume" /\ rows' = Resumed(r.ids)
        <3>1. RowsOk' /\ RowStep /\ \A w \in Managed \cap r.ids : rows'[w].status # "CANCELLED"
            BY <2>1, <2>3, ResumedRows
        <3>2. ASSUME NEW d, Owed(d, r, rows'[d.id]) PROVE FALSE
            <4>1. d.want = "resume" /\ d.id \in Managed \cap r.ids /\ ~Settled(d.want, rows'[d.id])
                BY <2>3, <3>2 DEF Owed
            <4> QED BY <3>1, <4>1 DEF Settled
        <3> QED BY <3>1, <3>2
    <2>4. CASE r.type = "delete" /\ rows' = Deleted(r.ids)
        <3>1. RowsOk' /\ RowStep /\ \A w \in Managed : w \in r.ids => rows'[w].status = "ABSENT"
            BY <2>1, <2>4, DeletedRows
        <3>2. ASSUME NEW d, Owed(d, r, rows'[d.id]) PROVE FALSE
            <4>1. d.want = "delete" /\ d.id \in Managed /\ d.id \in r.ids /\ ~Settled(d.want, rows'[d.id])
                BY <2>4, <3>2 DEF Owed
            <4> QED BY <3>1, <4>1 DEF Settled
        <3> QED BY <3>1, <3>2
    <2> QED BY <2>2, <2>3, <2>4 DEF Statement
<1>4. ASSUME \A d \in due'[h] : d \in due[h] /\ Owed(d, handler[h].req, rows'[d.id]) PROVE Progress(k, due'[h])
    <2>1. due'[h] = {}
        BY <1>3, <1>4
    <2> QED BY <1>2, <2>1 DEF Progress
<1>5. tasks' \in [Managed -> 0..MaxTasks] /\ clock' \in 0..MaxClock
    BY <1>1, Unchanging
<1> QED BY <1>1, <1>2, <1>3, <1>4, <1>5, Moves

\* A recovery owes nothing.
LEMMA RecoveryOwesNothing ==
    ASSUME NEW r, r.type = "recovery", NEW d, NEW row
    PROVE  ~Owed(d, r, row)
BY DEF Owed

LEMMA RecoveryProgress ==
    ASSUME NEW k, k.req.type = "recovery", k.at \in {"recover", "reply"}
    PROVE  Progress(k, {})
BY DEF Progress

\* A step of a recovery: where it goes is all that matters.
LEMMA RecoveryMoves ==
    ASSUME ControlInv, Track, RowsOk', RowStep, tasks' \in [Managed -> 0..MaxTasks], clock' \in 0..MaxClock,
           UNCHANGED <<session, link, inbox, stopping>>, NEW h \in Handlers, NEW k \in HandlerState,
           handler' = [handler EXCEPT ![h] = k], handler[h].at \in {"list_pending", "recover"}, k.at \in {"recover", "reply"},
           k.req = handler[h].req
    PROVE  ControlInv'
<1>1. handler[h].req.type = "recovery"
    BY DEF ControlInv, HandlerInv, Progress
<1>2. ASSUME \A d \in due'[h] : d \in due[h] /\ Owed(d, handler[h].req, rows'[d.id]) PROVE Progress(k, due'[h])
    <2>1. due'[h] = {}
        BY <1>1, <1>2, RecoveryOwesNothing
    <2> QED BY <1>1, <2>1, RecoveryProgress
<1> QED BY <1>2, Moves

LEMMA ListPendingKeeps ==
    ASSUME ControlInv, Track, NEW h \in Handlers, ListPending(h)
    PROVE  ControlInv'
<1>1. handler[h].at = "list_pending" /\ UNCHANGED <<rows, tasks, clock, session, link, inbox, stopping>>
    BY DEF ListPending, database, connection, counters
<1>2. handler[h] \in HandlerState /\ handler \in [Handlers -> HandlerState] /\ rows \in [Managed -> ManagedRow]
    BY DEF ControlInv, StateOk, RowsOk
<1> DEFINE pending == {[id |-> w, queued |-> rows[w].queued] :
                          w \in {v \in Managed : rows[v].status = "PENDING" /\ rows[v].owner \in handler[h].req.executors}}
           k == [handler[h] EXCEPT !.at = "recover", !.pending = pending]
<1>3. pending \in SUBSET [id : Managed, queued : BOOLEAN]
    BY <1>2 DEF ManagedRow
<1>4. handler' = [handler EXCEPT ![h].at = "recover", ![h].pending = pending]
    BY DEF ListPending
<1> HIDE DEF pending
<1>5. handler' = [handler EXCEPT ![h] = k]
    BY <1>2, <1>4
<1>6. k \in HandlerState /\ k.at = "recover" /\ k.req = handler[h].req
    BY <1>2, <1>3 DEF HandlerState, Places
<1> HIDE DEF k
<1>7. RowsOk' /\ RowStep /\ tasks' \in [Managed -> 0..MaxTasks] /\ clock' \in 0..MaxClock
    BY <1>1, Unchanging, RowsKept
<1> QED BY <1>1, <1>5, <1>6, <1>7, RecoveryMoves

LEMMA RecoveredKeeps ==
    ASSUME ControlInv, Track, NEW h \in Handlers, Recovered(h)
    PROVE  ControlInv'
<1>1. handler[h].at = "recover" /\ Goto(h, "reply") /\ UNCHANGED <<rows, tasks, clock, session, link, inbox, stopping>>
    BY DEF Recovered, database, connection, counters
<1>2. PICK k \in HandlerState : handler' = [handler EXCEPT ![h] = k] /\ k.at = "reply" /\ k.req = handler[h].req
    BY <1>1, GotoFields DEF Places
<1>3. RowsOk' /\ RowStep /\ tasks' \in [Managed -> 0..MaxTasks] /\ clock' \in 0..MaxClock
    BY <1>1, Unchanging, RowsKept
<1> QED BY <1>1, <1>2, <1>3, RecoveryMoves

\* A workflow of the list is done with.
LEMMA PendingLess ==
    ASSUME ControlInv, NEW h \in Handlers, NEW p, handler[h].at = "recover",
           handler' = [handler EXCEPT ![h].pending = @ \ {p}]
    PROVE  \E k \in HandlerState : handler' = [handler EXCEPT ![h] = k] /\ k.at = "recover" /\ k.req = handler[h].req
<1>1. handler[h] \in HandlerState /\ handler \in [Handlers -> HandlerState]
    BY DEF ControlInv, StateOk
<1> DEFINE k == [handler[h] EXCEPT !.pending = @ \ {p}]
<1>2. k \in HandlerState /\ k.at = "recover" /\ k.req = handler[h].req
    BY <1>1 DEF HandlerState, Places
<1>3. handler' = [handler EXCEPT ![h] = k]
    BY <1>1
<1> HIDE DEF k
<1> QED BY <1>2, <1>3

LEMMA SkipOneKeeps ==
    ASSUME ControlInv, Track, NEW h \in Handlers, NEW p, SkipOne(h, p)
    PROVE  ControlInv'
<1>1. /\ handler[h].at = "recover" /\ handler' = [handler EXCEPT ![h].pending = @ \ {p}]
      /\ UNCHANGED <<rows, tasks, clock, session, link, inbox, stopping>>
    BY DEF SkipOne, database, connection, counters
<1>2. PICK k \in HandlerState : handler' = [handler EXCEPT ![h] = k] /\ k.at = "recover" /\ k.req = handler[h].req
    BY <1>1, PendingLess
<1>3. RowsOk' /\ RowStep /\ tasks' \in [Managed -> 0..MaxTasks] /\ clock' \in 0..MaxClock
    BY <1>1, Unchanging, RowsKept
<1> QED BY <1>1, <1>2, <1>3, RecoveryMoves

LEMMA RecoverOneKeeps ==
    ASSUME ControlInv, Track, NEW h \in Handlers, NEW p \in handler[h].pending,
           RecoverOne(h, p)
    PROVE  ControlInv'
<1> DEFINE w == p.id
<1>1. /\ handler[h].at = "recover" /\ handler' = [handler EXCEPT ![h].pending = @ \ {p}]
      /\ UNCHANGED <<session, link, inbox, stopping>>
    BY DEF RecoverOne, connection, counters
<1>2. PICK k \in HandlerState : handler' = [handler EXCEPT ![h] = k] /\ k.at = "recover" /\ k.req = handler[h].req
    BY <1>1, PendingLess
<1>3. RowsOk /\ tasks \in [Managed -> 0..MaxTasks] /\ clock \in 0..MaxClock /\ rows \in [Managed -> ManagedRow]
    BY Unchanging DEF RowsOk
<1>4. w \in Managed
    <2>1. handler[h] \in HandlerState
        BY DEF ControlInv, StateOk
    <2> QED BY <2>1 DEF HandlerState, Places
<1>5. \/ rows' = rows /\ UNCHANGED <<tasks, clock>>
      \/ rows[w].status = "PENDING" /\ rows' = [rows EXCEPT ![w].status = "ENQUEUED"] /\ UNCHANGED <<tasks, clock>>
      \/ rows[w].status # "ABSENT" /\ rows' = [rows EXCEPT ![w].owner = "me"] /\ UNCHANGED <<tasks, clock>>
      \/ /\ rows[w].status # "ABSENT" /\ rows' = [rows EXCEPT ![w].owner = "me"]
         /\ tasks[w] < MaxTasks /\ tasks' = [tasks EXCEPT ![w] = @ + 1] /\ clock' = clock
      \/ /\ rows[w].status = "ABSENT" /\ rows' = [rows EXCEPT ![w] = NewRow("me")]
         /\ tasks[w] < MaxTasks /\ tasks' = [tasks EXCEPT ![w] = @ + 1] /\ clock < MaxClock /\ clock' = clock + 1
    BY DEF RecoverOne
<1> HIDE DEF w
<1>6. tasks' \in [Managed -> 0..MaxTasks] /\ clock' \in 0..MaxClock
    BY <1>3, <1>4, <1>5, Limits
<1>7. RowsOk' /\ RowStep
    <2>0. rows[w] \in ManagedRow /\ "ENQUEUED" \in Statuses /\ "me" \in {"me", "dead"}
        BY <1>3, <1>4 DEF Statuses
    <2>1. CASE rows' = rows
        BY <1>3, <2>1, RowsKept
    <2>2. CASE rows' = [rows EXCEPT ![w].status = "ENQUEUED"]
        <3> DEFINE new == [rows[w] EXCEPT !.status = "ENQUEUED"]
        <3>1. new \in ManagedRow /\ new.status = "ENQUEUED" /\ new.created_at = rows[w].created_at
            BY <2>0, StatusSet
        <3>2. rows' = [rows EXCEPT ![w] = new]
            BY <1>3, <1>4, <2>2
        <3> HIDE DEF new
        <3> QED BY <1>3, <1>4, <3>1, <3>2, OneRow
    <2>3. CASE rows[w].status # "ABSENT" /\ rows' = [rows EXCEPT ![w].owner = "me"]
        <3> DEFINE new == [rows[w] EXCEPT !.owner = "me"]
        <3>1. new \in ManagedRow /\ new.status = rows[w].status /\ new.created_at = rows[w].created_at
            BY <2>0, OwnerSet
        <3>2. rows' = [rows EXCEPT ![w] = new]
            BY <1>3, <1>4, <2>3
        <3> HIDE DEF new
        <3> QED BY <1>3, <1>4, <2>3, <3>1, <3>2, OneRow
    <2>4. CASE rows[w].status = "ABSENT" /\ rows' = [rows EXCEPT ![w] = NewRow("me")] /\ clock < MaxClock
        <3>1. clock + 1 \in 0..MaxClock
            BY <1>3, <2>4, Limits
        <3>2. NewRow("me") \in ManagedRow /\ NewRow("me").status = "PENDING"
            BY <2>0, <3>1, InsertedRow
        <3> QED BY <1>3, <1>4, <2>4, <3>2, OneRow
    <2> QED BY <1>5, <2>1, <2>2, <2>3, <2>4
<1> QED BY <1>1, <1>2, <1>6, <1>7, RecoveryMoves

\* After a garbage collection that owes nothing any more.
LEMMA AfterCollection ==
    ASSUME NEW k, NEW S, k.at = TimeoutOrReply(k.req), k.req.type = "retention",
           \A d \in S : \E row : Owed(d, k.req, row) /\ d.want # "collect"
    PROVE  Progress(k, S)
<1>1. \A d \in S : d.want = "cancel" /\ k.req.timeout_cutoff # {}
    BY NothingOwed
<1>2. CASE k.req.timeout_cutoff = {}
    BY <1>1, <1>2 DEF TimeoutOrReply, Progress
<1>3. CASE k.req.timeout_cutoff # {}
    <2>1. k.at = "list_active"
        BY <1>3 DEF TimeoutOrReply
    <2> QED BY <1>1, <1>3, <2>1 DEF Progress
<1> QED BY <1>2, <1>3

LEMMA NextPlace == ASSUME NEW r PROVE TimeoutOrReply(r) \in Places /\ TimeoutOrReply(r) # "idle"
BY DEF TimeoutOrReply, Places

LEMMA RowNumbers ==
    ASSUME RowsOk, NEW w \in Managed
    PROVE  rows[w].created_at \in Nat /\ (rows[w].status # "ABSENT" => w \in Existing)
BY DEF RowsOk, ManagedRow, Existing

LEMMA DeleteOldKeeps ==
    ASSUME ControlInv, Track, NEW h \in Handlers, DeleteOld(h)
    PROVE  ControlInv'
<1> DEFINE r == handler[h].req
<1>1. /\ handler[h].at = "gc_delete" /\ Goto(h, TimeoutOrReply(r))
      /\ UNCHANGED <<tasks, clock, session, link, inbox, stopping>>
    BY DEF DeleteOld, connection, counters
<1>2. PICK k \in HandlerState : handler' = [handler EXCEPT ![h] = k] /\ k.at = TimeoutOrReply(r) /\ k.req = r
    BY <1>1, NextPlace, GotoFields
<1>3. k.at # "idle"
    BY <1>2, NextPlace
<1>4. r.type = "retention" /\ CutoffOk(handler[h]) /\ r \in Requests
    BY <1>1 DEF ControlInv, HandlerInv, Progress
<1>5. PICK x \in Nat : handler[h].cutoff = {x} /\ \A c \in r.gc_cutoff : c <= x
    BY <1>4 DEF CutoffOk
<1>6. (CHOOSE c \in handler[h].cutoff : TRUE) = x
    BY <1>5
<1> DEFINE old == {w \in Existing : IsOld(rows[w], x) /\ rows[w].status \notin Active}
<1>7. rows' = Deleted(old)
    BY <1>6 DEF DeleteOld
<1>8. RowsOk
    BY Unchanging
<1>9. RowsOk' /\ RowStep /\ (\A w \in Managed : w \in old => rows'[w].status = "ABSENT") /\ \A w \in Managed : w \notin old => rows'[w] = rows[w]
    <2> HIDE DEF old
    <2> QED BY <1>7, <1>8, DeletedRows
<1>10. ASSUME NEW d, Owed(d, r, rows'[d.id]) PROVE d.want # "collect"
    <2>1. SUFFICES ASSUME d.want = "collect" PROVE FALSE
        OBVIOUS
    <2>2. /\ d.id \in Managed /\ rows'[d.id].status \notin Active \cup {"ABSENT"}
          /\ \E c \in r.gc_cutoff : rows'[d.id].created_at < c
        BY <1>4, <1>10, <2>1 DEF Owed
    <2>3. d.id \notin old /\ rows'[d.id] = rows[d.id]
        BY <1>9, <2>2
    <2>4. rows[d.id].created_at \in Nat /\ d.id \in Existing
        BY <1>8, <2>2, <2>3, RowNumbers
    <2>5. PICK c \in r.gc_cutoff : rows[d.id].created_at < c
        BY <2>2, <2>3
    <2>6. c \in Nat /\ c <= x
        BY <1>4, <1>5, RequestFields
    <2>7. rows[d.id].created_at < x
        BY <2>4, <2>5, <2>6
    <2> QED BY <2>2, <2>3, <2>4, <2>7 DEF IsOld
<1>11. ASSUME \A d \in due'[h] : d \in due[h] /\ Owed(d, handler[h].req, rows'[d.id]) PROVE Progress(k, due'[h])
    BY <1>2, <1>4, <1>10, <1>11, AfterCollection
<1>12. tasks' \in [Managed -> 0..MaxTasks] /\ clock' \in 0..MaxClock
    BY <1>1, Unchanging
<1> QED BY <1>1, <1>2, <1>3, <1>9, <1>11, <1>12, Moves

LEMMA ListActiveKeeps ==
    ASSUME ControlInv, Track, NEW h \in Handlers, ListActive(h)
    PROVE  ControlInv'
<1> DEFINE r == handler[h].req
           todo == ActiveBefore(CHOOSE c \in r.timeout_cutoff : TRUE)
           k == [handler[h] EXCEPT !.at = IF todo = {} THEN "reply" ELSE "cancel_listed", !.todo = todo]
<1>1. handler[h].at = "list_active" /\ UNCHANGED <<rows, tasks, clock, session, link, inbox, stopping>>
    BY DEF ListActive, database, connection, counters
<1>2. handler[h] \in HandlerState /\ handler \in [Handlers -> HandlerState]
    BY DEF ControlInv, StateOk
<1>3. r \in Requests /\ r.type = "retention" /\ r.timeout_cutoff # {} /\ \A d \in due[h] : d.want = "cancel"
    BY <1>1 DEF ControlInv, HandlerInv, Progress
<1>4. PICK x \in Nat : r.timeout_cutoff = {x}
    BY <1>3, RequestFields
<1>5. todo = ActiveBefore(x)
    BY <1>4
<1>6. handler' = [handler EXCEPT ![h].at = IF todo = {} THEN "reply" ELSE "cancel_listed", ![h].todo = todo]
    BY DEF ListActive
<1>7. todo \in SUBSET Managed /\ \A w \in Managed : rows[w].status \in Active /\ rows[w].created_at <= x => w \in todo
    BY <1>5 DEF ActiveBefore
<1> HIDE DEF todo
<1>8. handler' = [handler EXCEPT ![h] = k]
    BY <1>2, <1>6
<1>9. k \in HandlerState /\ k.at = (IF todo = {} THEN "reply" ELSE "cancel_listed") /\ k.req = r /\ k.todo = todo
    BY <1>2, <1>7 DEF HandlerState, Places
<1> HIDE DEF k
<1>10. ASSUME \A d \in due'[h] : d \in due[h] /\ Owed(d, handler[h].req, rows[d.id]) PROVE Progress(k, due'[h])
    <2>1. \A d \in due'[h] : d.want = "cancel" /\ d.id \in todo
        <3> SUFFICES ASSUME NEW d \in due'[h] PROVE d.want = "cancel" /\ d.id \in todo
            OBVIOUS
        <3>1. d.want = "cancel" /\ Owed(d, r, rows[d.id])
            BY <1>3, <1>10
        <3>2. d.id \in Managed /\ rows[d.id].status \in Active /\ \E c \in r.timeout_cutoff : rows[d.id].created_at <= c
            BY <1>3, <3>1 DEF Owed
        <3> QED BY <1>4, <1>7, <3>1, <3>2
    <2>2. CASE todo = {}
        <3>1. due'[h] = {}
            BY <2>1, <2>2
        <3> QED BY <1>9, <2>2, <3>1 DEF Progress
    <2>3. CASE todo # {}
        <3>1. k.at = "cancel_listed"
            BY <1>9, <2>3
        <3> QED BY <1>3, <1>9, <2>1, <3>1 DEF Progress
    <2> QED BY <2>2, <2>3
<1>11. k.at # "idle"
    BY <1>9
<1> QED BY <1>1, <1>8, <1>9, <1>10, <1>11, Reads

LEMMA CancelListedKeeps ==
    ASSUME ControlInv, Track, NEW h \in Handlers, CancelListed(h)
    PROVE  ControlInv'
<1> DEFINE k == [handler[h] EXCEPT !.at = "reply", !.todo = {}]
<1>1. /\ handler[h].at = "cancel_listed" /\ rows' = Cancelled(handler[h].todo)
      /\ UNCHANGED <<tasks, clock, session, link, inbox, stopping>>
    BY DEF CancelListed, connection, counters
<1>2. handler[h] \in HandlerState /\ handler \in [Handlers -> HandlerState]
    BY DEF ControlInv, StateOk
<1>3. handler[h].req.type = "retention" /\ \A d \in due[h] : d.want = "cancel" /\ d.id \in handler[h].todo
    BY <1>1 DEF ControlInv, HandlerInv, Progress
<1>4. handler' = [handler EXCEPT ![h] = k]
    BY <1>2 DEF CancelListed
<1>5. k \in HandlerState /\ k.at = "reply" /\ k.req = handler[h].req
    BY <1>2 DEF HandlerState, Places
<1> HIDE DEF k
<1>6. RowsOk' /\ RowStep /\ \A w \in Managed \cap handler[h].todo : rows'[w].status \notin Active
    BY <1>1, CancelledRows, Unchanging
<1>7. ASSUME \A d \in due'[h] : d \in due[h] /\ Owed(d, handler[h].req, rows'[d.id]) PROVE Progress(k, due'[h])
    <2>1. ASSUME NEW d \in due'[h] PROVE FALSE
        <3>1. d.want = "cancel" /\ d.id \in handler[h].todo /\ Owed(d, handler[h].req, rows'[d.id])
            BY <1>3, <1>7, <2>1
        <3>2. d.id \in Managed /\ rows'[d.id].status \in Active
            BY <1>3, <3>1 DEF Owed
        <3> QED BY <1>6, <3>1, <3>2
    <2>2. due'[h] = {}
        BY <2>1
    <2> QED BY <1>5, <2>2 DEF Progress
<1>8. tasks' \in [Managed -> 0..MaxTasks] /\ clock' \in 0..MaxClock
    BY <1>1, Unchanging
<1> QED BY <1>1, <1>4, <1>5, <1>6, <1>7, <1>8, Moves

LEMMA StatementFailsKeeps ==
    ASSUME ControlInv, Track, NEW h \in Handlers, StatementFails(h)
    PROVE  ControlInv'
<1> DEFINE k == [handler[h] EXCEPT !.at = "reply", !.ok = FALSE, !.todo = {}]
<1>1. handler[h].at # "idle" /\ UNCHANGED <<rows, tasks, clock, session, link, inbox, stopping>>
    BY DEF StatementFails, database, connection, counters
<1>2. handler[h] \in HandlerState /\ handler \in [Handlers -> HandlerState]
    BY DEF ControlInv, StateOk
<1>3. handler' = [handler EXCEPT ![h] = k]
    BY <1>2 DEF StatementFails
<1>4. k \in HandlerState /\ k.at = "reply" /\ k.req = handler[h].req /\ k.ok = FALSE
    BY <1>2 DEF HandlerState, Places
<1> HIDE DEF k
<1>5. Progress(k, due'[h])
    BY <1>4 DEF Progress
<1> QED BY <1>1, <1>3, <1>4, <1>5, Reads

LEMMA Earliest ==
    ASSUME NEW T \in SUBSET Nat, T # {}
    PROVE  Min(T) \in T /\ \A y \in T : Min(T) <= y
<1>1. PICK x \in T : \A y \in T : ~(<<y, x>> \in OpToRel(<, Nat))
    BY WFMin, NatLessThanWellFounded, Zenon
<1>2. \A y \in T : ~(y < x)
    BY <1>1 DEF OpToRel
<1>3. \A y \in T : x <= y
    BY <1>2
<1> QED BY <1>3 DEF Min

LEMMA Later ==
    ASSUME NEW a \in Nat, NEW b \in Nat
    PROVE  Max({a, b}) \in {a, b} /\ Max({a, b}) >= a /\ Max({a, b}) >= b
<1>1. \E x \in {a, b} : \A y \in {a, b} : x >= y
    BY a >= b \/ b >= a
<1> QED BY <1>1 DEF Max

\* At most one number on either side: the later one of both.
LEMMA LaterOfBoth ==
    ASSUME NEW A \in SUBSET Nat, NEW B \in SUBSET Nat, \A m, n \in A : m = n, \A m, n \in B : m = n, A \cup B # {}
    PROVE  Max(A \cup B) \in A \cup B /\ \A y \in A \cup B : y <= Max(A \cup B)
<1>1. \E a, b \in Nat : A \cup B = {a, b}
    <2>1. CASE A = {}
        <3>1. PICK b \in B : TRUE
            BY <2>1
        <3>2. A \cup B = {b, b}
            BY <2>1, <3>1
        <3> QED BY <3>1, <3>2
    <2>2. CASE B = {}
        <3>1. PICK a \in A : TRUE
            BY <2>2
        <3>2. A \cup B = {a, a}
            BY <2>2, <3>1
        <3> QED BY <3>1, <3>2
    <2>3. CASE A # {} /\ B # {}
        <3>1. PICK a \in A, b \in B : TRUE
            BY <2>3
        <3>2. A \cup B = {a, b}
            BY <3>1
        <3> QED BY <3>1, <3>2
    <2> QED BY <2>1, <2>2, <2>3
<1>2. PICK a \in Nat, b \in Nat : A \cup B = {a, b}
    BY <1>1
<1>3. Max({a, b}) \in {a, b} /\ Max({a, b}) >= a /\ Max({a, b}) >= b
    BY Later
<1>4. \A y \in {a, b} : y <= Max({a, b})
    BY <1>3
<1> QED BY <1>2, <1>3, <1>4

LEMMA NoRowsBelow ==
    ASSUME NEW S, NEW n \in Nat, n # 0, ~(Cardinality(S) < n)
    PROVE  S # {}
BY FS_EmptySet

LEMMA ReadRowsCutoffKeeps ==
    ASSUME ControlInv, Track, NEW h \in Handlers, ReadRowsCutoff(h)
    PROVE  ControlInv'
<1> DEFINE r == handler[h].req
           n == CHOOSE n \in r.gc_rows : TRUE
           newest == Newest(n)
           times == {rows[w].created_at : w \in newest}
           read == IF Cardinality(newest) < n THEN {} ELSE {Min(times)}
           both == handler[h].cutoff \cup read
           at == IF both = {} THEN TimeoutOrReply(r) ELSE "gc_delete"
           cutoff == IF both = {} THEN {} ELSE {Max(both)}
           keep == {[id |-> w, created_at |-> rows[w].created_at] : w \in newest}
           k == [handler[h] EXCEPT !.at = at, !.cutoff = cutoff, !.keep = keep]
<1>1. handler[h].at = "gc_rows" /\ UNCHANGED <<rows, tasks, clock, session, link, inbox, stopping>>
    BY DEF ReadRowsCutoff, database, connection, counters
<1>2. handler[h] \in HandlerState /\ handler \in [Handlers -> HandlerState] /\ RowsOk
    BY DEF ControlInv, StateOk
<1>3. r \in Requests /\ r.type = "retention" /\ handler[h].cutoff = r.gc_cutoff /\ r.gc_rows \ {0} # {}
    BY <1>1 DEF ControlInv, HandlerInv, Progress
<1>4. handler' = [handler EXCEPT ![h].at = at, ![h].cutoff = cutoff, ![h].keep = keep]
    BY DEF ReadRowsCutoff
<1>5. /\ r.gc_cutoff \in SUBSET Nat /\ r.gc_rows \subseteq Nat
      /\ (\A a, b \in r.gc_cutoff : a = b) /\ \A a, b \in r.gc_rows : a = b
    BY <1>3, RequestFields
<1>6. n \in Nat /\ n # 0
    BY <1>3, <1>5
<1> HIDE DEF n
<1>7. newest \subseteq Managed
    BY DEF Newest, Existing
<1> HIDE DEF newest
<1>8. times \in SUBSET Nat /\ keep \in SUBSET Kept /\ \A e \in keep : e.created_at \in times
    BY <1>2, <1>7, RowNumbers DEF Kept
<1>9. read \in SUBSET Nat /\ (\A a, b \in read : a = b) /\ \A m \in read : \A t \in times : m <= t
    <2>1. CASE Cardinality(newest) < n
        BY <2>1
    <2>2. CASE ~(Cardinality(newest) < n)
        <3>1. newest # {}
            BY <1>6, <2>2, NoRowsBelow
        <3>2. times # {}
            BY <3>1
        <3>3. Min(times) \in times /\ \A y \in times : Min(times) <= y
            <4> HIDE DEF times
            <4> QED BY <1>8, <3>2, Earliest
        <3>4. read = {Min(times)}
            BY <2>2
        <3> HIDE DEF times, read
        <3> QED BY <1>8, <3>3, <3>4
    <2> QED BY <2>1, <2>2
<1> HIDE DEF times, read, keep
<1>10. both \in SUBSET Nat /\ (both # {} => Max(both) \in both /\ \A y \in both : y <= Max(both))
    BY <1>3, <1>5, <1>9, LaterOfBoth
<1>11. at \in Places /\ at # "idle" /\ cutoff \in SUBSET Nat
    <2>1. CASE both = {}
        BY <2>1, NextPlace
    <2>2. CASE both # {}
        BY <1>10, <2>2 DEF Places
    <2> QED BY <2>1, <2>2
<1>12. (both = {} => at = TimeoutOrReply(r)) /\ (both # {} => at = "gc_delete" /\ cutoff = {Max(both)})
    OBVIOUS
<1> HIDE DEF at, cutoff
<1>13. handler' = [handler EXCEPT ![h] = k]
    BY <1>2, <1>4
<1>14. k \in HandlerState /\ k.at = at /\ k.req = r /\ k.cutoff = cutoff /\ k.keep = keep
    BY <1>2, <1>8, <1>11 DEF HandlerState, Places
<1> HIDE DEF k
<1>15. ASSUME \A d \in due'[h] : d \in due[h] /\ Owed(d, handler[h].req, rows[d.id]) PROVE Progress(k, due'[h])
    <2>1. CASE both = {}
        <3>1. r.gc_cutoff = {}
            BY <1>3, <2>1
        <3>2. ASSUME NEW d \in due'[h] PROVE Owed(d, r, rows[d.id]) /\ d.want # "collect"
            <4>1. Owed(d, r, rows[d.id])
                BY <1>15, <3>2
            <4>2. d.want = "cancel"
                BY <1>3, <3>1, <4>1, NothingOwed
            <4> QED BY <4>1, <4>2
        <3>3. k.at = TimeoutOrReply(k.req) /\ k.req.type = "retention"
            BY <1>3, <1>12, <1>14, <2>1
        <3> QED BY <1>14, <3>2, <3>3, AfterCollection
    <2>2. CASE both # {}
        <3>1. PICK x \in both : cutoff = {x} /\ \A y \in both : y <= x
            BY <1>10, <1>12, <2>2
        <3>2. x \in Nat /\ \A c \in r.gc_cutoff : c <= x
            BY <1>3, <1>10, <3>1
        <3>3. ASSUME NEW e \in keep, \A c \in r.gc_cutoff : e.created_at >= c PROVE e.created_at >= x
            <4>1. CASE x \in r.gc_cutoff
                BY <3>3, <4>1
            <4>2. CASE x \in read
                <5>1. e.created_at \in times /\ e.created_at \in Nat
                    BY <1>8, <3>3
                <5>2. x <= e.created_at
                    BY <1>9, <4>2, <5>1
                <5> QED BY <3>2, <5>1, <5>2
            <4> QED BY <1>3, <3>1, <4>1, <4>2
        <3>4. CutoffOk(k)
            BY <1>14, <3>1, <3>2, <3>3 DEF CutoffOk
        <3>5. k.at = "gc_delete" /\ k.req.type = "retention"
            BY <1>3, <1>12, <1>14, <2>2
        <3> QED BY <3>4, <3>5 DEF Progress
    <2> QED BY <2>1, <2>2
<1>16. handler[h].at # "idle" /\ k.at # "idle"
    BY <1>1, <1>11, <1>14
<1> QED BY <1>1, <1>13, <1>14, <1>15, <1>16, Reads

LEMMA ControlBegins == ASSUME ControlInit PROVE ControlInv
<1>1. RowsOk
    BY BlankRow DEF ControlInit, RowsOk
<1>2. handler \in [Handlers -> HandlerState] /\ \A h \in Handlers : handler[h] = Idle /\ due[h] = {}
    BY IdleHandler DEF ControlInit
<1>3. StateOk
    <2>1. tasks \in [Managed -> 0..MaxTasks] /\ clock \in 0..MaxClock
        BY Limits DEF ControlInit
    <2>2. /\ session \in {"waiting", "connected", "stopped"} /\ link \in {"ok", "closed", "silent"} /\ stopping \in BOOLEAN
          /\ inbox \in Seq(ConductorRequests)
        <3>1. << >> \in Seq(ConductorRequests)
            OBVIOUS
        <3>2. session = "waiting" /\ link = "closed" /\ stopping = FALSE /\ inbox = << >>
            BY DEF ControlInit
        <3> QED BY <3>1, <3>2
    <2> QED BY <1>1, <1>2, <2>1, <2>2 DEF StateOk
<1>4. \A h \in Handlers : HandlerInv(h)
    BY <1>2, IdleHandler DEF HandlerInv
<1> QED BY <1>3, <1>4 DEF ControlInv

LEMMA ControlKept == ASSUME ControlInv, ControlNext PROVE ControlInv'
<1>1. Track
    BY DEF ControlNext
<1>2. CASE \E w \in Managed : Claim(w) \/ EndTask(w) \/ \E o \in {"me", "dead"} : StartWorkflow(w, o)
    BY <1>1, <1>2, ClaimKeeps, EndTaskKeeps, StartWorkflowKeeps
<1>3. CASE SessionStep \/ AdminReply \/ Shutdown
    BY <1>1, <1>3, ConnectionSteps, ReceiveKeeps, ReplyKeeps DEF SessionStep
<1>4. CASE \E r \in ConductorRequests : Send(r)
    BY <1>1, <1>4, ConnectionSteps
<1>5. CASE \E r \in AdminRequests : AdminCall(r)
    BY <1>1, <1>5, AdminCallKeeps
<1>6. CASE \E how \in {"closed", "silent"} : CutLink(how)
    BY <1>1, <1>6, ConnectionSteps
<1>7. ASSUME NEW h \in Handlers, HandlerStep(h) \/ StatementFails(h) PROVE ControlInv'
    <2>1. CASE StatementFails(h)
        BY <1>1, <2>1, StatementFailsKeeps
    <2>2. CASE \E p \in handler[h].pending : RecoverOne(h, p) \/ SkipOne(h, p)
        BY <1>1, <2>2, RecoverOneKeeps, SkipOneKeeps
    <2>3. CASE ListPending(h) \/ Recovered(h) \/ Statement(h)
        BY <1>1, <2>3, ListPendingKeeps, RecoveredKeeps, StatementKeeps
    <2>4. CASE ReadRowsCutoff(h) \/ DeleteOld(h)
        BY <1>1, <2>4, ReadRowsCutoffKeeps, DeleteOldKeeps
    <2>5. CASE ListActive(h) \/ CancelListed(h)
        BY <1>1, <2>5, ListActiveKeeps, CancelListedKeeps
    <2> QED BY <1>7, <2>1, <2>2, <2>3, <2>4, <2>5 DEF HandlerStep
<1> QED BY <1>2, <1>3, <1>4, <1>5, <1>6, <1>7 DEF ControlNext

LEMMA ControlRests == ASSUME ControlInv, UNCHANGED control_vars PROVE ControlInv'
<1>1. UNCHANGED <<rows, tasks, clock, session, link, inbox, handler, stopping, due>>
    BY DEF control_vars
<1>2. StateOk /\ RowsOk /\ \A h \in Handlers : HandlerInv(h)
    BY DEF ControlInv, StateOk
<1>3. RowsOk'
    BY <1>1, <1>2, RowsKept
<1>4. StateOk'
    BY <1>1, <1>2, <1>3, StateNext DEF StateOk
<1>5. ASSUME NEW h \in Handlers PROVE HandlerInv(h)'
    <2>1. HandlerInv(h)
        BY <1>2
    <2> QED BY <1>1, <2>1, HandlerNext DEF HandlerInv
<1> QED BY <1>4, <1>5 DEF ControlInv, Handlers

\* Every request is as far as its handler says, owes only what is still open there, and carries a cutoff
\* that spares what it counted (handle_message, the routes of the admin server and garbage_collect).
THEOREM RequestsTracked == ControlSpec => []ControlInv
<1>1. ControlInit => ControlInv
    BY ControlBegins
<1>2. ControlInv /\ [ControlNext]_control_vars => ControlInv'
    BY ControlKept, ControlRests
<1> QED BY <1>1, <1>2, PTL DEF ControlSpec

\* The rows, the handlers and the connection of the control plane stay well formed, and an absent row blank.
THEOREM ControlPlaneTypeCorrect == ControlSpec => []ControlTypeOK
<1>1. ControlInv => ControlTypeOK
    <2> SUFFICES ASSUME ControlInv PROVE ControlTypeOK
        OBVIOUS
    <2>1. /\ RowsOk /\ tasks \in [Managed -> 0..MaxTasks]
          /\ session \in {"waiting", "connected", "stopped"} /\ link \in {"ok", "closed", "silent"} /\ stopping \in BOOLEAN
          /\ \A h \in Handlers : handler[h] \in HandlerState
        BY DEF ControlInv, StateOk
    <2>2. \A h \in Handlers : /\ handler[h].at \in {"idle", "list_pending", "recover", "statement", "gc_rows", "gc_delete",
                                                      "list_active", "cancel_listed", "reply"}
                                 /\ handler[h].todo \subseteq Managed
        BY <2>1 DEF HandlerState, Places
    <2> QED BY <2>1, <2>2 DEF ControlTypeOK, RowsOk, ManagedRow
<1> QED BY <1>1, RequestsTracked, PTL

\* A success answer of the conductor session or of the admin server is true: by the time of the reply every
\* workflow that the cancel, resume, delete or retention request was about when it arrived has been in the
\* state the request asks for, whatever happens between the statements.
THEOREM SuccessIsTrue == ControlSpec => []SuccessMeansDone
<1>1. ControlInv => SuccessMeansDone
    <2> SUFFICES ASSUME ControlInv, NEW h \in Handlers, handler[h].at = "reply", handler[h].ok PROVE due[h] = {}
        BY DEF SuccessMeansDone
    <2> QED BY DEF ControlInv, HandlerInv, Progress
<1> QED BY <1>1, RequestsTracked, PTL

LEMMA CollectionEnds ==
    ASSUME ControlInv, ControlNext, NEW h \in Handlers, handler[h].at = "gc_delete", handler'[h].at # "gc_delete"
    PROVE  DeleteOld(h) \/ StatementFails(h)
<1>1. handler \in [Handlers -> HandlerState] /\ handler' # handler
    BY DEF ControlInv, StateOk
<1>2. "conductor" \in Handlers /\ "admin" \in Handlers
    BY DEF Handlers
<1>3. CASE \E w \in Managed : Claim(w) \/ EndTask(w) \/ \E o \in {"me", "dead"} : StartWorkflow(w, o)
    BY <1>1, <1>3 DEF Claim, EndTask, StartWorkflow
<1>4. CASE SessionStep \/ AdminReply \/ Shutdown
    <2>1. CASE Connect \/ Disconnect \/ StopSession \/ Shutdown
        BY <1>1, <2>1 DEF Connect, Disconnect, StopSession, Shutdown
    <2>2. CASE Receive
        <3>1. handler["conductor"].at = "idle" /\ handler' = [handler EXCEPT !["conductor"] = Begin(Head(inbox))]
            BY <2>2 DEF Receive
        <3> QED BY <1>1, <3>1
    <2>3. CASE Reply
        <3>1. handler["conductor"].at = "reply" /\ handler' = [handler EXCEPT !["conductor"] = Idle]
            BY <2>3 DEF Reply
        <3> QED BY <1>1, <3>1
    <2>4. CASE AdminReply
        <3>1. handler["admin"].at = "reply" /\ handler' = [handler EXCEPT !["admin"] = Idle]
            BY <2>4 DEF AdminReply
        <3> QED BY <1>1, <3>1
    <2> QED BY <1>4, <2>1, <2>2, <2>3, <2>4 DEF SessionStep
<1>5. CASE \E r \in ConductorRequests : Send(r)
    BY <1>1, <1>5 DEF Send
<1>6. ASSUME NEW r \in AdminRequests, AdminCall(r) PROVE FALSE
    <2>1. handler["admin"].at = "idle" /\ handler' = [handler EXCEPT !["admin"] = Begin(r)]
        BY <1>6 DEF AdminCall
    <2> QED BY <1>1, <2>1
<1>7. CASE \E how \in {"closed", "silent"} : CutLink(how)
    BY <1>1, <1>7 DEF CutLink
<1>8. ASSUME NEW g \in Handlers, HandlerStep(g) \/ StatementFails(g) PROVE DeleteOld(h) \/ StatementFails(h)
    <2>1. CASE StatementFails(g) \/ DeleteOld(g)
        <3>1. g # h => handler'[h] = handler[h]
            BY <1>1, <2>1 DEF StatementFails, DeleteOld, Goto
        <3> QED BY <2>1, <3>1
    <2>2. CASE ~(StatementFails(g) \/ DeleteOld(g))
        <3>1. g # h => handler'[h] = handler[h]
            BY <1>1, <1>8, <2>2 DEF HandlerStep, ListPending, Recovered, Statement, ReadRowsCutoff, ListActive,
                                    CancelListed, RecoverOne, SkipOne, Goto
        <3>2. handler[g].at # "gc_delete"
            BY <1>8, <2>2 DEF HandlerStep, ListPending, Recovered, Statement, ReadRowsCutoff, ListActive,
                              CancelListed, RecoverOne, SkipOne
        <3> QED BY <3>1, <3>2
    <2> QED BY <2>1, <2>2
<1> QED BY <1>3, <1>4, <1>5, <1>6, <1>7, <1>8 DEF ControlNext

\* A DELETE of garbage_collect takes neither a workflow that is queued or running nor one of the newest rows
\* that its first statement counted and that the cutoff it was given spares.
LEMMA CollectionSpares ==
    ASSUME ControlInv, NEW h \in Handlers, DeleteOld(h), NEW w \in Existing,
           \/ rows[w].status \in Active
           \/ /\ \A c \in handler[h].req.gc_cutoff : rows[w].created_at >= c
              /\ [id |-> w, created_at |-> rows[w].created_at] \in handler[h].keep
    PROVE  rows'[w] = rows[w]
<1>1. handler[h].at = "gc_delete"
    BY DEF DeleteOld
<1>2. CutoffOk(handler[h])
    BY <1>1 DEF ControlInv, HandlerInv, Progress
<1>3. PICK x \in Nat :
          /\ handler[h].cutoff = {x}
          /\ \A e \in handler[h].keep : (\A c \in handler[h].req.gc_cutoff : e.created_at >= c) => e.created_at >= x
    BY <1>2 DEF CutoffOk
<1>4. (CHOOSE c \in handler[h].cutoff : TRUE) = x
    BY <1>3
<1> DEFINE old == {v \in Existing : IsOld(rows[v], x) /\ rows[v].status \notin Active}
<1>5. rows' = Deleted(old)
    BY <1>4 DEF DeleteOld
<1>6. RowsOk /\ w \in Managed
    BY Unchanging DEF Existing
<1>7. rows[w].created_at \in Nat
    BY <1>6, RowNumbers
<1>8. w \notin old
    <2>1. CASE rows[w].status \in Active
        BY <2>1
    <2>2. CASE /\ \A c \in handler[h].req.gc_cutoff : rows[w].created_at >= c
               /\ [id |-> w, created_at |-> rows[w].created_at] \in handler[h].keep
        <3> DEFINE e == [id |-> w, created_at |-> rows[w].created_at]
        <3>1. e.created_at = rows[w].created_at /\ e \in handler[h].keep
            BY <2>2
        <3> HIDE DEF e
        <3>2. rows[w].created_at >= x
            BY <1>3, <2>2, <3>1
        <3>3. ~(rows[w].created_at < x)
            BY <1>7, <3>2
        <3> QED BY <3>3 DEF IsOld
    <2> QED BY <2>1, <2>2
<1> HIDE DEF old
<1> QED BY <1>5, <1>6, <1>8, DeletedRows

\* A garbage collection with a row threshold never takes one of the newest rows it counted, unless that is
\* older than the cutoff it was given too, and none takes a workflow that is queued or running, whatever
\* happens between the two statements of garbage_collect.
THEOREM CollectionIsSafe == ControlSpec => CollectionSparesNewest
<1> DEFINE Spared ==
        \A h \in Handlers :
            handler[h].at = "gc_delete" /\ handler'[h].at # "gc_delete" =>
                \A w \in Existing :
                    \/ rows[w].status \in Active
                    \/ /\ \A c \in handler[h].req.gc_cutoff : rows[w].created_at >= c
                       /\ [id |-> w, created_at |-> rows[w].created_at] \in handler[h].keep
                    => rows'[w] = rows[w]
<1>1. ControlInv /\ [ControlNext]_control_vars => [Spared]_control_vars
    <2> SUFFICES ASSUME ControlInv, ControlNext, NEW h \in Handlers,
                        handler[h].at = "gc_delete", handler'[h].at # "gc_delete", NEW w \in Existing,
                        \/ rows[w].status \in Active
                        \/ /\ \A c \in handler[h].req.gc_cutoff : rows[w].created_at >= c
                           /\ [id |-> w, created_at |-> rows[w].created_at] \in handler[h].keep
                 PROVE  rows'[w] = rows[w]
        OBVIOUS
    <2>1. CASE DeleteOld(h)
        BY <2>1, CollectionSpares
    <2>2. CASE StatementFails(h)
        BY <2>2 DEF StatementFails, database
    <2> QED BY <2>1, <2>2, CollectionEnds
<1>2. ControlSpec => [][Spared]_control_vars
    <2> HIDE DEF Spared
    <2> QED BY <1>1, RequestsTracked, PTL DEF ControlSpec
<1> QED BY <1>2 DEF CollectionSparesNewest

====
