---- MODULE Fork ----
(*
 * fork_workflow of db/management.rs while the original workflow may still be running. The fork reads
 * the original's row, then one READ COMMITTED transaction inserts the new row, marks the original and
 * copies four tables, statement by statement, each statement seeing what is committed when it starts.
 *
 * A workflow's body is the sequence Program of steps: plain ones, set_event (event, event history and
 * step result in one transaction) and write_stream (entry and step result in one transaction). Step n
 * sets the event, or writes the entry, n.
 *)
EXTENDS Naturals, Sequences

CONSTANTS
    Program,     \* the kinds of the body's steps; its ids are 0..Len(Program)-1
    Original,    \* the workflow that is forked
    ForkIds,     \* forked_workflow_id of the requests
    Callers,     \* concurrent fork_workflow calls
    MaxRestarts, \* bound on crashes of a workflow's executor, each followed by a replay
    MaxForks     \* bound on fork calls

Steps == 0..(Len(Program) - 1)
Kind(n) == Program[n + 1]
Workflows == {Original} \cup ForkIds
StartSteps == 0..Len(Program)

ASSUME ForkAssumption ==
    /\ Program \in Seq({"step", "event", "stream"}) /\ Program # <<>>
    /\ Original \notin ForkIds
    /\ {MaxRestarts, MaxForks} \subseteq Nat

VARIABLES
    workflow_status,  \* [w]: status and was_forked_from
    log,              \* [w]: operation_outputs, events history, event and stream of w
    next_step,        \* [w]: the step the running body of w is at
    call,             \* [c]: a fork_workflow call and what its transaction has staged
    ran,              \* history: [w]: how often w has executed (not replayed) each step
    begun,            \* history: [f]: start_step of fork f and whether the original had reached it
    restarts, forks   \* history, for the bounds

vars == <<workflow_status, log, next_step, call, ran, begun, restarts, forks>>

AbsentRow == [status |-> "ABSENT", was_forked_from |-> FALSE]
NoLog == [ops |-> {}, history |-> {}, event |-> {}, stream |-> {}]
IdleCall == [at |-> "idle", id |-> Original, start_step |-> 0, copy |-> NoLog]

\* The rows of the four tables that belong to one workflow: the recorded steps, the steps whose events
\* are in the history, the step whose event is the current one (a set of at most one), and the entries
\* of the stream.
Entry == [offset : Nat, function_id : Steps]
Log == [ops : SUBSET Steps, history : SUBSET Steps, event : SUBSET Steps, stream : SUBSET Entry]
Row == [status : {"ABSENT", "ENQUEUED", "PENDING", "SUCCESS", "CANCELLED"}, was_forked_from : BOOLEAN]
Call == [at : {"idle", "insert", "ops", "history", "events", "streams", "commit"},
         id : Workflows, start_step : StartSteps, copy : Log]

\* Tables and calls are well formed.
TypeOK ==
    /\ workflow_status \in [Workflows -> Row]
    /\ log \in [Workflows -> Log]
    /\ next_step \in [Workflows -> 0..Len(Program)]
    /\ call \in [Callers -> Call]
    /\ ran \in [Workflows -> [Steps -> Nat]]
    /\ begun \in [ForkIds -> [start_step : StartSteps, reached : BOOLEAN]]
    /\ restarts \in Nat /\ forks \in Nat

Init ==
    /\ workflow_status = [w \in Workflows |->
                            IF w = Original THEN [AbsentRow EXCEPT !.status = "PENDING"] ELSE AbsentRow]
    /\ log = [w \in Workflows |-> NoLog]
    /\ next_step = [w \in Workflows |-> 0]
    /\ call = [c \in Callers |-> IdleCall]
    /\ ran = [w \in Workflows |-> [n \in Steps |-> 0]]
    /\ begun = [f \in ForkIds |-> [start_step |-> 0, reached |-> FALSE]]
    /\ restarts = 0
    /\ forks = 0

\* The UPDATE of was_forked_from locks the original's row to the end of the transaction: outcomes,
\* cancels and deletions of the original wait for it, inserts of its steps do not.
Locked(w) ==
    w = Original /\ workflow_status[w].status # "ABSENT"
        /\ \E c \in Callers : call[c].at \notin {"idle", "insert"}

----
(* Running a workflow: the original, or a fork that a queue runner has claimed. *)

\* COALESCE(MAX(offset), -1) + 1 of write_stream.
IsNextOffset(stream, o) ==
    /\ \A r \in stream : r.offset < o
    /\ o = 0 \/ \E r \in stream : r.offset + 1 = o

\* What executing step n adds to the tables of its workflow, in one transaction; o is the next offset.
Execute(l, n, o) ==
    [ops |-> l.ops \cup {n},
     history |-> IF Kind(n) = "event" THEN l.history \cup {n} ELSE l.history,
     event |-> IF Kind(n) = "event" THEN {n} ELSE l.event,
     stream |-> IF Kind(n) = "stream" THEN l.stream \cup {[offset |-> o, function_id |-> n]} ELSE l.stream]

\* A recorded step is replayed, any other is executed.
RunStep(w) ==
    LET n == next_step[w] IN
    /\ workflow_status[w].status = "PENDING"
    /\ n \in Steps
    /\ next_step' = [next_step EXCEPT ![w] = n + 1]
    /\ IF n \in log[w].ops
       THEN UNCHANGED <<log, ran>>
       ELSE \E o \in StartSteps :
               /\ IsNextOffset(log[w].stream, o)
               /\ log' = [log EXCEPT ![w] = Execute(log[w], n, o)]
               /\ ran' = [ran EXCEPT ![w][n] = @ + 1]
    /\ UNCHANGED <<workflow_status, call, begun, restarts, forks>>

Finish(w) ==
    /\ workflow_status[w].status = "PENDING"
    /\ next_step[w] = Len(Program)
    /\ ~Locked(w)
    /\ workflow_status' = [workflow_status EXCEPT ![w].status = "SUCCESS"]
    /\ UNCHANGED <<log, next_step, call, ran, begun, restarts, forks>>

\* The executor crashes and recovers the workflow: the body starts over.
Restart(w) ==
    /\ workflow_status[w].status = "PENDING" /\ next_step[w] > 0
    /\ restarts < MaxRestarts
    /\ restarts' = restarts + 1
    /\ next_step' = [next_step EXCEPT ![w] = 0]
    /\ UNCHANGED <<workflow_status, log, call, ran, begun, forks>>

\* A queue runner claims the fork.
Dequeue(f) ==
    /\ workflow_status[f].status = "ENQUEUED"
    /\ workflow_status' = [workflow_status EXCEPT ![f].status = "PENDING"]
    /\ UNCHANGED <<log, next_step, call, ran, begun, restarts, forks>>

\* cancel_workflows of the original; the body stops at its next step.
Cancel ==
    /\ workflow_status[Original].status = "PENDING"
    /\ ~Locked(Original)
    /\ workflow_status' = [workflow_status EXCEPT ![Original].status = "CANCELLED"]
    /\ UNCHANGED <<log, next_step, call, ran, begun, restarts, forks>>

\* delete_workflows of the original; its steps, events and streams go with it.
Delete ==
    /\ workflow_status[Original].status # "ABSENT"
    /\ ~Locked(Original)
    /\ workflow_status' = [workflow_status EXCEPT ![Original] = AbsentRow]
    /\ log' = [log EXCEPT ![Original] = NoLog]
    /\ UNCHANGED <<next_step, call, ran, begun, restarts, forks>>

----
(* fork_workflow *)

\* The SELECT of the original's row, outside the transaction; a missing one is NonExistentWorkflow.
ReadOriginal(c, f, s) ==
    /\ call[c].at = "idle" /\ forks < MaxForks
    /\ workflow_status[Original].status # "ABSENT"
    /\ forks' = forks + 1
    /\ call' = [call EXCEPT ![c] = [IdleCall EXCEPT !.at = "insert", !.id = f, !.start_step = s]]
    /\ UNCHANGED <<workflow_status, log, next_step, ran, begun, restarts>>

\* INSERT of the new row and UPDATE of was_forked_from. An id that exists is a primary key violation:
\* the transaction rolls back. An insert of an id that another open transaction holds, or an update of
\* a row that one holds, waits for it.
InsertFork(c) ==
    LET f == call[c].id IN
    /\ call[c].at = "insert"
    /\ ~Locked(Original)
    /\ \A d \in Callers \ {c} : call[d].id = f => call[d].at \in {"idle", "insert"}
    /\ IF workflow_status[f].status # "ABSENT"
       THEN /\ call' = [call EXCEPT ![c] = IdleCall]
            /\ UNCHANGED begun
       ELSE /\ call' = [call EXCEPT ![c].at = IF call[c].start_step = 0 THEN "commit" ELSE "ops"]
            /\ begun' = [begun EXCEPT ![f] =
                  [start_step |-> call[c].start_step,
                   reached |-> \A n \in Steps : n < call[c].start_step => n \in log[Original].ops]]
    /\ UNCHANGED <<workflow_status, log, next_step, ran, restarts, forks>>

\* The rows of the original with function_id < start_step.
Below(c, S) == {n \in S : n < call[c].start_step}

CopyOps(c) ==
    /\ call[c].at = "ops"
    /\ call' = [call EXCEPT ![c].at = "history", ![c].copy.ops = Below(c, log[Original].ops)]
    /\ UNCHANGED <<workflow_status, log, next_step, ran, begun, restarts, forks>>

CopyHistory(c) ==
    /\ call[c].at = "history"
    /\ call' = [call EXCEPT ![c].at = "events", ![c].copy.history = Below(c, log[Original].history)]
    /\ UNCHANGED <<workflow_status, log, next_step, ran, begun, restarts, forks>>

\* Mutant.
LatestEventOverall(c) == log[Original].event

\* The value of each key with the largest function_id below start_step.
LatestEvent(c) ==
    LET h == Below(c, log[Original].history) IN {n \in h : \A m \in h : m <= n}

CopyEvents(c) ==
    /\ call[c].at = "events"
    /\ call' = [call EXCEPT ![c].at = "streams", ![c].copy.event = LatestEvent(c)]
    /\ UNCHANGED <<workflow_status, log, next_step, ran, begun, restarts, forks>>

CopyStreams(c) ==
    /\ call[c].at = "streams"
    /\ call' = [call EXCEPT ![c].at = "commit", ![c].copy.stream =
          {r \in log[Original].stream : r.function_id < call[c].start_step}]
    /\ UNCHANGED <<workflow_status, log, next_step, ran, begun, restarts, forks>>

\* Mutant.
CommitForkWithoutSteps(c) ==
    LET f == call[c].id IN
    /\ call[c].at = "commit"
    /\ workflow_status' = [workflow_status EXCEPT ![f].status = "ENQUEUED"]
    /\ log' = [log EXCEPT ![f] = [call[c].copy EXCEPT !.ops = {}]]
    /\ call' = [call EXCEPT ![c] = IdleCall]
    /\ UNCHANGED <<next_step, ran, begun, restarts, forks>>

CommitFork(c) ==
    LET f == call[c].id IN
    /\ call[c].at = "commit"
    /\ workflow_status' = [workflow_status EXCEPT
          ![f].status = "ENQUEUED",
          ![Original].was_forked_from = (workflow_status[Original].status # "ABSENT")]
    /\ log' = [log EXCEPT ![f] = call[c].copy]
    /\ call' = [call EXCEPT ![c] = IdleCall]
    /\ UNCHANGED <<next_step, ran, begun, restarts, forks>>

\* The caller dies or a statement fails: nothing of the transaction stays.
AbortFork(c) ==
    /\ call[c].at # "idle"
    /\ call' = [call EXCEPT ![c] = IdleCall]
    /\ begun' = [begun EXCEPT ![call[c].id] = IF call[c].at = "insert" THEN @
                                              ELSE [start_step |-> 0, reached |-> FALSE]]
    /\ UNCHANGED <<workflow_status, log, next_step, ran, restarts, forks>>

ForkStep(c) ==
    \/ InsertFork(c) \/ CopyOps(c) \/ CopyHistory(c) \/ CopyEvents(c) \/ CopyStreams(c) \/ CommitFork(c)

Next ==
    \/ \E w \in Workflows : RunStep(w) \/ Finish(w) \/ Restart(w)
    \/ \E f \in ForkIds : Dequeue(f)
    \/ Cancel \/ Delete
    \/ \E c \in Callers : ForkStep(c) \/ AbortFork(c)
    \/ \E c \in Callers, f \in ForkIds, s \in StartSteps : ReadOriginal(c, f, s)

Spec == Init /\ [][Next]_vars

----
(* Properties *)

\* The event, the history and the stream are those that the recorded steps of l made.
EffectsMatch(l) ==
    /\ l.history = {n \in l.ops : Kind(n) = "event"}
    /\ l.event = {n \in l.history : \A m \in l.history : m <= n}
    /\ \A n \in Steps : (n \in l.ops /\ Kind(n) = "stream") <=> \E r \in l.stream : r.function_id = n
    /\ \A r, q \in l.stream : r.function_id < q.function_id <=> r.offset < q.offset
    /\ \A r \in l.stream : r.offset = 0 \/ \E q \in l.stream : q.offset + 1 = r.offset

\* Whoever reads the fork sees what its recorded steps did: one stream entry per recorded write, in
\* order and without a gap in the offsets, the event of its latest recorded set_event and the history of all of them. It holds when every
\* step below start_step had been recorded when the fork took its lock, even if the original goes on
\* running, finishes, is cancelled or is forked again meanwhile. (For a start_step that the original
\* passes during the copy it does not: the copies are four snapshots.)
ForkEffectsMatchLog ==
    \A f \in ForkIds :
        workflow_status[f].status # "ABSENT" /\ begun[f].reached =>
            EffectsMatch(log[f])

\* A fork from a step the original had reached never executes a step below it, however the copy is
\* interleaved with the original, crashes and other forks, and has executed every other step itself when
\* it succeeds.
ForkExecutesTheRest ==
    \A f \in ForkIds : begun[f].reached =>
        \A n \in Steps :
            /\ ran[f][n] > 0 => n >= begun[f].start_step
            /\ workflow_status[f].status = "SUCCESS" /\ n >= begun[f].start_step => ran[f][n] > 0
====
