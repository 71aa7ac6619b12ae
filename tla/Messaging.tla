---- MODULE Messaging ----
(*
 * Messages (send, recv), events (set_event, get_event) and durable sleep between workflows, with
 * the LISTEN/NOTIFY listener of every process and the in-memory waiter registries it serves.
 *
 * Every workflow runs a fixed program of these operations, possibly in several executions at once
 * and in several processes (WorkflowEngine shows how that comes about). An operation's database
 * transaction is one action. All messages go to the mailbox of Receiver and all get_event calls
 * read the event of Source, each on one topic or key.
 *
 * Abstractions: a message or event value is the operation that wrote it, <<workflow, position>>;
 * created_at_epoch_ms of a message orders messages as they were inserted (senders' clocks agree);
 * a deadline passes at any moment after it is recorded; Receiver exists. A step's status check is
 * left out, and so is workflow_events_history, which only a fork reads.
 *)
EXTENDS Integers, Sequences, FiniteSets

CONSTANTS
    Processes,      \* processes, each with one listener and its waiter registries
    Workflows,      \* workflow ids
    Program,        \* Program[w]: the operations of the body of w
    Receiver,       \* destination of every send
    Source,         \* target of every get_event
    Tasks,          \* slots for executions
    None,           \* NULL, no row
    Unit,           \* what send, set_event and sleep return
    Timeout,        \* what a recv or get_event returns that timed out
    MaxStarts,      \* bound on executions begun
    MaxDisruptions  \* bound on process crashes and lost listener connections together

Operations == {"send", "recv", "set_event", "get_event", "sleep"}

Positions(w) == 1 .. Len(Program[w])

\* The messages and event values.
Written == UNION {{<<w, i>> : i \in Positions(w)} : w \in Workflows}

\* Bodies are not empty, and only Receiver, whose mailbox is the one modelled, receives.
ASSUME MessagingAssumption ==
    /\ Program \in [Workflows -> Seq(Operations) \ {<<>>}]
    /\ \A w \in Workflows : \A i \in Positions(w) : Program[w][i] = "recv" => w = Receiver
    /\ Receiver \in Workflows
    /\ Source \in Workflows
    /\ None \notin Processes \cup Workflows \cup Written
    /\ Unit # None /\ Timeout \notin Written \cup {None, Unit}
    /\ {MaxStarts, MaxDisruptions} \subseteq Nat

VARIABLES
    operation_outputs,      \* [w][i]: the recorded result of operation i of w, or None
    deadlines,              \* [w][i]: "none", "recorded" or "past" (the DBOS.sleep steps)
    notifications,          \* the mailbox of Receiver, oldest first
    consumed,               \* how many of them are consumed
    workflow_events,        \* the event of Source, or None
    task,                   \* the executions
    notifications_waiters,  \* [p]: tasks attached to the entry of p's registry, {} when vacant
    events_waiters,         \* [p]: the same for the event
    connected,              \* [p]: the listener of p is connected and listening
    used                    \* history: starts and disruptions so far, for the bounds

tables == <<operation_outputs, deadlines, notifications, consumed, workflow_events>>
memory == <<task, notifications_waiters, events_waiters>>
vars == <<operation_outputs, deadlines, notifications, consumed, workflow_events, task,
          notifications_waiters, events_waiters, connected, used>>

Outputs == Written \cup {Unit, Timeout}

\* check: about to run check_operation_execution; sleep: about to record the deadline; probe: the
\* Notified future exists and the table is about to be read; wait: in the select! of the loop;
\* finish: about to run the transaction that records the result; doze: in a durable sleep.
Places == {"idle", "check", "sleep", "probe", "wait", "finish", "doze"}

IdleTask == [at |-> "idle", wf |-> None, on |-> None, pc |-> 1, woken |-> FALSE,
             found |-> None, view |-> <<>>]

Task == [at : Places, wf : Workflows \cup {None}, on : Processes \cup {None}, pc : Nat,
         woken : BOOLEAN, found : Written \cup {None}, view : Seq(Outputs)]

Channels == {"notifications", "events"}

\* Tables, executions and registries are well formed, and no more messages are consumed than were
\* sent (a recv that times out consumes none).
TypeOK ==
    /\ operation_outputs = [w \in Workflows |-> operation_outputs[w]]
    /\ deadlines = [w \in Workflows |-> deadlines[w]]
    /\ \A w \in Workflows :
        /\ operation_outputs[w] \in [Positions(w) -> Outputs \cup {None}]
        /\ deadlines[w] \in [Positions(w) -> {"none", "recorded", "past"}]
    /\ notifications \in Seq(Written)
    /\ consumed \in 0 .. Len(notifications)
    /\ workflow_events \in Written \cup {None}
    /\ task \in [Tasks -> Task]
    /\ notifications_waiters \in [Processes -> SUBSET Tasks]
    /\ events_waiters \in [Processes -> SUBSET Tasks]
    /\ connected \in [Processes -> BOOLEAN]
    /\ used \in [{"starts", "disruptions"} -> Nat]

Init ==
    /\ operation_outputs = [w \in Workflows |-> [i \in Positions(w) |-> None]]
    /\ deadlines = [w \in Workflows |-> [i \in Positions(w) |-> "none"]]
    /\ notifications = <<>>
    /\ consumed = 0
    /\ workflow_events = None
    /\ task = [t \in Tasks |-> IdleTask]
    /\ notifications_waiters = [p \in Processes |-> {}]
    /\ events_waiters = [p \in Processes |-> {}]
    /\ connected = [p \in Processes |-> TRUE]
    /\ used = [b \in {"starts", "disruptions"} |-> 0]

Spend(b, max) ==
    /\ used[b] < max
    /\ used' = [used EXCEPT ![b] = @ + 1]

Op(tk) == Program[tk.wf][tk.pc]

Recorded(tk) == operation_outputs[tk.wf][tk.pc] # None

\* The value that tk's operation writes.
Value(tk) == <<tk.wf, tk.pc>>

insert_notification(tk) == notifications' = Append(notifications, Value(tk))

notification_exists_unconsumed == consumed < Len(notifications)

\* The message that consume_oldest_notification returns, Timeout for none; consume marks it.
OldestNotification ==
    IF notification_exists_unconsumed THEN notifications[consumed + 1] ELSE Timeout

consume_oldest_notification ==
    consumed' = IF notification_exists_unconsumed THEN consumed + 1 ELSE consumed

upsert_workflow_event(tk) ==
    workflow_events' = IF tk.wf = Source THEN Value(tk) ELSE workflow_events

select_workflow_event == workflow_events

\* The body gets result r of its operation and goes on, or ends after the last one.
Advance(tk, r) ==
    IF tk.pc = Len(Program[tk.wf])
    THEN IdleTask
    ELSE [tk EXCEPT !.at = IF Program[tk.wf][tk.pc + 1] = "sleep" THEN "sleep" ELSE "check",
                    !.pc = @ + 1, !.woken = FALSE, !.found = None, !.view = Append(@, r)]

----
(* Executions *)

Idle == {t \in Tasks : task[t].at = "idle"}

\* A process starts an execution of w, in some free slot: a first run, a recovery, or one that
\* overlaps another.
Start(w, p) ==
    LET t == CHOOSE u \in Idle : TRUE
    IN  /\ Idle # {}
        /\ Spend("starts", MaxStarts)
        /\ task' = [task EXCEPT ![t] =
                [IdleTask EXCEPT !.at = IF Program[w][1] = "sleep" THEN "sleep" ELSE "check",
                                 !.wf = w, !.on = p]]
        /\ UNCHANGED <<tables, notifications_waiters, events_waiters, connected>>

\* The process dies with its executions, registries and listener.
Crash(p) ==
    /\ Spend("disruptions", MaxDisruptions)
    /\ task' = [t \in Tasks |-> IF task[t].on = p THEN IdleTask ELSE task[t]]
    /\ notifications_waiters' = [notifications_waiters EXCEPT ![p] = {}]
    /\ events_waiters' = [events_waiters EXCEPT ![p] = {}]
    /\ connected' = [connected EXCEPT ![p] = FALSE]
    /\ UNCHANGED tables

\* check_operation_execution finds a recorded result: it is returned as it is.
Replay(t) ==
    /\ task[t].at = "check"
    /\ Recorded(task[t])
    /\ task' = [task EXCEPT ![t] = Advance(@, operation_outputs[@.wf][@.pc])]
    /\ UNCHANGED <<tables, notifications_waiters, events_waiters, connected, used>>

\* Nothing is recorded: send and set_event go on to their transaction.
Miss(t) ==
    /\ task[t].at = "check"
    /\ ~Recorded(task[t])
    /\ Op(task[t]) \in {"send", "set_event"}
    /\ task' = [task EXCEPT ![t].at = "finish"]
    /\ UNCHANGED <<tables, notifications_waiters, events_waiters, connected, used>>

\* recv takes the registry entry, or fails with ConflictingId when a recv of the same workflow is
\* active in this process; that ends the execution.
EnterRecv(t) ==
    LET p == task[t].on
        vacant == notifications_waiters[p] = {}
    IN  /\ task[t].at = "check"
        /\ ~Recorded(task[t])
        /\ Op(task[t]) = "recv"
        /\ notifications_waiters' = [notifications_waiters EXCEPT ![p] = IF vacant THEN {t} ELSE @]
        /\ task' = [task EXCEPT ![t] = IF vacant THEN [@ EXCEPT !.at = "sleep"] ELSE IdleTask]
        /\ UNCHANGED <<tables, events_waiters, connected, used>>

\* get_event shares the entry with the waiters it finds there, or makes one.
EnterGetEvent(t) ==
    /\ task[t].at = "check"
    /\ ~Recorded(task[t])
    /\ Op(task[t]) = "get_event"
    /\ events_waiters' = [events_waiters EXCEPT ![task[t].on] = @ \cup {t}]
    /\ task' = [task EXCEPT ![t].at = "sleep"]
    /\ UNCHANGED <<tables, notifications_waiters, connected, used>>

\* record_sleep: the first execution records the deadline, later ones read it back.
RecordSleep(t) ==
    LET tk == task[t]
    IN  /\ tk.at = "sleep"
        /\ deadlines' = [deadlines EXCEPT ![tk.wf][tk.pc] = IF @ = "none" THEN "recorded" ELSE @]
        /\ task' = [task EXCEPT ![t].at = IF Op(tk) = "sleep" THEN "doze" ELSE "probe"]
        /\ UNCHANGED <<operation_outputs, notifications, consumed, workflow_events,
                       notifications_waiters, events_waiters, connected, used>>

Past(tk) == deadlines[tk.wf][tk.pc] = "past"

\* The durable sleep ends. Its recorded step is the deadline itself.
WakeUp(t) ==
    /\ task[t].at = "doze"
    /\ Past(task[t])
    /\ task' = [task EXCEPT ![t] = Advance(@, Unit)]
    /\ UNCHANGED <<tables, notifications_waiters, events_waiters, connected, used>>

\* The loop reads the table: it leaves with what it found or because the deadline has passed,
\* and waits otherwise.
Probe(t) ==
    LET tk == task[t]
        found == IF Op(tk) = "recv"
                 THEN notification_exists_unconsumed
                 ELSE select_workflow_event # None
    IN  /\ tk.at = "probe"
        /\ task' = [task EXCEPT ![t] =
                [@ EXCEPT !.at = IF found \/ Past(tk) THEN "finish" ELSE "wait",
                          !.found = IF Op(tk) = "get_event" THEN select_workflow_event ELSE None]]
        /\ UNCHANGED <<tables, notifications_waiters, events_waiters, connected, used>>

\* select! returns: notified, or the deadline passed. A new Notified is made for the next round.
Wake(t) ==
    /\ task[t].at = "wait"
    /\ task[t].woken \/ Past(task[t])
    /\ task' = [task EXCEPT ![t] = [@ EXCEPT !.at = "probe", !.woken = FALSE]]
    /\ UNCHANGED <<tables, notifications_waiters, events_waiters, connected, used>>

\* WaiterGuard::drop removes the entry of the key, whoever else is attached to it.
DropGuard(waiters, t) == [waiters EXCEPT ![task[t].on] = {}]

\* Mutant.
RecordOrIgnore(t, r) ==
    LET tk == task[t]
    IN  /\ operation_outputs' =
                [operation_outputs EXCEPT ![tk.wf][tk.pc] = IF @ = None THEN r ELSE @]
        /\ task' = [task EXCEPT ![t] = Advance(@, r)]

\* INSERT into operation_outputs succeeds and the transaction commits, or its primary key is
\* taken: then everything is rolled back and ConflictingId ends the execution.
Record(t, r) ==
    LET tk == task[t]
    IN  /\ ~Recorded(tk)
        /\ operation_outputs' = [operation_outputs EXCEPT ![tk.wf][tk.pc] = r]
        /\ task' = [task EXCEPT ![t] = Advance(@, r)]

Conflict(t) ==
    /\ Recorded(task[t])
    /\ task' = [task EXCEPT ![t] = IdleTask]
    /\ UNCHANGED operation_outputs

\* Mutant.
FinishSendUnguarded(t) ==
    /\ task[t].at = "finish"
    /\ Op(task[t]) = "send"
    /\ insert_notification(task[t])
    /\ Record(t, Unit) \/ Conflict(t)
    /\ UNCHANGED <<deadlines, consumed, workflow_events, notifications_waiters, events_waiters,
                   connected, used>>

\* send: the message and the step in one transaction.
FinishSend(t) ==
    /\ task[t].at = "finish"
    /\ Op(task[t]) = "send"
    /\ \/ /\ Record(t, Unit)
          /\ insert_notification(task[t])
       \/ Conflict(t) /\ UNCHANGED notifications
    /\ UNCHANGED <<deadlines, consumed, workflow_events, notifications_waiters, events_waiters,
                   connected, used>>

\* Mutant.
FinishSetEventUnguarded(t) ==
    /\ task[t].at = "finish"
    /\ Op(task[t]) = "set_event"
    /\ upsert_workflow_event(task[t])
    /\ Record(t, Unit) \/ Conflict(t)
    /\ UNCHANGED <<deadlines, notifications, consumed, notifications_waiters, events_waiters,
                   connected, used>>

\* set_event: the upsert and the step in one transaction.
FinishSetEvent(t) ==
    /\ task[t].at = "finish"
    /\ Op(task[t]) = "set_event"
    /\ \/ /\ Record(t, Unit)
          /\ upsert_workflow_event(task[t])
       \/ Conflict(t) /\ UNCHANGED workflow_events
    /\ UNCHANGED <<deadlines, notifications, consumed, notifications_waiters, events_waiters,
                   connected, used>>

\* Mutant.
FinishRecvUnguarded(t) ==
    /\ task[t].at = "finish"
    /\ Op(task[t]) = "recv"
    /\ Record(t, OldestNotification) \/ Conflict(t)
    /\ consume_oldest_notification
    /\ notifications_waiters' = DropGuard(notifications_waiters, t)
    /\ UNCHANGED <<deadlines, notifications, workflow_events, events_waiters, connected, used>>

\* recv: the oldest message, if there is one, is consumed and recorded in one transaction.
FinishRecv(t) ==
    /\ task[t].at = "finish"
    /\ Op(task[t]) = "recv"
    /\ \/ Record(t, OldestNotification) /\ consume_oldest_notification
       \/ Conflict(t) /\ UNCHANGED consumed
    /\ notifications_waiters' = DropGuard(notifications_waiters, t)
    /\ UNCHANGED <<deadlines, notifications, workflow_events, events_waiters, connected, used>>

\* get_event records what its last probe found.
FinishGetEvent(t) ==
    /\ task[t].at = "finish"
    /\ Op(task[t]) = "get_event"
    /\ Record(t, IF task[t].found = None THEN Timeout ELSE task[t].found) \/ Conflict(t)
    /\ events_waiters' = DropGuard(events_waiters, t)
    /\ UNCHANGED <<deadlines, notifications, consumed, workflow_events, notifications_waiters,
                   connected, used>>

\* The recorded deadline of an operation passes.
DeadlinePasses(w, i) ==
    /\ deadlines[w][i] = "recorded"
    /\ deadlines' = [deadlines EXCEPT ![w][i] = "past"]
    /\ UNCHANGED <<operation_outputs, notifications, consumed, workflow_events, memory, connected,
                   used>>

----
(* The listener *)

\* notify_waiters reaches every Notified that exists on the entries of p for the channels in C.
NotifyWaiters(p, C) ==
    LET reached == (IF "notifications" \in C THEN notifications_waiters[p] ELSE {})
                     \cup (IF "events" \in C THEN events_waiters[p] ELSE {})
    IN  task' = [t \in Tasks |->
            IF t \in reached /\ task[t].at \in {"probe", "wait"}
            THEN [task[t] EXCEPT !.woken = TRUE]
            ELSE task[t]]

\* Mutant.
WakeNobody(p) == UNCHANGED task

wake_all(p) == NotifyWaiters(p, Channels)

\* The NOTIFY that a trigger sent when an earlier transaction wrote to c arrives, at any time
\* later. It is lost when the connection is.
Deliver(p, c) ==
    /\ connected[p]
    /\ IF c = "events" THEN workflow_events # None ELSE notifications # <<>>
    /\ NotifyWaiters(p, {c})
    /\ UNCHANGED <<tables, notifications_waiters, events_waiters, connected, used>>

\* The one-second poll of a connected listener.
Tick(p) ==
    /\ connected[p]
    /\ wake_all(p)
    /\ UNCHANGED <<tables, notifications_waiters, events_waiters, connected, used>>

Disconnect(p) ==
    /\ connected[p]
    /\ Spend("disruptions", MaxDisruptions)
    /\ connected' = [connected EXCEPT ![p] = FALSE]
    /\ UNCHANGED <<tables, memory>>

\* connect_with and listen_all succeed; whatever was missed is made up for by wake_all.
Connect(p) ==
    /\ ~connected[p]
    /\ connected' = [connected EXCEPT ![p] = TRUE]
    /\ wake_all(p)
    /\ UNCHANGED <<tables, notifications_waiters, events_waiters, used>>

----
(* The specification *)

TaskStep(t) ==
    \/ Replay(t) \/ Miss(t) \/ EnterRecv(t) \/ EnterGetEvent(t)
    \/ RecordSleep(t) \/ WakeUp(t) \/ Probe(t) \/ Wake(t)
    \/ FinishSend(t) \/ FinishSetEvent(t) \/ FinishRecv(t) \/ FinishGetEvent(t)

Next ==
    \/ \E w \in Workflows, p \in Processes : Start(w, p)
    \/ \E t \in Tasks : TaskStep(t)
    \/ \E w \in Workflows : \E i \in Positions(w) : DeadlinePasses(w, i)
    \/ \E p \in Processes, c \in Channels : Deliver(p, c)
    \/ \E p \in Processes : Tick(p) \/ Disconnect(p) \/ Connect(p) \/ Crash(p)

Spec == Init /\ [][Next]_vars

\* Tokio polls tasks and the listener. Deadlines may be arbitrarily far, so nothing is assumed
\* about them, and a NOTIFY need not arrive (the connection may be lost instead).
Fairness ==
    /\ \A t \in Tasks : WF_vars(TaskStep(t))
    /\ \A p \in Processes : WF_vars(Tick(p)) /\ WF_vars(Connect(p))

FairSpec == Spec /\ Fairness

----
(* Properties *)

Live(t) == task[t].at # "idle"

\* The recv calls of the receiver that returned a message.
Receipts ==
    {i \in Positions(Receiver) : /\ Program[Receiver][i] = "recv"
                                 /\ operation_outputs[Receiver][i] \in Written}

\* Exactly-once, in-order delivery: the messages recorded by the receiver's recv calls are the
\* consumed ones, each once and oldest first. None is lost to a crash or a timeout, or taken by an
\* overlapping execution that did not record it (consumption and record are one transaction).
DeliveredExactlyOnce ==
    /\ Cardinality(Receipts) = consumed
    /\ \A i \in Receipts :
        operation_outputs[Receiver][i] = notifications[Cardinality({j \in Receipts : j <= i})]

\* Exactly-once send: a send inserts its message when its step is recorded, once, however many
\* executions of the sender run it or replay it.
SentExactlyOnce ==
    \A w \in Workflows : \A i \in Positions(w) :
        Program[w][i] = "send" =>
            Cardinality({k \in 1 .. Len(notifications) : notifications[k] = <<w, i>>})
                = IF operation_outputs[w][i] = None THEN 0 ELSE 1

\* The event is the value of the last set_event step recorded: a lagging execution never puts an
\* older value back.
EventIsLatest ==
    \A i \in Positions(Source) :
        Program[Source][i] = "set_event" /\ operation_outputs[Source][i] # None =>
            /\ workflow_events # None
            /\ workflow_events[2] >= i

\* All executions of a workflow got the same results, the recorded ones: a timeout in one is
\* never a message in another.
ResultsAgree ==
    \A t \in Tasks :
        Live(t) => \A i \in 1 .. task[t].pc - 1 :
            IF Program[task[t].wf][i] = "sleep"
            THEN deadlines[task[t].wf][i] = "past"
            ELSE task[t].view[i] = operation_outputs[task[t].wf][i]

\* The entry of a waiting get_event stays in the registry, so the listener's notifications and its
\* periodic wake_all reach it. It does not hold: the first of two waiters on one key to return removes
\* the entry that both share.
EventWaiterReachable ==
    \A t \in Tasks :
        task[t].at \in {"sleep", "probe", "wait"} /\ Op(task[t]) = "get_event" =>
            t \in events_waiters[task[t].on]

\* A recv does not sleep on a message: when one is there it is woken long before its deadline,
\* even if the NOTIFY was lost with the listener's connection.
RecvNotStuck ==
    \A t \in Tasks :
        (task[t].at = "wait" /\ Op(task[t]) = "recv" /\ notification_exists_unconsumed)
            ~> task[t].at # "wait"

====
