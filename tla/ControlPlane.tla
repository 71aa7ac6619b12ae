---- MODULE ControlPlane ----
(*
 * The control plane of one process: the conductor session (runtime/conductor.rs), which answers the
 * requests of one websocket one after the other, the admin server (runtime/admin.rs), which answers
 * beside it, and the statements of db/management.rs behind both. A request that needs several statements
 * (recovery, retention, the global timeout) interleaves with the other handler, with workflows that
 * start and end and with a connection that breaks.
 *
 * fork_workflow has a module of its own (Fork). SUCCESS stands for SUCCESS and ERROR, which no operation
 * here tells apart. Optional fields are sets of at most one value.
 *)
EXTENDS Naturals, Sequences, FiniteSets, FiniteSetsExt

CONSTANTS
    Managed,            \* the workflows
    ConductorRequests,  \* requests the conductor may send
    AdminRequests,      \* requests HTTP clients may send
    MaxSent, MaxCalls,  \* bounds on either
    MaxCuts,            \* bound on broken connections
    MaxClock,           \* bound on the workflows created; created_at is the number of the creation
    MaxTasks            \* bound on tasks running one workflow

Handlers == {"conductor", "admin"}
Types == {"recovery", "cancel", "resume", "delete", "retention"}
Statuses == {"ABSENT", "ENQUEUED", "PENDING", "SUCCESS", "CANCELLED"}
Active == {"ENQUEUED", "PENDING"}

\* The fields a message has: only cancel, resume and delete name workflows, only retention has cutoffs,
\* each of them at most once.
ASSUME ControlPlaneAssumption ==
    /\ {MaxSent, MaxCalls, MaxCuts, MaxClock, MaxTasks} \subseteq Nat
    /\ \A r \in ConductorRequests \cup AdminRequests :
          /\ r.type \in Types /\ r.ids \subseteq Managed /\ r.executors \subseteq {"me", "dead"}
          /\ \A field \in {r.gc_cutoff, r.gc_rows, r.timeout_cutoff} :
                /\ field \subseteq Nat /\ \A m, n \in field : m = n
                /\ r.type # "retention" => field = {}
          /\ r.type \in {"recovery", "retention"} => r.ids = {}

VARIABLES
    rows,     \* [w]: workflow_status
    tasks,    \* [w]: how many tasks of this process run w
    clock,    \* workflows created so far
    session,  \* run_conductor: "waiting" to reconnect, "connected" or "stopped"
    link,     \* the connection: "ok", "closed" (the next read or write fails), "silent" (nothing arrives)
    inbox,    \* requests on the connection that are not read yet
    handler,  \* [h]: the request h works on and how far it is
    stopping, \* the cancellation token of the process
    due,          \* history: [h]: what the request of h still owes (see Obliged)
    requests, calls, cuts  \* history, for ids and bounds

database == <<rows, tasks, clock>>
connection == <<session, link, inbox>>
counters == <<stopping, requests, calls, cuts>>
control_vars == <<rows, tasks, clock, session, link, inbox, handler, stopping, due, requests, calls, cuts>>

AbsentWorkflow == [status |-> "ABSENT", created_at |-> 0, owner |-> "me", queued |-> FALSE]
NoRequest == [type |-> "none", ids |-> {}, executors |-> {}, gc_cutoff |-> {}, gc_rows |-> {}, timeout_cutoff |-> {}]
Idle == [at |-> "idle", req |-> NoRequest, pending |-> {}, todo |-> {}, cutoff |-> {}, keep |-> {},
         ok |-> FALSE]

\* Rows, handlers and the connection are well formed; an absent row is blank.
ControlTypeOK ==
    /\ rows \in [Managed -> [status : Statuses, created_at : 0..MaxClock, owner : {"me", "dead"},
                             queued : BOOLEAN]]
    /\ \A w \in Managed : rows[w].status = "ABSENT" => rows[w] = AbsentWorkflow
    /\ tasks \in [Managed -> 0..MaxTasks]
    /\ session \in {"waiting", "connected", "stopped"} /\ link \in {"ok", "closed", "silent"}
    /\ \A h \in Handlers :
          /\ handler[h].at \in {"idle", "list_pending", "recover", "statement", "gc_rows", "gc_delete",
                                "list_active", "cancel_listed", "reply"}
          /\ handler[h].todo \subseteq Managed
    /\ stopping \in BOOLEAN

ControlInit ==
    /\ rows = [w \in Managed |-> AbsentWorkflow]
    /\ tasks = [w \in Managed |-> 0]
    /\ clock = 0
    /\ session = "waiting" /\ link = "closed" /\ inbox = <<>>
    /\ handler = [h \in Handlers |-> Idle]
    /\ stopping = FALSE
    /\ due = [h \in Handlers |-> {}]
    /\ requests = 0 /\ calls = 0 /\ cuts = 0

----
(* Workflows come and go: the rest of the runtime, as far as the control plane can tell. *)

NewRow(owner) == [status |-> "PENDING", created_at |-> clock + 1, owner |-> owner, queued |-> FALSE]

\* start_workflow of a new id, by this process or by one that dies while the workflow runs.
StartWorkflow(w, owner) ==
    /\ rows[w].status = "ABSENT" /\ clock < MaxClock
    /\ owner = "me" => tasks[w] < MaxTasks
    /\ rows' = [rows EXCEPT ![w] = NewRow(owner)]
    /\ tasks' = [tasks EXCEPT ![w] = @ + (IF owner = "me" THEN 1 ELSE 0)]
    /\ clock' = clock + 1
    /\ UNCHANGED <<connection, handler, counters>>

\* A queue runner of this process claims w.
Claim(w) ==
    /\ rows[w].status = "ENQUEUED" /\ tasks[w] < MaxTasks
    /\ rows' = [rows EXCEPT ![w].status = "PENDING", ![w].owner = "me"]
    /\ tasks' = [tasks EXCEPT ![w] = @ + 1]
    /\ UNCHANGED <<clock, connection, handler, counters>>

\* A task ends: update_workflow_outcome spares a cancelled row and finds no deleted one.
EndTask(w) ==
    /\ tasks[w] > 0
    /\ tasks' = [tasks EXCEPT ![w] = @ - 1]
    /\ rows' = IF rows[w].status \in {"ABSENT", "CANCELLED"} THEN rows
               ELSE [rows EXCEPT ![w].status = "SUCCESS"]
    /\ UNCHANGED <<clock, connection, handler, counters>>

----
(* The conductor's connection *)

\* connect_async succeeds.
Connect ==
    /\ session = "waiting" /\ ~stopping
    /\ session' = "connected" /\ link' = "ok"
    /\ inbox' = <<>>
    /\ UNCHANGED <<database, handler, counters>>

\* The conductor sends a request.
Send(r) ==
    /\ session = "connected" /\ link = "ok" /\ requests < MaxSent
    /\ requests' = requests + 1
    /\ inbox' = Append(inbox, r)
    /\ UNCHANGED <<database, session, link, handler, stopping, calls, cuts>>

\* The connection is closed or reset, or the peer vanishes without a word.
CutLink(how) ==
    /\ session = "connected" /\ link = "ok" /\ cuts < MaxCuts
    /\ link' = how
    /\ cuts' = cuts + 1
    /\ UNCHANGED <<database, session, inbox, handler, stopping, requests, calls>>

\* Mutant.
DisconnectForGood ==
    /\ session = "connected" /\ link # "ok"
    /\ handler["conductor"].at = "idle"
    /\ session' = (IF link = "closed" THEN "stopped" ELSE "waiting") /\ inbox' = <<>>
    /\ UNCHANGED <<database, link, handler, counters>>

\* The select loop of connect_and_serve, at its next message, sees a close or a read error, or fails to
\* write a ping. Every iteration makes a new 30 s read timeout and pings come every 20 s, so the read
\* timeout itself never fires: a silent peer is noticed when TCP gives up and the ping fails.
Disconnect ==
    /\ session = "connected" /\ link # "ok"
    /\ handler["conductor"].at = "idle"
    /\ session' = "waiting" /\ inbox' = <<>>
    /\ UNCHANGED <<database, link, handler, counters>>

Shutdown ==
    /\ ~stopping
    /\ stopping' = TRUE
    /\ UNCHANGED <<database, connection, handler, requests, calls, cuts>>

\* The token is seen between two messages, or while waiting to reconnect.
StopSession ==
    /\ stopping /\ session # "stopped"
    /\ handler["conductor"].at = "idle"
    /\ session' = "stopped" /\ link' = "closed" /\ inbox' = <<>>
    /\ UNCHANGED <<database, handler, counters>>

----
(* Dispatch: handle_message and the routes of the admin server *)

\* The first statement of a request, and what a retention request does after its garbage collection.
TimeoutOrReply(r) == IF r.timeout_cutoff = {} THEN "reply" ELSE "list_active"
FirstStatement(r) ==
    CASE r.type = "recovery" -> "list_pending"
      [] r.type \in {"cancel", "resume", "delete"} -> "statement"
      [] OTHER -> IF r.gc_rows \ {0} # {} THEN "gc_rows"
                  ELSE IF r.gc_cutoff # {} THEN "gc_delete" ELSE TimeoutOrReply(r)

Begin(r) ==
    [Idle EXCEPT !.at = FirstStatement(r), !.req = r, !.cutoff = r.gc_cutoff, !.ok = TRUE]

\* The session reads the next request once the one before is answered.
Receive ==
    /\ session = "connected" /\ inbox # <<>>
    /\ handler["conductor"].at = "idle"
    /\ handler' = [handler EXCEPT !["conductor"] = Begin(Head(inbox))]
    /\ inbox' = Tail(inbox)
    /\ UNCHANGED <<database, session, link, counters>>

AdminCall(r) ==
    /\ handler["admin"].at = "idle" /\ calls < MaxCalls /\ ~stopping
    /\ calls' = calls + 1
    /\ handler' = [handler EXCEPT !["admin"] = Begin(r)]
    /\ UNCHANGED <<database, connection, stopping, requests, cuts>>

\* The admin server writes the response.
AdminReply ==
    /\ handler["admin"].at = "reply"
    /\ handler' = [handler EXCEPT !["admin"] = Idle]
    /\ UNCHANGED <<database, connection, counters>>

\* The session writes the reply; a write that fails ends the connection.
Reply ==
    /\ handler["conductor"].at = "reply"
    /\ handler' = [handler EXCEPT !["conductor"] = Idle]
    /\ IF link = "closed"
       THEN session' = "waiting" /\ inbox' = <<>>
       ELSE UNCHANGED <<session, inbox>>
    /\ UNCHANGED <<database, link, counters>>

----
(* The statements of a handler *)

Goto(h, at) == handler' = [handler EXCEPT ![h].at = at]

\* cancel_workflows, resume_workflows and delete_workflows over the ids in S.
Cancelled(S) ==
    [w \in Managed |-> IF w \in S /\ rows[w].status \in Active
                       THEN [rows[w] EXCEPT !.status = "CANCELLED", !.queued = FALSE] ELSE rows[w]]
Resumed(S) ==
    [w \in Managed |-> IF w \in S /\ rows[w].status \notin {"ABSENT", "SUCCESS"}
                       THEN [rows[w] EXCEPT !.status = "ENQUEUED", !.queued = TRUE] ELSE rows[w]]
Deleted(S) == [w \in Managed |-> IF w \in S THEN AbsentWorkflow ELSE rows[w]]

Statement(h) ==
    LET r == handler[h].req IN
    /\ handler[h].at = "statement"
    /\ \/ r.type = "cancel" /\ rows' = Cancelled(r.ids)
       \/ r.type = "resume" /\ rows' = Resumed(r.ids)
       \/ r.type = "delete" /\ rows' = Deleted(r.ids)
    /\ Goto(h, "reply")
    /\ UNCHANGED <<tasks, clock, connection, counters>>

\* list_pending_for_recovery of the executors named, this one or a dead one.
ListPending(h) ==
    /\ handler[h].at = "list_pending"
    /\ handler' = [handler EXCEPT ![h].at = "recover", ![h].pending =
          {[id |-> w, queued |-> rows[w].queued] :
              w \in {v \in Managed : rows[v].status = "PENDING" /\ rows[v].owner \in handler[h].req.executors}}]
    /\ UNCHANGED <<database, connection, counters>>

\* recover_pending_workflows, one workflow of its list: one that was listed with a queue goes back to it if
\* it still is PENDING there; any other is started again unless it is SUCCESS, whatever else has happened
\* to its row since it was listed. The insert brings back a row that is gone.
RecoverOne(h, p) ==
    LET w == p.id
        row == rows[w]
    IN
    /\ handler[h].at = "recover" /\ p \in handler[h].pending
    /\ handler' = [handler EXCEPT ![h].pending = @ \ {p}]
    /\ \/ /\ p.queued
          /\ rows' = IF row.status = "PENDING" /\ row.queued THEN [rows EXCEPT ![w].status = "ENQUEUED"] ELSE rows
          /\ UNCHANGED <<tasks, clock>>
       \/ /\ ~p.queued /\ row.status = "SUCCESS"
          /\ rows' = [rows EXCEPT ![w].owner = "me"]
          /\ UNCHANGED <<tasks, clock>>
       \/ /\ ~p.queued /\ row.status \notin {"ABSENT", "SUCCESS"} /\ tasks[w] < MaxTasks
          /\ rows' = [rows EXCEPT ![w].owner = "me"]
          /\ tasks' = [tasks EXCEPT ![w] = @ + 1]
          /\ UNCHANGED clock
       \/ /\ ~p.queued /\ row.status = "ABSENT" /\ tasks[w] < MaxTasks /\ clock < MaxClock
          /\ rows' = [rows EXCEPT ![w] = NewRow("me")]
          /\ tasks' = [tasks EXCEPT ![w] = @ + 1]
          /\ clock' = clock + 1
    /\ UNCHANGED <<connection, counters>>

\* A workflow that cannot be recovered (not registered, or its insert fails) is logged and skipped.
SkipOne(h, p) ==
    /\ handler[h].at = "recover" /\ p \in handler[h].pending
    /\ handler' = [handler EXCEPT ![h].pending = @ \ {p}]
    /\ UNCHANGED <<database, connection, counters>>

Recovered(h) ==
    /\ handler[h].at = "recover" /\ handler[h].pending = {}
    /\ Goto(h, "reply")
    /\ UNCHANGED <<database, connection, counters>>

Existing == {w \in Managed : rows[w].status # "ABSENT"}

\* The k newest rows (all of them when there are fewer).
Newest(k) ==
    {w \in Existing : Cardinality({v \in Existing : rows[v].created_at > rows[w].created_at}) < k}

\* garbage_collect, first statement: created_at of the k-th newest row, if there is one. The cutoff is the
\* later one of this and the one given.
ReadRowsCutoff(h) ==
    LET k == CHOOSE n \in handler[h].req.gc_rows : TRUE
        newest == Newest(k)
        read == IF Cardinality(newest) < k THEN {} ELSE {Min({rows[w].created_at : w \in newest})}
        both == handler[h].cutoff \cup read
    IN
    /\ handler[h].at = "gc_rows"
    /\ handler' = [handler EXCEPT
          ![h].at = IF both = {} THEN TimeoutOrReply(handler[h].req) ELSE "gc_delete",
          ![h].cutoff = IF both = {} THEN {} ELSE {Max(both)},
          ![h].keep = {[id |-> w, created_at |-> rows[w].created_at] : w \in newest}]
    /\ UNCHANGED <<database, connection, counters>>

\* Mutant.
IsOldInclusive(row, cutoff) == row.created_at <= cutoff

IsOld(row, cutoff) == row.created_at < cutoff

\* garbage_collect, second statement: DELETE of what is old and not active.
DeleteOld(h) ==
    LET cutoff == CHOOSE c \in handler[h].cutoff : TRUE IN
    /\ handler[h].at = "gc_delete"
    /\ rows' = Deleted({w \in Existing : IsOld(rows[w], cutoff) /\ rows[w].status \notin Active})
    /\ Goto(h, TimeoutOrReply(handler[h].req))
    /\ UNCHANGED <<tasks, clock, connection, counters>>

\* Mutant.
ActiveBeforeExclusive(cutoff) == {w \in Managed : rows[w].status \in Active /\ rows[w].created_at < cutoff}

\* The list_workflows filter of cancel_all_before.
ActiveBefore(cutoff) == {w \in Managed : rows[w].status \in Active /\ rows[w].created_at <= cutoff}

ListActive(h) ==
    LET todo == ActiveBefore(CHOOSE c \in handler[h].req.timeout_cutoff : TRUE) IN
    /\ handler[h].at = "list_active"
    /\ handler' = [handler EXCEPT ![h].at = IF todo = {} THEN "reply" ELSE "cancel_listed", ![h].todo = todo]
    /\ UNCHANGED <<database, connection, counters>>

CancelListed(h) ==
    /\ handler[h].at = "cancel_listed"
    /\ rows' = Cancelled(handler[h].todo)
    /\ handler' = [handler EXCEPT ![h].at = "reply", ![h].todo = {}]
    /\ UNCHANGED <<tasks, clock, connection, counters>>

\* A statement fails: the request ends with an error; a retention whose garbage collection fails cancels
\* nothing.
StatementFails(h) ==
    /\ handler[h].at \notin {"idle", "recover", "reply"}
    /\ handler' = [handler EXCEPT ![h].at = "reply", ![h].ok = FALSE, ![h].todo = {}]
    /\ UNCHANGED <<database, connection, counters>>

----

\* History: the workflows a request is about when it arrives, and what it asks for each.
Obliged(r) ==
    {[id |-> w, want |-> r.type] : w \in Existing \cap r.ids}
    \cup {[id |-> w, want |-> "cancel"] : w \in {v \in Existing : rows[v].status \in Active
                                                 /\ \E c \in r.timeout_cutoff : rows[v].created_at <= c}}
    \cup {[id |-> w, want |-> "collect"] : w \in {v \in Existing : rows[v].status \notin Active
                                                  /\ \E c \in r.gc_cutoff : rows[v].created_at < c}}

Settled(want, row) ==
    \/ want = "cancel" /\ row.status \notin Active
    \/ want = "resume" /\ row.status # "CANCELLED"
    \/ want = "delete" /\ row.status = "ABSENT"
    \/ want = "collect" /\ row.status \in Active \cup {"ABSENT"}

\* What is left of it.
Track ==
    due' = [h \in Handlers |->
              {d \in (IF handler[h].at = "idle" THEN Obliged(handler'[h].req) ELSE due[h]) :
                  handler'[h].at # "idle" /\ ~Settled(d.want, rows'[d.id])}]

HandlerStep(h) ==
    \/ ListPending(h) \/ Recovered(h) \/ Statement(h) \/ ReadRowsCutoff(h) \/ DeleteOld(h)
    \/ ListActive(h) \/ CancelListed(h)
    \/ \E p \in handler[h].pending : RecoverOne(h, p) \/ SkipOne(h, p)

SessionStep == Connect \/ Disconnect \/ Receive \/ Reply \/ StopSession

ControlNext ==
    /\ \/ \E w \in Managed : Claim(w) \/ EndTask(w) \/ \E o \in {"me", "dead"} : StartWorkflow(w, o)
       \/ SessionStep \/ AdminReply \/ Shutdown
       \/ \E r \in ConductorRequests : Send(r)
       \/ \E r \in AdminRequests : AdminCall(r)
       \/ \E how \in {"closed", "silent"} : CutLink(how)
       \/ \E h \in Handlers : HandlerStep(h) \/ StatementFails(h)
    /\ Track

\* The session is one task, which goes on while it has something to do; the conductor's address answers
\* sooner or later, and a ping to a silent peer fails sooner or later.
ControlFairness == WF_control_vars((SessionStep \/ HandlerStep("conductor")) /\ Track)

ControlSpec == ControlInit /\ [][ControlNext]_control_vars /\ ControlFairness

----
(* Properties *)

\* A success answer is true: every workflow that a cancel, resume, delete or retention request was about
\* when it arrived has, by the time of the reply, been in the state the request asks for, although
\* workflows start, end, are claimed and are managed by the other handler between its statements.
SuccessMeansDone ==
    \A h \in Handlers : handler[h].at = "reply" /\ handler[h].ok => due[h] = {}

\* A garbage collection with a row threshold never takes one of the newest rows it counted, unless that is
\* older than the cutoff it was given too, and no garbage collection takes a workflow that is queued or
\* running, whatever happens between its statements.
CollectionSparesNewest ==
    [][\A h \in Handlers :
          handler[h].at = "gc_delete" /\ handler'[h].at # "gc_delete" =>
              \A w \in Existing :
                  \/ rows[w].status \in Active
                  \/ /\ \A c \in handler[h].req.gc_cutoff : rows[w].created_at >= c
                     /\ [id |-> w, created_at |-> rows[w].created_at] \in handler[h].keep
                  => rows'[w] = rows[w]]_control_vars

\* A lost conductor connection is made again, unless the process is shut down: no reply, close or error
\* leaves the session for good, and a request in progress does not keep it from noticing.
ConductorReconnects ==
    (session # "connected" \/ link # "ok") ~> (stopping \/ (session = "connected" /\ link = "ok"))

\* A workflow that is deleted stays deleted until somebody starts it again. It does not hold: a recovery that
\* listed the workflow before it was deleted inserts its row again (RecoverOne).
DeletedStaysDeleted ==
    [][\A w \in Managed :
          rows[w].status = "ABSENT" /\ rows'[w].status # "ABSENT" => \E o \in {"me", "dead"} : StartWorkflow(w, o)]_control_vars
====
