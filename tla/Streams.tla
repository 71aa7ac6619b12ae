---- MODULE Streams ----
(*
 * A durable stream: one key of one producing workflow, the executions that append to it and the
 * readers that tail it (read_stream, its snapshot variant and read_stream_async).
 *
 * The producer's body is a fixed program of write_stream and close_stream steps. Several
 * executions of it may overlap, crash and replay. An entry's value is the position of the step
 * that wrote it. The two queries of a step's check are one action here (WorkflowEngine splits
 * them), and the one-second poll makes a reader's wait end at any time, so the waiter registry,
 * which only shortens the wait, is left out. Clients that read a live stream through the channel
 * of read_stream_async see the same loop.
 *)
EXTENDS Integers, Sequences, FiniteSets

CONSTANTS
    Program,            \* the steps of the producer's body
    Executions,         \* slots for executions of the producer
    Readers,            \* calls that read the stream
    SnapshotReaders,    \* those that do not block
    FromOffset,         \* FromOffset[r]: the first offset r asks for
    MaxStarts,          \* bound on executions begun
    MaxCancels          \* bound on cancel requests

\* A body without a stream operation has no stream to speak of.
ASSUME StreamsAssumption ==
    /\ Program \in Seq({"write_stream", "close_stream"}) \ {<<>>}
    /\ SnapshotReaders \subseteq Readers
    /\ FromOffset \in [Readers -> Nat]
    /\ MaxStarts \in Nat
    /\ MaxCancels \in Nat

VARIABLES
    streams,            \* the rows of the stream by offset: streams[k] has offset k - 1
    operation_outputs,  \* the steps of the producer that are recorded
    status,             \* the producer's status
    execution,          \* the running executions
    reader,             \* the readers
    starts,
    cancels

vars == <<streams, operation_outputs, status, execution, reader, starts, cancels>>

Steps == 1 .. Len(Program)

Entry == [function_id : Steps, sentinel : BOOLEAN]

Statuses == {"DELAYED", "ENQUEUED", "PENDING", "SUCCESS", "ERROR", "CANCELLED"}

\* at: about to check the step, to write it, or to write the outcome (ok or not).
NoExecution == [at |-> "idle", pc |-> 1, ok |-> FALSE]

\* current is the next offset wanted, got whether the last read returned entries, values what was
\* returned so far; an ended reader is "closed" (stream at its end) or "open" (snapshot).
Reader == [at : {"read", "status", "wait", "closed", "open"}, current : Nat, got : BOOLEAN,
           values : Seq(Steps), sentinel : BOOLEAN]

\* Rows, executions and readers are well formed; a reader's next offset is never negative.
TypeOK ==
    /\ streams \in Seq(Entry)
    /\ operation_outputs \subseteq Steps
    /\ status \in Statuses
    /\ execution \in [Executions -> [at : {"idle", "check", "write", "outcome"},
                                     pc : Nat, ok : BOOLEAN]]
    /\ reader \in [Readers -> Reader]
    /\ starts \in Nat
    /\ cancels \in Nat

\* A producer may be enqueued with or without a delay.
Init ==
    /\ streams = <<>>
    /\ operation_outputs = {}
    /\ status \in {"DELAYED", "ENQUEUED"}
    /\ execution = [x \in Executions |-> NoExecution]
    /\ reader = [r \in Readers |-> [at |-> "read", current |-> FromOffset[r], got |-> FALSE,
                                    values |-> <<>>, sentinel |-> FALSE]]
    /\ starts = 0
    /\ cancels = 0

----
(* The producer *)

\* The delay elapses and a queue runner promotes the row.
Promote ==
    /\ status = "DELAYED"
    /\ status' = "ENQUEUED"
    /\ UNCHANGED <<streams, operation_outputs, execution, reader, starts, cancels>>

\* An execution begins: the first one when the row is claimed, later ones by recovery.
Start ==
    /\ status \in {"ENQUEUED", "PENDING"}
    /\ starts < MaxStarts
    /\ starts' = starts + 1
    /\ status' = "PENDING"
    /\ \E x \in Executions :
        /\ execution[x].at = "idle"
        /\ execution' = [execution EXCEPT ![x] = [NoExecution EXCEPT !.at = "check"]]
    /\ UNCHANGED <<streams, operation_outputs, reader, cancels>>

\* The process of an execution dies; it counts on a later Start to be recovered.
Crash(x) ==
    /\ execution[x].at # "idle"
    /\ starts < MaxStarts
    /\ execution' = [execution EXCEPT ![x] = NoExecution]
    /\ UNCHANGED <<streams, operation_outputs, status, reader, starts, cancels>>

Cancel ==
    /\ status \in {"DELAYED", "ENQUEUED", "PENDING"}
    /\ cancels < MaxCancels
    /\ cancels' = cancels + 1
    /\ status' = "CANCELLED"
    /\ UNCHANGED <<streams, operation_outputs, execution, reader, starts>>

Fail(ex) == [ex EXCEPT !.at = "outcome", !.ok = FALSE]

\* The step returned: the next one, or the end of the body.
Advance(ex) ==
    IF ex.pc = Len(Program)
    THEN [ex EXCEPT !.at = "outcome", !.ok = TRUE]
    ELSE [ex EXCEPT !.at = "check", !.pc = @ + 1]

\* check_operation_execution of write_stream_raw.
Check(x) ==
    /\ execution[x].at = "check"
    /\ execution' = [execution EXCEPT ![x] =
            IF status = "CANCELLED" THEN Fail(@)
            ELSE IF @.pc \in operation_outputs THEN Advance(@)
            ELSE [@ EXCEPT !.at = "write"]]
    /\ UNCHANGED <<streams, operation_outputs, status, reader, starts, cancels>>

\* Mutant.
NeverClosed == FALSE

\* The closed guard of write_stream_entry.
Closed == \E k \in 1 .. Len(streams) : streams[k].sentinel

\* Mutant.
WriteTwoTransactions(x) ==
    LET n == execution[x].pc
    IN  /\ execution[x].at = "write"
        /\ IF Closed
           THEN /\ execution' = [execution EXCEPT ![x] = Fail(@)]
                /\ UNCHANGED <<streams, operation_outputs>>
           ELSE /\ streams' = Append(streams,
                        [function_id |-> n, sentinel |-> Program[n] = "close_stream"])
                /\ operation_outputs' = operation_outputs \cup {n}
                /\ execution' = [execution EXCEPT ![x] =
                        IF n \in operation_outputs THEN Fail(@) ELSE Advance(@)]
        /\ UNCHANGED <<status, reader, starts, cancels>>

\* The transaction: entry at the next offset and step record, or an error (the stream is closed,
\* or another execution recorded the step) that rolls it back and ends the body.
Write(x) ==
    LET n == execution[x].pc
    IN  /\ execution[x].at = "write"
        /\ \/ /\ Closed \/ n \in operation_outputs
              /\ execution' = [execution EXCEPT ![x] = Fail(@)]
              /\ UNCHANGED <<streams, operation_outputs>>
           \/ /\ ~Closed
              /\ n \notin operation_outputs
              /\ streams' = Append(streams,
                        [function_id |-> n, sentinel |-> Program[n] = "close_stream"])
              /\ operation_outputs' = operation_outputs \cup {n}
              /\ execution' = [execution EXCEPT ![x] = Advance(@)]
        /\ UNCHANGED <<status, reader, starts, cancels>>

WriteOutcome(x) ==
    /\ execution[x].at = "outcome"
    /\ status' = IF status = "CANCELLED" THEN status
                 ELSE IF execution[x].ok THEN "SUCCESS" ELSE "ERROR"
    /\ execution' = [execution EXCEPT ![x] = NoExecution]
    /\ UNCHANGED <<streams, operation_outputs, reader, starts, cancels>>

----
(* The readers *)

\* The values at or after offset from, up to the sentinel.
ValuesFrom(from) ==
    LET open == {k \in from + 1 .. Len(streams) : \A j \in from + 1 .. k : ~streams[j].sentinel}
    IN  [k \in 1 .. Cardinality(open) |-> streams[from + k].function_id]

\* Mutant.
NextOffsetSame(r, n) == IF n = 0 THEN r.current ELSE r.current + n - 1

\* current after n entries: the offset of the last one plus 1.
NextOffset(r, n) == r.current + n

\* read_stream_entries, and what the loop does with the result before its next query.
Read(r) ==
    LET values == ValuesFrom(reader[r].current)
        end == \E k \in reader[r].current + 1 .. Len(streams) : streams[k].sentinel
    IN  /\ reader[r].at = "read"
        /\ reader' = [reader EXCEPT ![r] =
                [reader[r] EXCEPT
                    !.at = IF end THEN "closed"
                           ELSE IF r \in SnapshotReaders THEN "open" ELSE "status",
                    !.values = reader[r].values \o values,
                    !.current = NextOffset(reader[r], Len(values)),
                    !.got = values # <<>>,
                    !.sentinel = end]]
        /\ UNCHANGED <<streams, operation_outputs, status, execution, starts, cancels>>

\* Mutant.
ActiveUnlessSuccess(s) == s # "SUCCESS"

Active(s) == s \in {"PENDING", "ENQUEUED"}

\* get_status: a producer that is not active ends the stream. Nothing new: wait; otherwise read on.
CheckProducer(r) ==
    /\ reader[r].at = "status"
    /\ reader' = [reader EXCEPT ![r].at =
            IF ~Active(status) THEN "closed" ELSE IF reader[r].got THEN "read" ELSE "wait"]
    /\ UNCHANGED <<streams, operation_outputs, status, execution, starts, cancels>>

\* Notified, or the poll interval is over.
Wake(r) ==
    /\ reader[r].at = "wait"
    /\ reader' = [reader EXCEPT ![r].at = "read"]
    /\ UNCHANGED <<streams, operation_outputs, status, execution, starts, cancels>>

----
(* The specification *)

ExecutionStep(x) == Check(x) \/ Write(x) \/ WriteOutcome(x)

ReaderStep(r) == Read(r) \/ CheckProducer(r) \/ Wake(r)

Next ==
    \/ Promote \/ Start \/ Cancel
    \/ \E x \in Executions : ExecutionStep(x) \/ Crash(x)
    \/ \E r \in Readers : ReaderStep(r)

Spec == Init /\ [][Next]_vars

\* Tokio polls the readers. Nothing is assumed about the producer.
Fairness == \A r \in Readers : WF_vars(ReaderStep(r))

FairSpec == Spec /\ Fairness

----
(* Properties *)

\* Exactly-once, ordered writes: the stream holds one entry per recorded step, in step order and
\* at dense offsets, however often the steps were retried or replayed.
WrittenOnce ==
    /\ Len(streams) = Cardinality(operation_outputs)
    /\ \A k \in 1 .. Len(streams) : streams[k].function_id = k

\* Nothing follows the closing sentinel, not even from a body that writes after closing.
SentinelIsLast ==
    \A k \in 1 .. Len(streams) : streams[k].sentinel => k = Len(streams)

\* What a reader has returned is a contiguous piece of the stream from the offset it asked for,
\* with no value skipped or repeated, and all of it once the reader has seen the sentinel.
ReaderFollowsStream ==
    \A r \in Readers :
        LET all == ValuesFrom(FromOffset[r])
            mine == reader[r].values
        IN  /\ Len(mine) <= Len(all)
            /\ mine = SubSeq(all, 1, Len(mine))
            /\ reader[r].sentinel => Len(mine) = Len(all)

\* A reader that ends because the producer is no longer active has drained the stream: it ends
\* with every value that is in it. It does not hold: the values are read before the status.
DrainsBeforeClosing ==
    [][\A r \in Readers :
        reader[r].at = "status" /\ reader'[r].at = "closed" =>
            reader[r].values = ValuesFrom(FromOffset[r])]_vars

\* Readers end: once the producer has ended, whichever way, every reader returns.
ReadersReturn ==
    \A r \in Readers :
        status \in {"SUCCESS", "ERROR", "CANCELLED"} ~> reader[r].at \in {"closed", "open"}

====
