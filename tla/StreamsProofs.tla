---- MODULE StreamsProofs ----
(*
 * Proofs about Streams, for every program of writes and closes, every number of overlapping
 * executions and readers, every starting offset and every bound.
 *)
EXTENDS Streams, FiniteSetTheorems, TLAPS

Execution == [at : {"idle", "check", "write", "outcome"}, pc : Nat, ok : BOOLEAN]

\* The log behind the stream: the recorded steps are a prefix of the body, row k is step k's, and
\* only the last row can be a sentinel.
LogInv ==
    /\ operation_outputs = 1 .. Len(streams)
    /\ \A k \in 1 .. Len(streams) : streams[k].function_id = k
    /\ SentinelIsLast

\* An execution inside its body is at a step, and every step before it is recorded.
ExecutionInv ==
    \A x \in Executions : execution[x].at \in {"check", "write"} =>
        /\ execution[x].pc \in Steps
        /\ execution[x].pc <= Len(streams) + 1

\* A reader has exactly the values from its first offset up to current, none of them the sentinel;
\* if it saw the sentinel, that is the row at current.
ReaderInv ==
    \A r \in Readers :
        LET me == reader[r]
        IN  /\ me.current = FromOffset[r] + Len(me.values)
            /\ \A k \in 1 .. Len(me.values) : me.values[k] = FromOffset[r] + k
            /\ me.values # <<>> => me.current <= Len(streams)
            /\ \A k \in FromOffset[r] + 1 .. me.current : ~streams[k].sentinel
            /\ me.sentinel => me.current + 1 = Len(streams) /\ streams[me.current + 1].sentinel

Inv == TypeOK /\ LogInv /\ ExecutionInv /\ ReaderInv

----
(* Operators *)

\* The number of values a read from offset from finds.
Found(from) ==
    IF from >= Len(streams) THEN 0
    ELSE IF streams[Len(streams)].sentinel THEN Len(streams) - 1 - from ELSE Len(streams) - from

\* What read_stream_entries returns: the rows from the offset on, without the sentinel.
LEMMA ValuesFound ==
    ASSUME streams \in Seq(Entry), SentinelIsLast,
           \A k \in 1 .. Len(streams) : streams[k].function_id = k,
           NEW from \in Nat
    PROVE  /\ Found(from) \in Nat
           /\ ValuesFrom(from) = [k \in 1 .. Found(from) |-> from + k]
<1> DEFINE n == Len(streams)
           open == {k \in from + 1 .. n : \A j \in from + 1 .. k : ~streams[j].sentinel}
<1>1. n \in Nat /\ Found(from) \in Nat
    BY DEF Found, Entry
<1>2. \A k \in 1 .. n : streams[k].sentinel => k = n
    BY DEF SentinelIsLast
<1>3. open = from + 1 .. from + Found(from)
    BY <1>1, <1>2 DEF Found
<1>4. Cardinality(open) = Found(from)
    <2> DEFINE m == from + Found(from)
    <2>1. m \in Int /\ from + 1 \in Int /\ m - (from + 1) + 1 = Found(from)
          /\ (from + 1 > m <=> Found(from) = 0)
        BY <1>1
    <2>2. Cardinality(from + 1 .. m) = Found(from)
        <3> HIDE DEF m
        <3>1. Cardinality(from + 1 .. m) = IF from + 1 > m THEN 0 ELSE m - (from + 1) + 1
            BY <2>1, FS_Interval
        <3> QED BY <2>1, <3>1
    <2> QED BY <1>3, <2>2
<1>5. \A k \in 1 .. Found(from) : from + k \in 1 .. n
    BY <1>1 DEF Found
<1>6. ValuesFrom(from) = [k \in 1 .. Found(from) |-> streams[from + k].function_id]
    BY <1>4 DEF ValuesFrom
<1> QED BY <1>1, <1>5, <1>6

\* The values found lie in the stream; when a sentinel follows them it is the next row.
LEMMA FoundBounds ==
    ASSUME streams \in Seq(Entry), SentinelIsLast, Len(streams) <= Len(Program), NEW from \in Nat
    PROVE  /\ from + Found(from) <= Len(streams) \/ Found(from) = 0
           /\ \A k \in from + 1 .. from + Found(from) :
                k \in Steps /\ k <= Len(streams) /\ ~streams[k].sentinel
           /\ (\E k \in from + 1 .. Len(streams) : streams[k].sentinel) =>
                /\ from + Found(from) + 1 = Len(streams)
                /\ streams[from + Found(from) + 1].sentinel
<1> DEFINE n == Len(streams)
<1>1. n \in Nat /\ Len(Program) \in Nat /\ n <= Len(Program)
    BY StreamsAssumption
<1>2. \A k \in 1 .. n : streams[k].sentinel => k = n
    BY DEF SentinelIsLast
<1> HIDE DEF n
<1>3. CASE from >= n
    BY <1>1, <1>3 DEF Found, n
<1>4. CASE from < n /\ streams[n].sentinel
    <2>1. Found(from) = n - 1 - from
        BY <1>1, <1>4 DEF Found, n
    <2>2. from + Found(from) = n - 1
        BY <1>1, <2>1
    <2>3. \A k \in from + 1 .. n - 1 : k \in Steps /\ k <= n /\ ~streams[k].sentinel
        BY <1>1, <1>2 DEF Steps
    <2>4. from + Found(from) + 1 = n /\ from + Found(from) <= n
        BY <1>1, <2>2
    <2>5. \A k \in from + 1 .. from + Found(from) : k \in Steps /\ k <= n /\ ~streams[k].sentinel
        BY <2>2, <2>3
    <2> QED BY <1>4, <2>4, <2>5 DEF n
<1>5. CASE from < n /\ ~streams[n].sentinel
    <2>1. Found(from) = n - from
        BY <1>1, <1>5 DEF Found, n
    <2>2. from + Found(from) = n
        BY <1>1, <2>1
    <2>3. \A k \in from + 1 .. n : k \in Steps /\ k <= n /\ ~streams[k].sentinel
        BY <1>1, <1>2, <1>5 DEF Steps
    <2> QED BY <1>1, <2>2, <2>3 DEF n
<1> QED BY <1>1, <1>3, <1>4, <1>5

\* Two runs of consecutive offsets, the second starting where the first ends, make one.
LEMMA ConcatRuns ==
    ASSUME NEW T, NEW s \in Seq(T), NEW t \in Seq(T), NEW from \in Nat,
           \A k \in 1 .. Len(s) : s[k] = from + k,
           \A k \in 1 .. Len(t) : t[k] = from + Len(s) + k
    PROVE  /\ s \o t \in Seq(T)
           /\ Len(s \o t) = Len(s) + Len(t)
           /\ \A k \in 1 .. Len(s) + Len(t) : (s \o t)[k] = from + k
<1>1. /\ s \o t \in Seq(T) /\ Len(s \o t) = Len(s) + Len(t)
      /\ Len(s) \in Nat /\ Len(t) \in Nat
    OBVIOUS
<1>2. ASSUME NEW k \in 1 .. Len(s) + Len(t) PROVE (s \o t)[k] = from + k
    <2>1. CASE k <= Len(s)
        <3>1. (s \o t)[k] = s[k] /\ k \in 1 .. Len(s)
            BY <1>1, <2>1
        <3> QED BY <3>1
    <2>2. CASE k > Len(s)
        <3>1. (s \o t)[k] = t[k - Len(s)] /\ k - Len(s) \in 1 .. Len(t)
            BY <1>1, <2>2
        <3>2. from + Len(s) + (k - Len(s)) = from + k
            BY <1>1
        <3> QED BY <3>1, <3>2
    <2> QED BY <1>1, <2>1, <2>2
<1> QED BY <1>1, <1>2

----
(* The inductive invariant *)

LEMMA InitInv == Init => Inv
<1> SUFFICES ASSUME Init PROVE Inv
    OBVIOUS
<1>1. FromOffset \in [Readers -> Nat]
    BY StreamsAssumption
<1>2. TypeOK
    BY <1>1 DEF Init, TypeOK, Statuses, NoExecution, Reader, Entry
<1>3. LogInv
    BY DEF Init, LogInv, SentinelIsLast
<1>4. ExecutionInv
    BY DEF Init, ExecutionInv, NoExecution
<1>5. ReaderInv
    BY <1>1 DEF Init, ReaderInv
<1> QED BY <1>2, <1>3, <1>4, <1>5 DEF Inv

\* A step that leaves the stream and the step records alone: the executions have to be looked at.
LEMMA ExecutionMoves ==
    ASSUME Inv, NEW x \in Executions, NEW ex \in Execution,
           ex.at \in {"check", "write"} => ex.pc \in Steps /\ ex.pc <= Len(streams) + 1,
           execution' = [execution EXCEPT ![x] = ex],
           status' \in Statuses, starts' \in Nat, cancels' \in Nat,
           UNCHANGED <<streams, operation_outputs, reader>>
    PROVE  Inv'
<1>1. TypeOK'
    BY DEF Inv, TypeOK, Execution
<1>2. ExecutionInv'
    BY DEF Inv, TypeOK, Execution, ExecutionInv
<1>3. LogInv'
    BY DEF Inv, LogInv, SentinelIsLast
<1>4. ReaderInv'
    BY DEF Inv, ReaderInv
<1> QED BY <1>1, <1>2, <1>3, <1>4 DEF Inv

\* Moving on from a recorded step, or failing, keeps an execution well placed.
LEMMA AdvanceOK ==
    ASSUME NEW n \in Nat,
           NEW ex \in Execution, ex.pc \in Steps, ex.pc <= n
    PROVE  /\ Advance(ex) \in Execution
           /\ Advance(ex).at \in {"check", "write"} =>
                Advance(ex).pc \in Steps /\ Advance(ex).pc <= n + 1
<1>1. Len(Program) \in Nat
    BY StreamsAssumption
<1>2. CASE ex.pc = Len(Program)
    BY <1>1, <1>2 DEF Advance, Execution
<1>3. CASE ex.pc # Len(Program)
    <2>1. Advance(ex) = [ex EXCEPT !.at = "check", !.pc = ex.pc + 1]
        BY <1>3 DEF Advance
    <2>2. ex.pc + 1 \in Steps /\ ex.pc + 1 <= n + 1 /\ ex.pc + 1 \in Nat
        BY <1>1, <1>3 DEF Steps
    <2> QED BY <2>1, <2>2 DEF Execution
<1> QED BY <1>2, <1>3

LEMMA FailOK ==
    ASSUME NEW ex \in Execution
    PROVE  /\ Fail(ex) \in Execution
           /\ Fail(ex).at = "outcome"
    BY DEF Fail, Execution

\* The transaction that appends an entry.
LEMMA AppendOK ==
    ASSUME Inv, NEW x \in Executions, execution[x].at = "write", ~Closed,
           execution[x].pc \notin operation_outputs,
           streams' = Append(streams, [function_id |-> execution[x].pc,
                                       sentinel |-> Program[execution[x].pc] = "close_stream"]),
           operation_outputs' = operation_outputs \cup {execution[x].pc},
           execution' = [execution EXCEPT ![x] = Advance(@)],
           UNCHANGED <<status, reader, starts, cancels>>
    PROVE  Inv'
<1> DEFINE n == execution[x].pc
           e == [function_id |-> n, sentinel |-> Program[n] = "close_stream"]
<1>1. n \in Steps /\ n <= Len(streams) + 1 /\ streams \in Seq(Entry) /\ Len(streams) \in Nat
    BY DEF Inv, TypeOK, Execution, ExecutionInv
<1>2. n = Len(streams) + 1
    BY <1>1 DEF Inv, LogInv, Steps
<1>3. e \in Entry
    BY <1>1 DEF Entry
<1>4. /\ streams' \in Seq(Entry) /\ Len(streams') = Len(streams) + 1
      /\ \A k \in 1 .. Len(streams) : streams'[k] = streams[k]
      /\ streams'[Len(streams) + 1] = e
    BY <1>1, <1>3
<1>5. \A k \in 1 .. Len(streams) : ~streams[k].sentinel
    BY DEF Closed
<1>6. LogInv'
    <2>1. operation_outputs' = 1 .. Len(streams')
        BY <1>1, <1>2, <1>4 DEF Inv, LogInv
    <2>2. ASSUME NEW k \in 1 .. Len(streams')
          PROVE  streams'[k].function_id = k /\ (streams'[k].sentinel => k = Len(streams'))
        <3>1. CASE k = Len(streams) + 1
            BY <1>2, <1>4, <3>1
        <3>2. CASE k \in 1 .. Len(streams)
            BY <1>4, <1>5, <3>2 DEF Inv, LogInv
        <3> QED BY <1>1, <1>4, <3>1, <3>2
    <2> QED BY <2>1, <2>2 DEF LogInv, SentinelIsLast
<1>7. /\ Advance(execution[x]) \in Execution
      /\ Advance(execution[x]).at \in {"check", "write"} =>
            Advance(execution[x]).pc \in Steps /\ Advance(execution[x]).pc <= Len(streams') + 1
    BY <1>1, <1>2, <1>4, AdvanceOK DEF Inv, TypeOK, Execution
<1>8. ExecutionInv'
    BY <1>1, <1>4, <1>7 DEF Inv, TypeOK, Execution, ExecutionInv
<1>9. ReaderInv'
    <2> SUFFICES ASSUME NEW r \in Readers
                 PROVE  /\ reader[r].current = FromOffset[r] + Len(reader[r].values)
                        /\ \A k \in 1 .. Len(reader[r].values) :
                              reader[r].values[k] = FromOffset[r] + k
                        /\ reader[r].values # <<>> => reader[r].current <= Len(streams')
                        /\ \A k \in FromOffset[r] + 1 .. reader[r].current : ~streams'[k].sentinel
                        /\ reader[r].sentinel => FALSE
        BY DEF ReaderInv
    <2>1. reader[r] \in Reader /\ FromOffset[r] \in Nat
        BY StreamsAssumption DEF Inv, TypeOK, Execution
    <2>2. /\ reader[r].current = FromOffset[r] + Len(reader[r].values)
          /\ \A k \in 1 .. Len(reader[r].values) : reader[r].values[k] = FromOffset[r] + k
          /\ reader[r].values # <<>> => reader[r].current <= Len(streams)
          /\ \A k \in FromOffset[r] + 1 .. reader[r].current : ~streams[k].sentinel
          /\ reader[r].sentinel => /\ reader[r].current + 1 = Len(streams)
                                   /\ streams[reader[r].current + 1].sentinel
        BY DEF Inv, ReaderInv
    <2>3. reader[r].values \in Seq(Steps) /\ reader[r].current \in Nat
        BY <2>1 DEF Reader
    <2>4. ~reader[r].sentinel
        BY <1>1, <1>5, <2>2, <2>3
    <2>5. ASSUME NEW k \in FromOffset[r] + 1 .. reader[r].current PROVE ~streams'[k].sentinel
        <3>1. reader[r].values # <<>>
            BY <2>1, <2>2, <2>3, <2>5
        <3> QED BY <1>1, <1>4, <2>1, <2>2, <2>3, <2>5, <3>1
    <2>6. reader[r].values # <<>> => reader[r].current <= Len(streams')
        BY <1>1, <1>4, <2>2, <2>3
    <2> QED BY <2>2, <2>4, <2>5, <2>6
<1>10. TypeOK'
    BY <1>1, <1>4, <1>7 DEF Inv, TypeOK, Execution
<1> QED BY <1>6, <1>8, <1>9, <1>10 DEF Inv

\* A reader moves on; nothing else does.
LEMMA ReaderMoves ==
    ASSUME Inv, UNCHANGED <<streams, operation_outputs, status, execution, starts, cancels>>,
           reader' \in [Readers -> Reader], ReaderInv'
    PROVE  Inv'
<1>1. TypeOK'
    BY DEF Inv, TypeOK
<1>2. LogInv'
    BY DEF Inv, LogInv, SentinelIsLast
<1>3. ExecutionInv'
    BY DEF Inv, ExecutionInv
<1> QED BY <1>1, <1>2, <1>3 DEF Inv

\* A reader that only changes place.
LEMMA ReaderTurns ==
    ASSUME Inv, UNCHANGED <<streams, operation_outputs, status, execution, starts, cancels>>,
           NEW r \in Readers, NEW at \in {"read", "status", "wait", "closed", "open"},
           reader' = [reader EXCEPT ![r].at = at]
    PROVE  Inv'
<1>1. reader \in [Readers -> Reader]
    BY DEF Inv, TypeOK
<1>2. reader' \in [Readers -> Reader]
    BY <1>1 DEF Reader
<1>3. \A q \in Readers : /\ reader'[q].current = reader[q].current
                         /\ reader'[q].values = reader[q].values
                         /\ reader'[q].sentinel = reader[q].sentinel
    BY <1>1 DEF Reader
<1>4. ReaderInv'
    BY <1>3 DEF Inv, ReaderInv
<1> QED BY <1>2, <1>4, ReaderMoves

\* One query of the stream: the values found follow those the reader has.
LEMMA ReadOK ==
    ASSUME Inv, NEW r \in Readers, Read(r)
    PROVE  Inv'
<1> DEFINE me == reader[r]
           c == me.current
           values == ValuesFrom(c)
           end == \E k \in c + 1 .. Len(streams) : streams[k].sentinel
           at == IF end THEN "closed" ELSE IF r \in SnapshotReaders THEN "open" ELSE "status"
           new == [me EXCEPT !.at = at, !.values = me.values \o values, !.current = NextOffset(me, Len(values)),
                             !.got = values # <<>>, !.sentinel = end]
<1>1. /\ me \in Reader /\ c \in Nat /\ me.values \in Seq(Steps) /\ FromOffset[r] \in Nat
      /\ streams \in Seq(Entry) /\ Len(streams) \in Nat /\ Len(streams) <= Len(Program)
      /\ Len(Program) \in Nat
    <2>1. Len(streams) <= Len(Program)
        <3>1. streams \in Seq(Entry) /\ operation_outputs \subseteq Steps
              /\ operation_outputs = 1 .. Len(streams) /\ Len(Program) \in Nat
            BY StreamsAssumption DEF Inv, TypeOK, LogInv
        <3> QED BY <3>1 DEF Steps
    <2> QED BY <2>1, StreamsAssumption DEF Inv, TypeOK, Reader
<1>2. reader' = [reader EXCEPT ![r] = new]
    BY DEF Read
<1>3. /\ c = FromOffset[r] + Len(me.values)
      /\ \A k \in 1 .. Len(me.values) : me.values[k] = FromOffset[r] + k
      /\ me.values # <<>> => c <= Len(streams)
      /\ \A k \in FromOffset[r] + 1 .. c : ~streams[k].sentinel
    BY DEF Inv, ReaderInv
<1>4. Found(c) \in Nat /\ values = [k \in 1 .. Found(c) |-> c + k]
    BY <1>1, ValuesFound DEF Inv, LogInv
<1>5. /\ c + Found(c) <= Len(streams) \/ Found(c) = 0
      /\ \A k \in c + 1 .. c + Found(c) : k \in Steps /\ k <= Len(streams) /\ ~streams[k].sentinel
      /\ end => c + Found(c) + 1 = Len(streams) /\ streams[c + Found(c) + 1].sentinel
    BY <1>1, FoundBounds DEF Inv, LogInv
<1> DEFINE v == me.values \o values
           c2 == c + Len(values)
<1> HIDE DEF values, end, at, c
<1>6. /\ values \in Seq(Steps) /\ Len(values) = Found(c)
      /\ \A k \in 1 .. Len(values) : values[k] = c + k
    <2>1. \A k \in 1 .. Found(c) : c + k \in Steps
        BY <1>1, <1>4, <1>5
    <2> QED BY <1>4, <2>1
<1>7. /\ v \in Seq(Steps)
      /\ Len(v) = Len(me.values) + Found(c)
      /\ \A k \in 1 .. Len(v) : v[k] = FromOffset[r] + k
    <2>1. /\ Len(me.values) \in Nat
          /\ \A k \in 1 .. Len(values) : values[k] = FromOffset[r] + Len(me.values) + k
        BY <1>1, <1>3, <1>6
    <2> HIDE DEF me
    <2>2. /\ v \in Seq(Steps)
          /\ Len(v) = Len(me.values) + Len(values)
          /\ \A k \in 1 .. Len(me.values) + Len(values) : v[k] = FromOffset[r] + k
        <3> DEFINE s == me.values
                   f == FromOffset[r]
        <3>1. /\ s \in Seq(Steps) /\ f \in Nat
              /\ \A k \in 1 .. Len(s) : s[k] = f + k
              /\ \A k \in 1 .. Len(values) : values[k] = f + Len(s) + k
            BY <1>1, <1>3, <2>1
        <3> HIDE DEF s, f
        <3>2. values \in Seq(Steps)
            BY <1>6
        <3>3. /\ s \o values \in Seq(Steps)
              /\ Len(s \o values) = Len(s) + Len(values)
              /\ \A k \in 1 .. Len(s) + Len(values) : (s \o values)[k] = f + k
            <4> HIDE DEF Steps
            <4> QED BY <3>1, <3>2, ConcatRuns
        <3> QED BY <3>3 DEF s, f
    <2> QED BY <1>6, <2>2
<1>8. /\ at \in {"read", "status", "wait", "closed", "open"} /\ end \in BOOLEAN
      /\ c2 = c + Found(c) /\ c2 \in Nat
    BY <1>1, <1>4, <1>6 DEF at, end
<1>9. new \in Reader /\ new.values = v /\ new.current = c + Found(c) /\ new.sentinel = end
    <2>1. new = [me EXCEPT !.at = at, !.values = v, !.current = c2,
                           !.got = values # <<>>, !.sentinel = end]
        BY DEF NextOffset, c
    <2> HIDE DEF v, c2, new
    <2> QED BY <1>1, <1>7, <1>8, <2>1 DEF Reader
<1> HIDE DEF new, v, c2
<1>10. reader' \in [Readers -> Reader]
    BY <1>2, <1>9 DEF Inv, TypeOK
<1>11. ReaderInv'
    <2>1. /\ new.current = FromOffset[r] + Len(new.values)
          /\ \A k \in 1 .. Len(new.values) : new.values[k] = FromOffset[r] + k
          /\ new.values # <<>> => new.current <= Len(streams)
          /\ \A k \in FromOffset[r] + 1 .. new.current : ~streams[k].sentinel
          /\ new.sentinel => /\ new.current + 1 = Len(streams)
                             /\ streams[new.current + 1].sentinel
        <3>1. new.current = FromOffset[r] + Len(new.values)
            <4>1. Len(me.values) \in Nat /\ Found(c) \in Nat /\ c \in Nat /\ FromOffset[r] \in Nat
                BY <1>1, <1>4
            <4>2. c = FromOffset[r] + Len(me.values)
                BY <1>3
            <4>3. new.current = c + Found(c) /\ Len(new.values) = Len(me.values) + Found(c)
                BY <1>7, <1>9
            <4> HIDE DEF me, c
            <4> QED BY <4>1, <4>2, <4>3
        <3>2. \A k \in 1 .. Len(new.values) : new.values[k] = FromOffset[r] + k
            BY <1>7, <1>9
        <3>3. new.values # <<>> => new.current <= Len(streams)
            <4>1. CASE Found(c) = 0
                <5>1. c + Found(c) = c
                    BY <1>1, <4>1
                <5>2. new.values # <<>> => me.values # <<>>
                    BY <1>1, <1>6, <1>7, <1>9, <4>1
                <5> QED BY <1>3, <1>9, <5>1, <5>2
            <4>2. CASE Found(c) # 0
                BY <1>5, <1>9, <4>2
            <4> QED BY <4>1, <4>2
        <3>4. ASSUME NEW k \in FromOffset[r] + 1 .. new.current PROVE ~streams[k].sentinel
            BY <1>1, <1>3, <1>4, <1>5, <1>9
        <3>5. new.sentinel => /\ new.current + 1 = Len(streams)
                              /\ streams[new.current + 1].sentinel
            BY <1>5, <1>9
        <3> QED BY <3>1, <3>2, <3>3, <3>4, <3>5
    <2>2. UNCHANGED streams
        BY DEF Read
    <2>3. \A q \in Readers : reader'[q] = IF q = r THEN new ELSE reader[q]
        BY <1>2 DEF Inv, TypeOK
    <2> QED BY <2>1, <2>2, <2>3 DEF Inv, ReaderInv
<1> QED BY <1>10, <1>11, ReaderMoves DEF Read

\* Every step of the specification preserves the invariant.
LEMMA NextInv == Inv /\ [Next]_vars => Inv'
<1> SUFFICES ASSUME Inv, [Next]_vars PROVE Inv'
    OBVIOUS
<1>1. /\ TypeOK /\ \A x \in Executions : execution[x] \in Execution
      /\ Len(streams) \in Nat /\ Len(Program) \in Nat \ {0}
    BY StreamsAssumption DEF Inv, TypeOK, Execution
<1>2. /\ NoExecution \in Execution /\ NoExecution.at = "idle"
      /\ [NoExecution EXCEPT !.at = "check"] \in Execution
      /\ [NoExecution EXCEPT !.at = "check"].pc = 1
    BY DEF NoExecution, Execution
<1>3. CASE Promote
    <2>1. TypeOK'
        BY <1>1, <1>3 DEF Promote, TypeOK, Statuses
    <2> QED BY <1>3, <2>1
            DEF Promote, Inv, LogInv, SentinelIsLast, ExecutionInv, ReaderInv
<1>4. CASE Cancel
    <2>1. TypeOK'
        BY <1>1, <1>4 DEF Cancel, TypeOK, Statuses
    <2> QED BY <1>4, <2>1
            DEF Cancel, Inv, LogInv, SentinelIsLast, ExecutionInv, ReaderInv
<1>5. CASE Start
    <2>1. PICK x \in Executions :
            execution' = [execution EXCEPT ![x] = [NoExecution EXCEPT !.at = "check"]]
        BY <1>5 DEF Start
    <2>2. /\ status' \in Statuses /\ starts' \in Nat /\ cancels' \in Nat
          /\ UNCHANGED <<streams, operation_outputs, reader>>
        BY <1>1, <1>5 DEF Start, TypeOK, Statuses
    <2>3. 1 \in Steps /\ 1 <= Len(streams) + 1
        BY <1>1 DEF Steps
    <2> QED BY <1>2, <2>1, <2>2, <2>3, ExecutionMoves
<1>6. ASSUME NEW x \in Executions, Crash(x) PROVE Inv'
    BY <1>1, <1>2, <1>6, ExecutionMoves DEF Crash, TypeOK
<1>7. ASSUME NEW x \in Executions, Check(x) PROVE Inv'
    <2> DEFINE ex == execution[x]
               new == IF status = "CANCELLED" THEN Fail(ex)
                      ELSE IF ex.pc \in operation_outputs THEN Advance(ex)
                      ELSE [ex EXCEPT !.at = "write"]
    <2>1. execution' = [execution EXCEPT ![x] = new]
        BY <1>7 DEF Check
    <2>2. /\ ex \in Execution /\ ex.pc \in Steps /\ ex.pc <= Len(streams) + 1
          /\ operation_outputs = 1 .. Len(streams)
        BY <1>1, <1>7 DEF Inv, ExecutionInv, LogInv, Check
    <2>3. /\ new \in Execution
          /\ new.at \in {"check", "write"} => new.pc \in Steps /\ new.pc <= Len(streams) + 1
        <3>1. CASE status = "CANCELLED"
            BY <2>2, <3>1, FailOK
        <3>2. CASE status # "CANCELLED" /\ ex.pc \in operation_outputs
            <4>1. ex.pc <= Len(streams)
                BY <1>1, <2>2, <3>2
            <4> QED BY <1>1, <2>2, <3>2, <4>1, AdvanceOK
        <3>3. CASE status # "CANCELLED" /\ ex.pc \notin operation_outputs
            BY <2>2, <3>3 DEF Execution
        <3> QED BY <3>1, <3>2, <3>3
    <2> HIDE DEF new
    <2> QED BY <1>1, <1>7, <2>1, <2>3, ExecutionMoves DEF Check, TypeOK
<1>8. ASSUME NEW x \in Executions, Write(x) PROVE Inv'
    <2>1. CASE execution' = [execution EXCEPT ![x] = Fail(@)]
               /\ UNCHANGED <<streams, operation_outputs>>
        BY <1>1, <1>8, <2>1, FailOK, ExecutionMoves DEF Write, TypeOK
    <2>2. CASE ~(execution' = [execution EXCEPT ![x] = Fail(@)]
                 /\ UNCHANGED <<streams, operation_outputs>>)
        BY <1>8, <2>2, AppendOK DEF Write
    <2> QED BY <2>1, <2>2
<1>9. ASSUME NEW x \in Executions, WriteOutcome(x) PROVE Inv'
    <2>1. status' \in Statuses
        BY <1>1, <1>9 DEF WriteOutcome, TypeOK, Statuses
    <2> QED BY <1>1, <1>2, <1>9, <2>1, ExecutionMoves DEF WriteOutcome, TypeOK
<1>10. ASSUME NEW r \in Readers, CheckProducer(r) PROVE Inv'
    <2> DEFINE at == IF ~Active(status) THEN "closed" ELSE IF reader[r].got THEN "read" ELSE "wait"
    <2>1. at \in {"read", "status", "wait", "closed", "open"}
        OBVIOUS
    <2>2. reader' = [reader EXCEPT ![r].at = at]
        BY <1>10 DEF CheckProducer
    <2> HIDE DEF at
    <2> QED BY <1>10, <2>1, <2>2, ReaderTurns DEF CheckProducer
<1>11. ASSUME NEW r \in Readers, Wake(r) PROVE Inv'
    BY <1>11, ReaderTurns DEF Wake
<1>12. CASE UNCHANGED vars
    BY <1>12 DEF vars, Inv, TypeOK, LogInv, SentinelIsLast, ExecutionInv, ReaderInv
<1> QED BY <1>3, <1>4, <1>5, <1>6, <1>7, <1>8, <1>9, <1>10, <1>11, <1>12, ReadOK
        DEF Next, ExecutionStep, ReaderStep

LEMMA Invariance == Spec => []Inv
<1> QED BY InitInv, NextInv, PTL DEF Spec

----
(* Theorems *)

\* The rows, executions and readers of a stream are well formed in every reachable state; in
\* particular a step that is recorded is a step of the body.
THEOREM StreamsTypeCorrect == Spec => []TypeOK
<1>1. Inv => TypeOK
    BY DEF Inv
<1> QED BY <1>1, Invariance, PTL

\* However many executions of the producer overlap, crash, are cancelled and replay, the stream holds
\* one entry per recorded write or close, in the order of the body (write_stream_entry).
THEOREM StreamWrittenOnce == Spec => []WrittenOnce
<1>1. Inv => WrittenOnce
    <2> SUFFICES ASSUME Inv PROVE WrittenOnce
        OBVIOUS
    <2>1. Len(streams) \in Nat
        BY DEF Inv, TypeOK
    <2>2. Cardinality(1 .. Len(streams)) = Len(streams)
        <3>1. \A k \in Nat : Cardinality(1 .. k) = IF 1 > k THEN 0 ELSE k - 1 + 1
            BY FS_Interval
        <3>2. \A k \in Nat : Cardinality(1 .. k) = k
            BY <3>1
        <3> QED BY <2>1, <3>2
    <2>3. operation_outputs = 1 .. Len(streams) /\ \A k \in 1 .. Len(streams) : streams[k].function_id = k
        BY DEF Inv, LogInv
    <2> QED BY <2>1, <2>2, <2>3 DEF WrittenOnce
<1> QED BY <1>1, Invariance, PTL

\* No entry ever follows the sentinel of close_stream, whichever execution writes it.
THEOREM StreamEndsAtSentinel == Spec => []SentinelIsLast
<1>1. Inv => SentinelIsLast
    BY DEF Inv, LogInv
<1> QED BY <1>1, Invariance, PTL

\* Any reader, blocking or snapshot, from any offset and with any interleaving of its queries with the
\* producer's transactions, returns a gapless piece of the stream without repetitions, and all of it
\* once it has seen the sentinel (read_stream).
THEOREM ReadersFollowTheStream == Spec => []ReaderFollowsStream
<1>1. Inv => ReaderFollowsStream
    <2> SUFFICES ASSUME Inv, NEW r \in Readers
                 PROVE  LET all == ValuesFrom(FromOffset[r])
                            mine == reader[r].values
                        IN  /\ Len(mine) <= Len(all)
                            /\ mine = SubSeq(all, 1, Len(mine))
                            /\ reader[r].sentinel => Len(mine) = Len(all)
        BY DEF ReaderFollowsStream
    <2> DEFINE f == FromOffset[r]
               all == ValuesFrom(f)
               mine == reader[r].values
               m == Len(mine)
    <2>1. /\ f \in Nat /\ mine \in Seq(Steps) /\ m \in Nat /\ streams \in Seq(Entry)
          /\ Len(streams) \in Nat
        BY StreamsAssumption DEF Inv, TypeOK, Reader
    <2>2. /\ reader[r].current = f + m
          /\ \A k \in 1 .. m : mine[k] = f + k
          /\ mine # <<>> => f + m <= Len(streams)
          /\ \A k \in f + 1 .. f + m : ~streams[k].sentinel
          /\ reader[r].sentinel => f + m + 1 = Len(streams) /\ streams[Len(streams)].sentinel
        BY DEF Inv, ReaderInv
    <2>3. Found(f) \in Nat /\ all = [k \in 1 .. Found(f) |-> f + k]
        BY <2>1, ValuesFound DEF Inv, LogInv
    <2>4. m <= Found(f)
        <3>1. m = 0 \/ f + m <= Len(streams)
            BY <2>1, <2>2
        <3> HIDE DEF m, f
        <3> QED BY <2>1, <2>2, <2>3, <3>1 DEF Found
    <2>5. reader[r].sentinel => m = Found(f)
        <3> HIDE DEF m, f
        <3> QED BY <2>1, <2>2 DEF Found
    <2> HIDE DEF f, all
    <2>6. Len(all) = Found(f)
        BY <2>3
    <2>7. mine = SubSeq(all, 1, m)
        <3>1. SubSeq(all, 1, m) = [k \in 1 .. m |-> all[k]]
            BY <2>1
        <3>2. \A k \in 1 .. m : all[k] = f + k
            BY <2>1, <2>3, <2>4
        <3>3. mine = [k \in 1 .. m |-> mine[k]]
            BY <2>1
        <3> QED BY <2>2, <3>1, <3>2, <3>3
    <2> QED BY <2>4, <2>5, <2>6, <2>7 DEF f, all
<1> QED BY <1>1, Invariance, PTL

====
