---- MODULE SerializationProofs ----
(*
 * Proofs about Serialization, for any number of workflows, all contents and messages, rows of all SDKs and any
 * number of retries and crashes.
 *)
EXTENDS Serialization, FiniteSetTheorems, TLAPS

----
(* Conversions *)

\* A value of the type that callers expect.
Fits(v) == v[1] \in {"null", "atom"}

LEMMA Typed ==
    ASSUME NEW v
    PROVE  /\ Fits(v) => typed(v) = v /\ v # Fail
           /\ typed(v) # Fail => typed(v) = v /\ Fits(v)
           /\ ~Fits(Fail) /\ Fits(Null)
<1>1. Fail[1] = "fail" /\ Null[1] = "null"
    BY DEF Fail, Null
<1>2. ~Fits(Fail) /\ Fits(Null)
    BY <1>1 DEF Fits
<1>3. Fits(v) => v # Fail
    BY <1>2
<1> QED BY <1>2, <1>3 DEF Fits, typed

LEMMA ItemFits == \A x : Fits(Item(x))
    BY DEF Item, Fits, Null

\* A value that a run writes in its own format is read back with the name in the row, whoever wrote that.
LEMMA OutcomeRoundTrip ==
    ASSUME NEW v, Fits(v), NEW name \in Names \ {"py_pickle"}
    PROVE  decode_value(encode_value(v, from_name(name)), name) = v
<1> DEFINE t == encode_value(v, from_name(name))
<1>1. typed(v) = v /\ v # Fail
    BY Typed
<1>2. CASE name = "portable_json"
    <2>1. t = [form |-> "json", of |-> v]
        BY <1>2 DEF encode_value, from_name
    <2>2. decode_to_json(t, name) = v
        BY <1>2, <2>1 DEF decode_to_json, parse
    <2> QED BY <1>1, <2>2 DEF decode_value
<1>3. CASE name = "js_superjson"
    <2>1. t = [form |-> "json", of |-> v]
        BY <1>3 DEF encode_value, from_name
    <2>2. decode_to_json(t, name) = v
        BY <1>3, <2>1 DEF decode_to_json, parse, decode_superjson
    <2> QED BY <1>1, <2>2 DEF decode_value
<1>4. CASE name = ""
    <2>1. t = [form |-> "json", of |-> v]
        BY <1>4 DEF encode_value, from_name
    <2>2. decode_superjson(t) = v
        BY <2>1 DEF parse, decode_superjson
    <2>3. decode_to_json(t, name) = IF decode_superjson(t) # Fail THEN decode_superjson(t) ELSE decode_base64_json(t)
        <3>1. t.form = "json"
            BY <2>1
        <3>2. name # "portable_json" /\ name # "DBOS_JSON" /\ name # "js_superjson"
            BY <1>4
        <3> HIDE DEF t
        <3> QED BY <1>4, <3>1, <3>2 DEF decode_to_json
    <2> QED BY <1>1, <2>2, <2>3 DEF decode_value
<1>5. CASE name = "DBOS_JSON"
    <2>1. t = IF v = Null THEN [form |-> "nil", of |-> Null] ELSE [form |-> "base64", of |-> v]
        BY <1>5 DEF encode_value, from_name
    <2>2. decode_to_json(t, name) = v
        BY <1>5, <2>1 DEF decode_to_json, decode_base64_json
    <2> QED BY <1>1, <2>2 DEF decode_value
<1> QED BY <1>2, <1>3, <1>4, <1>5 DEF Names

\* The text of an error is read back from a portable row and, unless it is empty, from Go's.
LEMMA ErrorRoundTrip ==
    ASSUME NEW m, NEW name \in {"portable_json", "DBOS_JSON"}, name = "portable_json" \/ m # Blank
    PROVE  deserialize_workflow_error(serialize_workflow_error(m, from_name(name)), name) = m
    BY DEF deserialize_workflow_error, serialize_workflow_error, from_name

\* The input that this crate or the Go SDK writes is what the handler decodes.
LEMMA InputRoundTrip ==
    ASSUME NEW v, Fits(v), NEW name \in {"portable_json", "DBOS_JSON"}
    PROVE  decode_input(encode_input(v, name), from_name(name)) = v
<1>1. typed(v) = v /\ v # Fail
    BY Typed
<1>2. CASE name = "portable_json"
    <2>1. encode_input(v, name) = [form |-> "envelope", of |-> v] /\ from_name(name) = name
        BY <1>2 DEF encode_input, from_name
    <2>2. \A t : t = [form |-> "envelope", of |-> v] => decode_input(t, "portable_json") = typed(v)
        BY DEF decode_input
    <2> QED BY <1>1, <1>2, <2>1, <2>2
<1>3. CASE name = "DBOS_JSON"
    <2>1. /\ encode_input(v, name) = IF v = Null THEN [form |-> "nil", of |-> Null] ELSE [form |-> "base64", of |-> v]
          /\ from_name(name) = name
        BY <1>3 DEF encode_input, from_name, encode_value
    <2>2. decode_to_json(encode_input(v, name), name) = v
        BY <1>3, <2>1 DEF decode_to_json, decode_base64_json
    <2>3. decode_input(encode_input(v, name), name) = typed(decode_to_json(encode_input(v, name), name))
        BY <1>3 DEF decode_input
    <2> QED BY <1>1, <2>1, <2>2, <2>3
<1> QED BY <1>2, <1>3

\* What replay_step makes of a record.
Replayed(o) ==
    IF o.error # NoText THEN Err(other(deserialize_workflow_error(o.error, o.name)))
    ELSE Decoded(decode_value(o.output, o.name))

\* The record of a step's result replays to something a body cannot tell from the result.
LEMMA StepRoundTrip ==
    ASSUME NEW r, r.ok \in BOOLEAN, r.ok => Fits(r.value), NEW o,
           o = [recorded |-> TRUE, name |-> "portable_json",
                output |-> IF r.ok THEN encode_value(r.value, "portable_json") ELSE NoText,
                error |-> IF r.ok THEN NoText ELSE serialize_workflow_error(Display(r.error), "portable_json")]
    PROVE  Observed(Replayed(o)) = Observed(r)
<1>1. from_name("portable_json") = "portable_json"
    BY DEF from_name
<1>2. CASE r.ok
    <2>1. decode_value(encode_value(r.value, "portable_json"), "portable_json") = r.value /\ r.value # Fail
        BY <1>1, <1>2, OutcomeRoundTrip, Typed DEF Names
    <2>2. Replayed(o) = Ok(r.value)
        BY <1>2, <2>1 DEF Replayed, Decoded
    <2> QED BY <1>2, <2>2 DEF Observed, Ok
<1>3. CASE ~r.ok
    <2>1. o.error # NoText
        BY <1>3 DEF serialize_workflow_error, NoText
    <2>2. deserialize_workflow_error(o.error, o.name) = Display(r.error)
        BY <1>1, <1>3, ErrorRoundTrip
    <2>3. Replayed(o) = Err(other(Display(r.error)))
        BY <2>1, <2>2 DEF Replayed
    <2>4. Observed(Err(other(Display(r.error)))) = Display(r.error)
        BY DEF Observed, Err, other, Error, Display
    <2> QED BY <1>3, <2>3, <2>4 DEF Observed
<1> QED BY <1>2, <1>3

\* A decoded value is of the expected type, or an error.
LEMMA DecodedFits ==
    ASSUME NEW t, NEW name
    PROVE  LET r == Decoded(decode_value(t, name)) IN r.ok \in BOOLEAN /\ (r.ok => Fits(r.value))
    BY Typed DEF Decoded, decode_value, Ok, Err

----
(* The inductive invariant *)

\* A row that this crate or the Go SDK wrote holds the input it is meant for, and every run so far got it.
InputOk(row, run, m, g) ==
    /\ row.name # "py_pickle"
    /\ Fits(m)
    /\ row.origin \in {"rust", "go"} =>
          /\ row.name = IF row.origin = "rust" THEN "portable_json" ELSE "DBOS_JSON"
          /\ row.inputs = encode_input(m, row.name)
          /\ g \subseteq {m}
    /\ row.status = "ABSENT" => run.at = "idle" /\ g = {}

\* What runs have seen of the step is what its record replays to, and no run records it twice.
StepOk(o, run, s) ==
    /\ s = IF o.recorded THEN {Observed(Replayed(o))} ELSE {}
    /\ run.at = "record" => ~o.recorded

\* A run holds values of the expected type only; a final row holds the outcome of the run that is over.
OutcomeOk(row, run) ==
    /\ run.result.ok => Fits(run.result.value)
    /\ row.status \in {"SUCCESS", "ERROR"} => run.at = "idle"
    /\ row.status = "SUCCESS" => /\ row.output # NoText /\ row.error = NoText
                                 /\ decode_value(row.output, row.name) = run.result.value
    /\ row.status = "ERROR" => /\ row.error # NoText /\ row.output = NoText
                               /\ KeepsText(row.origin, Display(run.result.error)) =>
                                    deserialize_workflow_error(row.error, row.name) = Display(run.result.error)

Holds(row, o, run, m, g, s) == InputOk(row, run, m, g) /\ StepOk(o, run, s) /\ OutcomeOk(row, run)

Inv == TypeOK /\ \A w \in Workflows : Holds(rows[w], op[w], task[w], meant[w], got[w], seen[w])

\* Conversions stay within the values and texts there are.
LEMMA Constants ==
    /\ {Null, Fail, Object} \subseteq Json /\ \A x \in Contents : Item(x) \in Json /\ ArrayOf(x) \in Json
    /\ \A m \in {"failed", "", "workflow failed", "decode error", "envelope"} : <<"text", m>> \in Json
    /\ \A c \in Codes : <<"DBOS Error", c>> \in Json
    BY DEF Json

LEMMA DecodeType ==
    ASSUME NEW t \in Texts, NEW name \in Names
    PROVE  /\ decode_to_json(t, name) \in Json /\ decode_value(t, name) \in Json
           /\ decode_input(t, name) \in Json /\ deserialize_workflow_error(t, name) \in Json
<1>1. t.of \in Json
    BY DEF Texts
<1>2. parse(t) \in Json /\ decode_base64_json(t) \in Json
    BY <1>1, Constants DEF parse, decode_base64_json
<1>3. decode_superjson(t) \in Json
    BY <1>1, <1>2 DEF decode_superjson
<1>4. decode_to_json(t, name) \in Json
    BY <1>2, <1>3, Constants DEF decode_to_json, Names
<1>5. \A v \in Json : typed(v) \in Json
    BY Constants DEF typed
<1>6. decode_value(t, name) \in Json
    BY <1>4, <1>5 DEF decode_value
<1>7. deserialize_workflow_error(t, name) \in Json
    BY <1>1, Constants DEF deserialize_workflow_error
<1>8. decode_input(t, name) \in Json
    <2>1. CASE name = "portable_json"
        <3>1. decode_input(t, name) = typed(CASE t.form = "none" \/ t = [form |-> "json", of |-> Null] -> Null
                                             [] t.form = "envelope" -> t.of
                                             [] t.form # "envelope" /\ parse(t) = Object -> Null
                                             [] OTHER -> Fail)
            BY <2>1 DEF decode_input
        <3>2. (CASE t.form = "none" \/ t = [form |-> "json", of |-> Null] -> Null
                 [] t.form = "envelope" -> t.of
                 [] t.form # "envelope" /\ parse(t) = Object -> Null
                 [] OTHER -> Fail) \in Json
            BY <1>1, Constants
        <3> QED BY <1>5, <3>1, <3>2
    <2>2. CASE name = "js_superjson"
        <3> DEFINE v == decode_to_json(t, name)
        <3>1. decode_input(t, name) = typed(IF v[1] = "array" THEN Item(v[2]) ELSE v)
            BY <2>2 DEF decode_input
        <3>2. v[1] = "array" => Item(v[2]) \in Json
            <4>1. v \in Json
                BY <1>4
            <4> HIDE DEF v
            <4>2. ASSUME v[1] = "array" PROVE \E x \in Contents : v = ArrayOf(x)
                <5>1. v # Null /\ v # Fail /\ v # Object
                    <6>1. Null[1] = "null" /\ Fail[1] = "fail" /\ Object[1] = "object"
                        BY DEF Null, Fail, Object
                    <6> QED BY <4>2, <6>1
                <5>2. \A x : v # Item(x)
                    BY <4>2, ItemFits DEF Fits
                <5>3. \A x : v # <<"text", x>> /\ v # <<"DBOS Error", x>>
                    <6>1. \A x : <<"text", x>>[1] = "text" /\ <<"DBOS Error", x>>[1] = "DBOS Error"
                        OBVIOUS
                    <6> QED BY <4>2, <6>1, Zenon
                <5> QED BY <4>1, <5>1, <5>2, <5>3 DEF Json
            <4>3. \A x : ArrayOf(x)[2] = x
                BY DEF ArrayOf
            <4> QED BY <4>2, <4>3, Constants
        <3> QED BY <1>4, <1>5, <3>1, <3>2
    <2>3. CASE name \notin {"portable_json", "js_superjson"}
        <3>1. decode_input(t, name) = typed(decode_to_json(t, name))
            BY <2>3 DEF decode_input
        <3> QED BY <1>4, <1>5, <3>1
    <2> QED BY <2>1, <2>2, <2>3
<1> QED BY <1>4, <1>6, <1>7, <1>8

LEMMA EncodeType ==
    ASSUME NEW v \in Json, NEW fmt
    PROVE  encode_value(v, fmt) \in Texts /\ encode_input(v, fmt) \in Texts
           /\ serialize_workflow_error(v, fmt) \in Texts /\ NoText \in Texts
           /\ encode_value(v, fmt) # NoText /\ serialize_workflow_error(v, fmt) # NoText
    BY Constants DEF encode_value, encode_input, serialize_workflow_error, NoText, Texts

LEMMA ResultType ==
    /\ \A v \in Json : /\ Ok(v) \in Result /\ Err(other(v)) \in Result /\ Decoded(v) \in Result
    /\ \A c \in Codes, v \in Json : Err(Error(c, v)) \in Result
    /\ \A r \in Result : Display(r.error) \in Json /\ Observed(r) \in Json
<1>1. 0 \in Codes
    BY DEF Codes
<1>2. /\ \A v \in Json : other(v) \in [code : Codes, message : Json]
      /\ \A c \in Codes, v \in Json : Error(c, v) \in [code : Codes, message : Json]
    BY <1>1 DEF other, Error
<1>3. DecodeError \in [code : Codes, message : Json]
    BY <1>2, Constants DEF DecodeError
<1>4. /\ \A v \in Json : Ok(v) \in Result
      /\ \A e \in [code : Codes, message : Json] : Err(e) \in Result
    BY <1>2, Constants DEF Ok, Err, Result
<1>5. \A v \in Json : Decoded(v) \in Result
    BY <1>3, <1>4 DEF Decoded
<1>6. \A r \in Result : r.ok \in BOOLEAN /\ r.value \in Json /\ r.error \in [code : Codes, message : Json]
    BY DEF Result
<1>7. \A e \in [code : Codes, message : Json] : Display(e) \in Json
    BY Constants DEF Display
<1> QED BY <1>2, <1>4, <1>5, <1>6, <1>7 DEF Observed

\* A step that changes the state of one workflow.
Becomes(w, row, o, run, m, g, s) ==
    /\ rows' = [rows EXCEPT ![w] = row] /\ op' = [op EXCEPT ![w] = o] /\ task' = [task EXCEPT ![w] = run]
    /\ meant' = [meant EXCEPT ![w] = m] /\ got' = [got EXCEPT ![w] = g] /\ seen' = [seen EXCEPT ![w] = s]

LEMMA OneWorkflow ==
    ASSUME Inv, NEW w \in Workflows, NEW row \in Row, NEW o \in Operation, NEW run \in Task, NEW m \in Json,
           NEW g \in SUBSET Json, NEW s \in SUBSET Json, crashes' \in Nat,
           Becomes(w, row, o, run, m, g, s), Holds(row, o, run, m, g, s)
    PROVE  Inv'
<1>1. /\ rows \in [Workflows -> Row] /\ op \in [Workflows -> Operation] /\ task \in [Workflows -> Task]
      /\ meant \in [Workflows -> Json] /\ got \in [Workflows -> SUBSET Json] /\ seen \in [Workflows -> SUBSET Json]
    BY DEF Inv, TypeOK
<1>2. rows' \in [Workflows -> Row] /\ rows'[w] = row /\ \A v \in Workflows \ {w} : rows'[v] = rows[v]
    BY <1>1 DEF Becomes
<1>3. op' \in [Workflows -> Operation] /\ op'[w] = o /\ \A v \in Workflows \ {w} : op'[v] = op[v]
    BY <1>1 DEF Becomes
<1>4. task' \in [Workflows -> Task] /\ task'[w] = run /\ \A v \in Workflows \ {w} : task'[v] = task[v]
    BY <1>1 DEF Becomes
<1>5. meant' \in [Workflows -> Json] /\ meant'[w] = m /\ \A v \in Workflows \ {w} : meant'[v] = meant[v]
    BY <1>1 DEF Becomes
<1>6. got' \in [Workflows -> SUBSET Json] /\ got'[w] = g /\ \A v \in Workflows \ {w} : got'[v] = got[v]
    BY <1>1 DEF Becomes
<1>7. seen' \in [Workflows -> SUBSET Json] /\ seen'[w] = s /\ \A v \in Workflows \ {w} : seen'[v] = seen[v]
    BY <1>1 DEF Becomes
<1>8. ASSUME NEW v \in Workflows PROVE Holds(rows'[v], op'[v], task'[v], meant'[v], got'[v], seen'[v])
    <2>1. CASE v = w
        BY <2>1, <1>2, <1>3, <1>4, <1>5, <1>6, <1>7
    <2>2. CASE v # w
        <3>1. Holds(rows[v], op[v], task[v], meant[v], got[v], seen[v])
            BY DEF Inv
        <3> QED BY <2>2, <3>1, <1>2, <1>3, <1>4, <1>5, <1>6, <1>7
    <2> QED BY <2>1, <2>2
<1>9. TypeOK'
    <2>1. ASSUME NEW v \in Workflows
          PROVE  /\ rows'[v].status = "SUCCESS" => rows'[v].output # NoText /\ rows'[v].error = NoText
                 /\ rows'[v].status = "ERROR" => rows'[v].error # NoText /\ rows'[v].output = NoText
        BY <1>8 DEF Holds, OutcomeOk
    <2> QED BY <1>2, <1>3, <1>4, <1>5, <1>6, <1>7, <2>1 DEF TypeOK
<1> QED BY <1>8, <1>9 DEF Inv

\* What the invariant says of one workflow.
LEMMA OfWorkflow ==
    ASSUME Inv, NEW w \in Workflows
    PROVE  /\ rows[w] \in Row /\ op[w] \in Operation /\ task[w] \in Task /\ meant[w] \in Json
           /\ got[w] \in SUBSET Json /\ seen[w] \in SUBSET Json /\ crashes \in Nat
           /\ InputOk(rows[w], task[w], meant[w], got[w]) /\ StepOk(op[w], task[w], seen[w]) /\ OutcomeOk(rows[w], task[w])
           /\ rows = [rows EXCEPT ![w] = rows[w]] /\ op = [op EXCEPT ![w] = op[w]]
           /\ task = [task EXCEPT ![w] = task[w]] /\ meant = [meant EXCEPT ![w] = meant[w]]
           /\ got = [got EXCEPT ![w] = got[w]] /\ seen = [seen EXCEPT ![w] = seen[w]]
<1>1. Holds(rows[w], op[w], task[w], meant[w], got[w], seen[w])
    BY DEF Inv
<1>2. /\ rows \in [Workflows -> Row] /\ op \in [Workflows -> Operation] /\ task \in [Workflows -> Task]
      /\ meant \in [Workflows -> Json] /\ got \in [Workflows -> SUBSET Json] /\ seen \in [Workflows -> SUBSET Json]
      /\ crashes \in Nat
    BY DEF Inv, TypeOK
<1>3. rows = [rows EXCEPT ![w] = rows[w]] /\ op = [op EXCEPT ![w] = op[w]] /\ task = [task EXCEPT ![w] = task[w]]
    BY <1>2
<1>4. meant = [meant EXCEPT ![w] = meant[w]] /\ got = [got EXCEPT ![w] = got[w]] /\ seen = [seen EXCEPT ![w] = seen[w]]
    BY <1>2
<1> QED BY <1>1, <1>2, <1>3, <1>4 DEF Holds

LEMMA Starts ==
    /\ AbsentRow \in Row /\ NoOp \in Operation /\ IdleTask \in Task
    /\ AbsentRow.status = "ABSENT" /\ AbsentRow.name = "" /\ AbsentRow.origin = ""
    /\ NoOp.recorded = FALSE /\ IdleTask.at = "idle" /\ IdleTask.tries = 0 /\ IdleTask.result = Ok(Null)
    /\ Ok(Null).ok = TRUE /\ Ok(Null).value = Null
<1>1. NoText \in Texts
    BY Constants DEF NoText, Texts
<1>2. AbsentRow \in Row /\ NoOp \in Operation
    BY <1>1 DEF AbsentRow, NoOp, Row, Operation, Names
<1>3. Ok(Null) \in Result
    BY ResultType, Constants
<1>4. IdleTask \in Task
    BY <1>3 DEF IdleTask, Task
<1> QED BY <1>2, <1>4 DEF AbsentRow, NoOp, IdleTask, Ok

LEMMA InitInv == Init => Inv
<1> SUFFICES ASSUME Init PROVE Inv
    OBVIOUS
<1>1. ASSUME NEW w \in Workflows
      PROVE  /\ rows[w] = AbsentRow /\ op[w] = NoOp /\ task[w] = IdleTask /\ meant[w] = Null
             /\ got[w] = {} /\ seen[w] = {}
    BY DEF Init
<1>2. TypeOK
    <2>1. rows \in [Workflows -> Row] /\ op \in [Workflows -> Operation] /\ task \in [Workflows -> Task]
        BY Starts DEF Init
    <2>2. meant \in [Workflows -> Json] /\ got \in [Workflows -> SUBSET Json] /\ seen \in [Workflows -> SUBSET Json]
        BY Constants DEF Init
    <2> QED BY <1>1, <2>1, <2>2, Starts DEF Init, TypeOK
<1>3. Holds(AbsentRow, NoOp, IdleTask, Null, {}, {})
    BY Starts, Typed DEF Holds, InputOk, StepOk, OutcomeOk
<1> QED BY <1>1, <1>2, <1>3 DEF Inv

LEMMA EnqueueInv ==
    ASSUME Inv, NEW w \in Workflows, NEW origin \in Origins, NEW x \in Contents, Enqueue(w, origin, x)
    PROVE  Inv'
<1> DEFINE new == [AbsentRow EXCEPT !.status = "PENDING", !.origin = origin,
                                    !.name = Written(origin, x).name, !.inputs = Written(origin, x).inputs]
<1>1. /\ rows[w].status = "ABSENT" /\ rows' = [rows EXCEPT ![w] = new]
      /\ meant' = [meant EXCEPT ![w] = Item(x)] /\ UNCHANGED <<op, task, got, seen, crashes>>
    BY DEF Enqueue
<1>2. Written(origin, x).name \in Names \ {"py_pickle"} /\ Written(origin, x).inputs \in Texts
    <2>1. Item(x) \in Json /\ ArrayOf(x) \in Json
        BY Constants
    <2>2. \A fmt : encode_input(Item(x), fmt) \in Texts /\ encode_value(Item(x), fmt) \in Texts
        BY <2>1, EncodeType
    <2>3. [form |-> "superjson", of |-> ArrayOf(x)] \in Texts /\ [form |-> "json", of |-> ArrayOf(x)] \in Texts
        BY <2>1 DEF Texts
    <2>4. origin \in {"rust", "go", "ts", "ts_legacy", "go_legacy"}
        BY SerializationAssumption
    <2> QED BY <2>2, <2>3, <2>4 DEF Written, Names
<1>3. origin \in {"rust", "go"} =>
        /\ Written(origin, x).name = IF origin = "rust" THEN "portable_json" ELSE "DBOS_JSON"
        /\ Written(origin, x).inputs = encode_input(Item(x), Written(origin, x).name)
    BY DEF Written
<1>4. /\ new \in Row /\ new.status = "PENDING" /\ new.origin = origin
      /\ new.name = Written(origin, x).name /\ new.inputs = Written(origin, x).inputs
    BY <1>2, Starts DEF Row
<1> HIDE DEF new
<1>5. Holds(new, op[w], task[w], Item(x), got[w], seen[w])
    <2>1. Fits(Item(x))
        BY ItemFits
    <2>2. InputOk(new, task[w], Item(x), got[w])
        BY <1>1, <1>2, <1>3, <1>4, <2>1, OfWorkflow DEF InputOk
    <2> QED BY <1>4, <2>2, OfWorkflow DEF Holds, OutcomeOk
<1>6. Item(x) \in Json
    BY Constants
<1>7. Becomes(w, new, op[w], task[w], Item(x), got[w], seen[w])
    BY <1>1, OfWorkflow DEF Becomes
<1> QED BY <1>1, <1>4, <1>5, <1>6, <1>7, OfWorkflow, OneWorkflow

LEMMA BeginInv == ASSUME Inv, NEW w \in Workflows, Begin(w) PROVE Inv'
<1> DEFINE input == decode_input(rows[w].inputs, Fmt(w))
           new == IF input = Fail THEN [IdleTask EXCEPT !.at = "finish", !.result = Err(DecodeError)]
                  ELSE [IdleTask EXCEPT !.at = "step"]
<1>1. /\ rows[w].status = "PENDING" /\ task' = [task EXCEPT ![w] = new]
      /\ got' = [got EXCEPT ![w] = got[w] \cup {input}] /\ UNCHANGED <<rows, op, meant, seen, crashes>>
    BY DEF Begin
<1>2. input \in Json
    <2>1. rows[w].inputs \in Texts /\ Fmt(w) \in Names
        BY OfWorkflow DEF Row, Fmt, from_name, Names
    <2> QED BY <2>1, DecodeType
<1>3. rows[w].origin \in {"rust", "go"} => input = meant[w]
    <2>1. rows[w].origin \in {"rust", "go"} =>
            rows[w].name \in {"portable_json", "DBOS_JSON"} /\ rows[w].inputs = encode_input(meant[w], rows[w].name)
        BY OfWorkflow DEF InputOk
    <2>2. Fits(meant[w])
        BY OfWorkflow DEF InputOk
    <2> QED BY <2>1, <2>2, InputRoundTrip DEF Fmt
<1> HIDE DEF input
<1>4. new \in Task /\ (new.result.ok => Fits(new.result.value)) /\ new.at # "record"
    <2>1. Err(DecodeError) \in Result /\ Err(DecodeError).ok = FALSE
        BY ResultType, Constants DEF DecodeError, Err
    <2>2. CASE input = Fail
        <3>1. new = [IdleTask EXCEPT !.at = "finish", !.result = Err(DecodeError)]
            BY <2>2
        <3> QED BY <2>1, <3>1, Starts DEF Task
    <2>3. CASE input # Fail
        <3>1. new = [IdleTask EXCEPT !.at = "step"]
            BY <2>3
        <3>2. new \in Task /\ new.result = Ok(Null) /\ new.at # "record"
            BY <3>1, Starts DEF Task
        <3> QED BY <3>2, Starts, Typed
    <2> QED BY <2>2, <2>3
<1> HIDE DEF new
<1>5. Holds(rows[w], op[w], new, meant[w], got[w] \cup {input}, seen[w])
    <2>1. InputOk(rows[w], new, meant[w], got[w] \cup {input})
        BY <1>1, <1>3, OfWorkflow DEF InputOk
    <2> QED BY <1>1, <1>4, <2>1, OfWorkflow DEF Holds, StepOk, OutcomeOk
<1>6. got[w] \cup {input} \in SUBSET Json
    BY <1>2, OfWorkflow
<1>7. Becomes(w, rows[w], op[w], new, meant[w], got[w] \cup {input}, seen[w])
    BY <1>1, OfWorkflow DEF Becomes
<1> QED BY <1>1, <1>4, <1>5, <1>6, <1>7, OfWorkflow, OneWorkflow

\* A run that is not over has a PENDING row.
LEMMA RunningIsPending ==
    ASSUME Inv, NEW w \in Workflows, task[w].at # "idle"
    PROVE  rows[w].status = "PENDING"
    BY OfWorkflow DEF Row, InputOk, OutcomeOk

\* The run goes on with a result that a body cannot tell from the one that is recorded.
LEMMA SeeInv ==
    ASSUME Inv, NEW w \in Workflows, NEW r \in Result, See(w, r), task[w].at # "idle",
           UNCHANGED <<rows, meant, got, crashes>>, r.ok => Fits(r.value), NEW o \in Operation, o.recorded,
           op' = [op EXCEPT ![w] = o], Observed(Replayed(o)) = Observed(r), op[w].recorded => o = op[w]
    PROVE  Inv'
<1> DEFINE new == [task[w] EXCEPT !.at = "finish", !.result = r]
<1>1. task' = [task EXCEPT ![w] = new] /\ seen' = [seen EXCEPT ![w] = seen[w] \cup {Observed(r)}]
    BY DEF See
<1>2. new \in Task /\ new.at = "finish" /\ new.result = r
    BY OfWorkflow DEF Task
<1> HIDE DEF new
<1>3. rows[w].status = "PENDING"
    BY RunningIsPending
<1>4. InputOk(rows[w], new, meant[w], got[w])
    BY <1>3, OfWorkflow DEF InputOk
<1>5. StepOk(o, new, seen[w] \cup {Observed(r)})
    BY <1>2, OfWorkflow DEF StepOk
<1>6. OutcomeOk(rows[w], new)
    BY <1>2, <1>3 DEF OutcomeOk
<1>7. seen[w] \cup {Observed(r)} \in SUBSET Json
    BY OfWorkflow, ResultType
<1>8. Holds(rows[w], o, new, meant[w], got[w], seen[w] \cup {Observed(r)})
    BY <1>4, <1>5, <1>6 DEF Holds
<1>9. Becomes(w, rows[w], o, new, meant[w], got[w], seen[w] \cup {Observed(r)})
    BY <1>1, OfWorkflow DEF Becomes
<1> QED BY <1>1, <1>2, <1>7, <1>8, <1>9, OfWorkflow, OneWorkflow

LEMMA ReplayInv == ASSUME Inv, NEW w \in Workflows, Replay(w) PROVE Inv'
<1> DEFINE r == Replayed(op[w])
<1>1. /\ task[w].at = "step" /\ op[w].recorded /\ See(w, r) /\ UNCHANGED <<rows, op, meant, got, crashes>>
    BY DEF Replay, Replayed
<1>2. op[w].output \in Texts /\ op[w].error \in Texts /\ op[w].name \in Names
    BY OfWorkflow DEF Operation
<1>3. r \in Result /\ (r.ok => Fits(r.value))
    <2>1. CASE op[w].error # NoText
        <3>1. deserialize_workflow_error(op[w].error, op[w].name) \in Json
            BY <1>2, DecodeType
        <3>2. r = Err(other(deserialize_workflow_error(op[w].error, op[w].name)))
            BY <2>1 DEF Replayed
        <3>3. r.ok = FALSE
            BY <3>2 DEF Err
        <3> QED BY <3>1, <3>2, <3>3, ResultType
    <2>2. CASE op[w].error = NoText
        <3>1. decode_value(op[w].output, op[w].name) \in Json
            BY <1>2, DecodeType
        <3>2. r = Decoded(decode_value(op[w].output, op[w].name))
            BY <2>2 DEF Replayed
        <3> QED BY <3>1, <3>2, ResultType, DecodedFits
    <2> QED BY <2>1, <2>2
<1>4. op' = [op EXCEPT ![w] = op[w]]
    BY <1>1, OfWorkflow
<1>5. Observed(Replayed(op[w])) = Observed(r)
    OBVIOUS
<1> HIDE DEF r
<1> QED BY <1>1, <1>3, <1>4, <1>5, OfWorkflow, SeeInv

LEMMA AttemptInv == ASSUME Inv, NEW w \in Workflows, NEW r \in StepResults, Attempt(w, r) PROVE Inv'
<1> DEFINE last == Err(Error(13, Display(r.error)))
           new == IF r.ok \/ MaxRetries[w] = 0 THEN [task[w] EXCEPT !.at = "record", !.result = r]
                  ELSE IF task[w].tries < MaxRetries[w] THEN [task[w] EXCEPT !.tries = task[w].tries + 1]
                  ELSE [task[w] EXCEPT !.at = "record", !.result = last]
<1>1. /\ task[w].at = "step" /\ ~op[w].recorded /\ task' = [task EXCEPT ![w] = new]
      /\ UNCHANGED <<rows, op, meant, got, seen, crashes>>
    BY DEF Attempt
<1>2. r \in Result /\ (r.ok => Fits(r.value))
    <2>1. \A x \in Contents : Ok(Item(x)) \in Result /\ Ok(Item(x)).value = Item(x)
        BY Constants, ResultType DEF Ok
    <2>2. \A e \in [code : {0, 5}, message : {<<"text", "failed">>, Blank}] : Err(e) \in Result /\ Err(e).ok = FALSE
        BY Constants DEF Err, Result, Codes, Blank
    <2> QED BY <2>1, <2>2, ItemFits DEF StepResults
<1>3. last \in Result /\ last.ok = FALSE
    <2>1. Display(r.error) \in Json /\ 13 \in Codes
        BY <1>2, ResultType DEF Codes
    <2>2. last \in Result
        BY <2>1, ResultType
    <2> QED BY <2>2 DEF Err
<1>4. task[w] \in Task /\ task[w].tries \in Nat
    BY OfWorkflow DEF Task
<1> HIDE DEF last
<1>5. new \in Task /\ new.at \in {"step", "record"} /\ new.result \in {task[w].result, r, last}
    <2>1. CASE r.ok \/ MaxRetries[w] = 0
        <3>1. new = [task[w] EXCEPT !.at = "record", !.result = r]
            BY <2>1
        <3> QED BY <1>2, <1>4, <3>1 DEF Task
    <2>2. CASE ~(r.ok \/ MaxRetries[w] = 0) /\ task[w].tries < MaxRetries[w]
        <3>1. new = [task[w] EXCEPT !.tries = task[w].tries + 1]
            BY <2>2
        <3>2. task[w].tries + 1 \in Nat
            BY <1>4
        <3> QED BY <1>1, <1>4, <3>1, <3>2 DEF Task
    <2>3. CASE ~(r.ok \/ MaxRetries[w] = 0) /\ ~(task[w].tries < MaxRetries[w])
        <3>1. new = [task[w] EXCEPT !.at = "record", !.result = last]
            BY <2>3
        <3> QED BY <1>3, <1>4, <3>1 DEF Task
    <2> QED BY <2>1, <2>2, <2>3
<1> HIDE DEF new
<1>6. rows[w].status = "PENDING"
    BY <1>1, RunningIsPending
<1>7. Holds(rows[w], op[w], new, meant[w], got[w], seen[w])
    <2>1. InputOk(rows[w], new, meant[w], got[w])
        BY <1>6, OfWorkflow DEF InputOk
    <2>2. StepOk(op[w], new, seen[w])
        BY <1>1, OfWorkflow DEF StepOk
    <2>3. new.result.ok => Fits(new.result.value)
        BY <1>2, <1>3, <1>5, OfWorkflow DEF OutcomeOk
    <2>4. OutcomeOk(rows[w], new)
        BY <1>6, <2>3 DEF OutcomeOk
    <2> QED BY <2>1, <2>2, <2>4 DEF Holds
<1>8. Becomes(w, rows[w], op[w], new, meant[w], got[w], seen[w])
    BY <1>1, OfWorkflow DEF Becomes
<1> QED BY <1>1, <1>5, <1>7, <1>8, OfWorkflow, OneWorkflow

LEMMA RecordInv == ASSUME Inv, NEW w \in Workflows, Record(w) PROVE Inv'
<1>1. PICK r \in Result : r = task[w].result
    BY OfWorkflow DEF Task
<1> DEFINE o == [recorded |-> TRUE, name |-> "portable_json",
                 output |-> IF r.ok THEN encode_value(r.value, "portable_json") ELSE NoText,
                 error |-> IF r.ok THEN NoText ELSE serialize_workflow_error(Display(r.error), "portable_json")]
<1>2. /\ task[w].at = "record" /\ op' = [op EXCEPT ![w] = o] /\ See(w, r)
      /\ UNCHANGED <<rows, meant, got, crashes>>
    BY <1>1 DEF Record
<1>3. r.ok \in BOOLEAN /\ r.value \in Json /\ Display(r.error) \in Json
    BY ResultType DEF Result
<1>4. r.ok => Fits(r.value)
    BY <1>1, OfWorkflow DEF OutcomeOk
<1>5. /\ encode_value(r.value, "portable_json") \in Texts /\ NoText \in Texts
      /\ serialize_workflow_error(Display(r.error), "portable_json") \in Texts
    BY <1>3, EncodeType
<1>6. o \in Operation /\ o.recorded
    BY <1>5 DEF Operation, Names
<1>7. Observed(Replayed(o)) = Observed(r)
    BY <1>3, <1>4, StepRoundTrip
<1>8. ~op[w].recorded
    BY <1>2, OfWorkflow DEF StepOk
<1> HIDE DEF o
<1> QED BY <1>2, <1>4, <1>6, <1>7, <1>8, SeeInv

LEMMA ReceiveInv == ASSUME Inv, NEW w \in Workflows, Receive(w) PROVE Inv'
<1> DEFINE o == [recorded |-> TRUE, name |-> message_name(w), output |-> Mail[w].text, error |-> NoText]
           r == Decoded(decode_value(Mail[w].text, message_name(w)))
<1>1. /\ task[w].at = "step" /\ ~op[w].recorded /\ op' = [op EXCEPT ![w] = o] /\ See(w, r)
      /\ UNCHANGED <<rows, meant, got, crashes>>
    BY DEF Receive, message_name
<1>2. Mail[w].text \in Texts /\ message_name(w) \in Names
    BY SerializationAssumption DEF message_name, Names
<1>3. NoText \in Texts
    BY Constants DEF NoText, Texts
<1>4. o \in Operation /\ o.recorded
    BY <1>2, <1>3 DEF Operation
<1>5. decode_value(Mail[w].text, message_name(w)) \in Json
    BY <1>2, DecodeType
<1>6. r \in Result /\ (r.ok => Fits(r.value))
    BY <1>5, ResultType, DecodedFits
<1>7. Replayed(o) = r
    BY DEF Replayed
<1>8. Observed(Replayed(o)) = Observed(r)
    BY <1>7
<1> HIDE DEF o, r
<1> QED BY <1>1, <1>4, <1>6, <1>8, SeeInv

LEMMA FinishInv == ASSUME Inv, NEW w \in Workflows, Finish(w) PROVE Inv'
<1>1. PICK r \in Result : r = task[w].result
    BY OfWorkflow DEF Task
<1> DEFINE output == IF r.ok THEN encode_value(r.value, Fmt(w)) ELSE NoText
           error == IF r.ok THEN NoText ELSE serialize_workflow_error(Display(r.error), Fmt(w))
           row == [rows[w] EXCEPT !.status = IF r.ok THEN "SUCCESS" ELSE "ERROR", !.output = output, !.error = error]
           run == [IdleTask EXCEPT !.result = r]
<1>2. /\ task[w].at = "finish" /\ rows' = [rows EXCEPT ![w] = row] /\ task' = [task EXCEPT ![w] = run]
      /\ UNCHANGED <<op, meant, got, seen, crashes>>
    BY <1>1, OfWorkflow DEF Finish
<1>3. r.ok \in BOOLEAN /\ r.value \in Json /\ Display(r.error) \in Json
    BY ResultType DEF Result
<1>4. /\ NoText \in Texts
      /\ encode_value(r.value, Fmt(w)) \in Texts /\ encode_value(r.value, Fmt(w)) # NoText
      /\ serialize_workflow_error(Display(r.error), Fmt(w)) \in Texts
      /\ serialize_workflow_error(Display(r.error), Fmt(w)) # NoText
    BY <1>3, EncodeType
<1>5. output \in Texts /\ error \in Texts
    BY <1>4
<1>6. /\ r.ok => output # NoText /\ error = NoText
      /\ ~r.ok => output = NoText /\ error # NoText
    BY <1>4
<1>7. rows[w].name \in Names \ {"py_pickle"} /\ Fmt(w) = from_name(rows[w].name)
    BY OfWorkflow DEF Row, InputOk, Fmt
<1>8. r.ok => decode_value(output, rows[w].name) = r.value
    <2>1. r.ok => Fits(r.value)
        BY <1>1, OfWorkflow DEF OutcomeOk
    <2> QED BY <1>7, <2>1, OutcomeRoundTrip
<1>9. ~r.ok /\ KeepsText(rows[w].origin, Display(r.error)) =>
         deserialize_workflow_error(error, rows[w].name) = Display(r.error)
    <2>1. KeepsText(rows[w].origin, Display(r.error)) =>
             /\ rows[w].name \in {"portable_json", "DBOS_JSON"}
             /\ rows[w].name = "portable_json" \/ Display(r.error) # Blank
        BY OfWorkflow DEF InputOk, KeepsText
    <2> QED BY <1>7, <2>1, ErrorRoundTrip
<1> HIDE DEF output, error
<1>10. /\ row \in Row /\ row.status = (IF r.ok THEN "SUCCESS" ELSE "ERROR") /\ row.output = output /\ row.error = error
       /\ row.name = rows[w].name /\ row.origin = rows[w].origin /\ row.inputs = rows[w].inputs
    BY <1>5, OfWorkflow DEF Row
<1>11. run \in Task /\ run.at = "idle" /\ run.result = r
    BY Starts DEF Task
<1> HIDE DEF row, run
<1>12. InputOk(row, run, meant[w], got[w])
    BY <1>10, OfWorkflow DEF InputOk
<1>13. StepOk(op[w], run, seen[w])
    BY <1>11, OfWorkflow DEF StepOk
<1>14. r.ok => Fits(r.value)
    BY <1>1, OfWorkflow DEF OutcomeOk
<1>15. OutcomeOk(row, run)
    BY <1>3, <1>6, <1>8, <1>9, <1>10, <1>11, <1>14 DEF OutcomeOk
<1>16. Holds(row, op[w], run, meant[w], got[w], seen[w])
    BY <1>12, <1>13, <1>15 DEF Holds
<1>17. Becomes(w, row, op[w], run, meant[w], got[w], seen[w])
    BY <1>2, OfWorkflow DEF Becomes
<1> QED BY <1>2, <1>10, <1>11, <1>16, <1>17, OfWorkflow, OneWorkflow

LEMMA CrashInv == ASSUME Inv, NEW w \in Workflows, Crash(w) PROVE Inv'
<1>1. /\ task[w].at # "idle" /\ crashes' = crashes + 1 /\ task' = [task EXCEPT ![w] = IdleTask]
      /\ UNCHANGED <<rows, op, meant, got, seen>>
    BY DEF Crash
<1>2. crashes' \in Nat
    BY <1>1, OfWorkflow
<1>3. rows[w].status = "PENDING"
    BY <1>1, RunningIsPending
<1>4. Holds(rows[w], op[w], IdleTask, meant[w], got[w], seen[w])
    <2>1. InputOk(rows[w], IdleTask, meant[w], got[w])
        BY <1>3, OfWorkflow DEF InputOk
    <2>2. StepOk(op[w], IdleTask, seen[w])
        BY Starts, OfWorkflow DEF StepOk
    <2>3. OutcomeOk(rows[w], IdleTask)
        BY <1>3, Starts, Typed DEF OutcomeOk
    <2> QED BY <2>1, <2>2, <2>3 DEF Holds
<1>5. Becomes(w, rows[w], op[w], IdleTask, meant[w], got[w], seen[w])
    BY <1>1, OfWorkflow DEF Becomes
<1> QED BY <1>2, <1>4, <1>5, Starts, OfWorkflow, OneWorkflow

LEMMA NextInv == Inv /\ [Next]_vars => Inv'
<1> SUFFICES ASSUME Inv, [Next]_vars PROVE Inv'
    OBVIOUS
<1>1. CASE Next
    BY <1>1, EnqueueInv, BeginInv, ReplayInv, AttemptInv, RecordInv, ReceiveInv, FinishInv, CrashInv DEF Next
<1>2. CASE UNCHANGED vars
    BY <1>2 DEF Inv, TypeOK, vars
<1> QED BY <1>1, <1>2

LEMMA Invariance == Spec => []Inv
    BY InitInv, NextInv, PTL DEF Spec

\* Rows, step records and runs are well formed whichever SDK wrote them, and a final row has exactly the column
\* that its status calls for.
THEOREM SerializationTypeCorrect == Spec => []TypeOK
<1>1. Inv => TypeOK
    BY DEF Inv
<1> QED BY <1>1, Invariance, PTL

\* Every run of a row that this crate or a current Go SDK wrote is called with the input that was meant
\* (encode_input of the writer, decode_input of the handler).
THEOREM InputReachesHandler == Spec => []InputArrives
<1>1. Inv => InputArrives
    BY OfWorkflow DEF InputArrives, InputOk
<1> QED BY <1>1, Invariance, PTL

\* The value a run returned is what decode_value makes of the row it completed, whichever SDK wrote that row,
\* and the text of an error, unless it is empty in a Go row, is read back from portable and Go rows.
THEOREM OutcomeReadsBack == Spec => []OutcomeIsReadable
<1>1. Inv => OutcomeIsReadable
    BY OfWorkflow DEF OutcomeIsReadable, OutcomeOk
<1> QED BY <1>1, Invariance, PTL

\* All runs of a workflow see one and the same result of its step, by value and by the text of its error: what
\* record_step or recv stored replays to what the first run went on with.
THEOREM ReplaySeesTheSame == Spec => []ReplayIsFaithful
<1>1. Inv => ReplayIsFaithful
    <2> SUFFICES ASSUME Inv, NEW w \in Workflows PROVE Cardinality(seen[w]) <= 1
        BY DEF ReplayIsFaithful
    <2>1. seen[w] = {} \/ \E x : seen[w] = {x}
        BY OfWorkflow DEF StepOk
    <2>2. Cardinality({}) = 0 /\ \A x : Cardinality({x}) = 1
        BY FS_EmptySet, FS_Singleton
    <2>3. Cardinality(seen[w]) \in {0, 1}
        BY <2>1, <2>2
    <2> QED BY <2>3
<1> QED BY <1>1, Invariance, PTL
====
