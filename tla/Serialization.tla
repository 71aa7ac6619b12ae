---- MODULE Serialization ----
(*
 * What a workflow's payloads become between the SDKs that share the database: serialize.rs, and the places
 * of the runtime that choose the format to read and write with (mod.rs, recovery.rs, queue.rs, context.rs,
 * workflow.rs). A row is written by this crate, by the Go SDK or by the TypeScript SDK, run here by recovery
 * or a queue runner, and its outcome is read by a polling handle or a list.
 *
 * The body of a workflow is one durable step, a function with retries (step.rs) or a recv, whose result it
 * returns.
 *
 * A JSON value is a pair of its kind and its content. A stored text is a record of its form and its content;
 * what does not parse as JSON is told apart from what does by its form.
 *)
EXTENDS Naturals, FiniteSets

CONSTANTS
    Workflows,
    Contents,      \* contents of the inputs and results; "null" among them is JSON's null
    Origins,       \* who writes the rows: see Written
    Mail,          \* [w]: the message for w, or NoMail if its step is not a recv
    MaxRetries,    \* [w]: StepOptions.max_retries of the step of w
    MaxCrashes     \* bound on crashes

Null == <<"null", "">>
Fail == <<"fail", "">>
Object == <<"object", "">>
Item(x) == IF x = "null" THEN Null ELSE <<"atom", x>>
ArrayOf(x) == <<"array", x>>
NoText == [form |-> "none", of |-> Null]
NoMail == [text |-> NoText, name |-> ""]

\* The values, texts and format names there can be.
Codes == {0, 5, 13}
Json == {Null, Fail, Object} \cup {Item(x) : x \in Contents} \cup {ArrayOf(x) : x \in Contents}
          \cup {<<"text", m>> : m \in {"failed", "", "workflow failed", "decode error", "envelope"}} \cup {<<"DBOS Error", c>> : c \in Codes}
Texts == [form : {"none", "json", "nil", "base64", "envelope", "superjson", "error", "raw"}, of : Json]
Names == {"portable_json", "DBOS_JSON", "js_superjson", "py_pickle", ""}

ASSUME SerializationAssumption ==
    /\ MaxCrashes \in Nat /\ MaxRetries \in [Workflows -> Nat]
    /\ Origins \subseteq {"rust", "go", "ts", "ts_legacy", "go_legacy"}
    /\ Mail \in [Workflows -> [text : Texts, name : Names]]

VARIABLES
    rows,     \* [w]: the payload columns of workflow_status
    op,       \* [w]: the payload columns of operation_outputs for the step of w
    task,     \* [w]: the run of w
    meant,    \* history: [w]: the input that w's row was written for
    got,      \* history: [w]: inputs that runs of w were called with, Fail for one that did not decode
    seen,     \* history: [w]: results of the step that runs of w saw
    crashes   \* history, for the bound

vars == <<rows, op, task, meant, got, seen, crashes>>

----
(* serialize.rs; the empty name stands for a NULL serialization column *)

\* Mutant.
from_name_always_portable(name) == "portable_json"

from_name(name) == IF name = "DBOS_JSON" THEN "DBOS_JSON" ELSE "portable_json"

\* serde_json::from_str
parse(t) ==
    CASE t.form = "json" -> t.of
      [] t.form \in {"envelope", "superjson", "error"} -> Object
      [] OTHER -> Fail

encode_value(v, fmt) ==
    CASE fmt = "portable_json" -> [form |-> "json", of |-> v]
      [] OTHER -> IF v = Null THEN [form |-> "nil", of |-> Null] ELSE [form |-> "base64", of |-> v]

decode_base64_json(t) == IF t.form = "base64" THEN t.of ELSE Fail

\* The SuperJSON envelope, its rich types lowered, or else plain JSON with the legacy wrappers.
decode_superjson(t) == IF t.form = "superjson" THEN t.of ELSE parse(t)

decode_to_json(t, name) ==
    IF t.form = "none" /\ name # "py_pickle" THEN Null ELSE
    CASE name = "portable_json" -> parse(t)
      [] name = "DBOS_JSON" -> IF t.form = "nil" THEN Null ELSE decode_base64_json(t)
      [] name = "js_superjson" -> decode_superjson(t)
      [] name = "" -> IF t.form = "nil" THEN Null
                      ELSE IF decode_superjson(t) # Fail THEN decode_superjson(t) ELSE decode_base64_json(t)
      [] OTHER -> Fail

\* serde_json::from_value into the type the caller expects, here an optional atom.
typed(v) == IF v[1] \in {"null", "atom"} THEN v ELSE Fail
decode_value(t, name) == typed(decode_to_json(t, name))

encode_input(v, fmt) ==
    IF fmt = "portable_json" THEN [form |-> "envelope", of |-> v] ELSE encode_value(v, fmt)

\* Mutant.
decode_input_as_value(t, name) == decode_value(t, name)

\* A portable input is the first positional argument of its envelope; any other JSON object is an envelope
\* without arguments. A TypeScript input is the first element of its array.
decode_input(t, name) ==
    typed(CASE name = "portable_json" ->
                  (CASE t.form = "none" \/ t = [form |-> "json", of |-> Null] -> Null
                     [] t.form = "envelope" -> t.of
                     [] t.form # "envelope" /\ parse(t) = Object -> Null
                     [] OTHER -> Fail)
            [] name = "js_superjson" ->
                  (LET v == decode_to_json(t, name) IN IF v[1] = "array" THEN Item(v[2]) ELSE v)
            [] OTHER -> decode_to_json(t, name))

\* A message that is stored as it is outside portable rows, in the error envelope within them.
serialize_workflow_error(message, fmt) ==
    [form |-> IF fmt = "portable_json" THEN "error" ELSE "raw", of |-> message]

Blank == <<"text", "">>

\* The message read back: the envelope's where the row is portable, else the text itself. An empty text counts
\* as none, for which get_result has a default.
deserialize_workflow_error(t, name) ==
    CASE t = [form |-> "raw", of |-> Blank] -> <<"text", "workflow failed">>
      [] t.form = "error" /\ name # "portable_json" -> <<"text", "envelope">>
      [] OTHER -> t.of

----
(* error.rs: an error is a code and a message, and its Display is a text. Code 0 displays the message alone. *)

Error(code, message) == [code |-> code, message |-> message]
Display(e) == IF e.code = 0 THEN e.message ELSE <<"DBOS Error", e.code>>

other(message) == Error(0, message)

Ok(v) == [ok |-> TRUE, value |-> v, error |-> other(Null)]
Err(e) == [ok |-> FALSE, value |-> Null, error |-> e]
DecodeError == other(<<"text", "decode error">>)

\* What a decoded value is to its caller.
Decoded(v) == IF v = Fail THEN Err(DecodeError) ELSE Ok(v)

\* What tells two results apart to a body that compares values and the texts of errors.
Observed(r) == IF r.ok THEN r.value ELSE Display(r.error)

----

AbsentRow == [status |-> "ABSENT", origin |-> "", name |-> "", inputs |-> NoText, output |-> NoText, error |-> NoText]
NoOp == [recorded |-> FALSE, name |-> "", output |-> NoText, error |-> NoText]
IdleTask == [at |-> "idle", tries |-> 0, result |-> Ok(Null)]

Row == [status : {"ABSENT", "PENDING", "SUCCESS", "ERROR"}, origin : Origins \cup {""}, name : Names,
        inputs : Texts, output : Texts, error : Texts]
Operation == [recorded : BOOLEAN, name : Names, output : Texts, error : Texts]
Result == [ok : BOOLEAN, value : Json, error : [code : Codes, message : Json]]
Task == [at : {"idle", "step", "record", "finish"}, tries : Nat, result : Result]

\* Rows, records and runs are well formed; a final row has the column that its status calls for.
TypeOK ==
    /\ rows \in [Workflows -> Row]
    /\ op \in [Workflows -> Operation]
    /\ task \in [Workflows -> Task]
    /\ meant \in [Workflows -> Json]
    /\ got \in [Workflows -> SUBSET Json]
    /\ seen \in [Workflows -> SUBSET Json]
    /\ crashes \in Nat
    /\ \A w \in Workflows :
          /\ rows[w].status = "SUCCESS" => rows[w].output # NoText /\ rows[w].error = NoText
          /\ rows[w].status = "ERROR" => rows[w].error # NoText /\ rows[w].output = NoText

Init ==
    /\ rows = [w \in Workflows |-> AbsentRow]
    /\ op = [w \in Workflows |-> NoOp]
    /\ task = [w \in Workflows |-> IdleTask]
    /\ meant = [w \in Workflows |-> Null]
    /\ got = [w \in Workflows |-> {}]
    /\ seen = [w \in Workflows |-> {}]
    /\ crashes = 0

\* The serialization column and the inputs of a row for input x, as each SDK writes them.
Written(origin, x) ==
    CASE origin = "rust" -> [name |-> "portable_json", inputs |-> encode_input(Item(x), "portable_json")]
      [] origin = "go" -> [name |-> "DBOS_JSON", inputs |-> encode_input(Item(x), "DBOS_JSON")]
      [] origin = "ts" -> [name |-> "js_superjson", inputs |-> [form |-> "superjson", of |-> ArrayOf(x)]]
      [] origin = "ts_legacy" -> [name |-> "", inputs |-> [form |-> "json", of |-> ArrayOf(x)]]
      [] origin = "go_legacy" -> [name |-> "", inputs |-> encode_value(Item(x), "DBOS_JSON")]

Enqueue(w, origin, x) ==
    /\ rows[w].status = "ABSENT"
    /\ rows' = [rows EXCEPT ![w] = [AbsentRow EXCEPT !.status = "PENDING", !.origin = origin,
                                        !.name = Written(origin, x).name, !.inputs = Written(origin, x).inputs]]
    /\ meant' = [meant EXCEPT ![w] = Item(x)]
    /\ UNCHANGED <<op, task, got, seen, crashes>>

\* The format a run works with.
Fmt(w) == from_name(rows[w].name)

\* recover_pending_workflows or dispatch_dequeued calls the handler, which decodes its input with the name of
\* the format it is to write, not with the name in the row.
Begin(w) ==
    LET input == decode_input(rows[w].inputs, Fmt(w)) IN
    /\ rows[w].status = "PENDING" /\ task[w].at = "idle"
    /\ task' = [task EXCEPT ![w] =
          IF input = Fail THEN [IdleTask EXCEPT !.at = "finish", !.result = Err(DecodeError)]
          ELSE [IdleTask EXCEPT !.at = "step"]]
    /\ got' = [got EXCEPT ![w] = @ \cup {input}]
    /\ UNCHANGED <<rows, op, meant, seen, crashes>>

See(w, r) ==
    /\ task' = [task EXCEPT ![w].at = "finish", ![w].result = r]
    /\ seen' = [seen EXCEPT ![w] = @ \cup {Observed(r)}]

\* replay_step, and the same for recv.
Replay(w) ==
    /\ task[w].at = "step" /\ op[w].recorded
    /\ See(w, IF op[w].error # NoText THEN Err(other(deserialize_workflow_error(op[w].error, op[w].name)))
              ELSE Decoded(decode_value(op[w].output, op[w].name)))
    /\ UNCHANGED <<rows, op, meant, got, crashes>>

\* An attempt of execute_step_with_retry: the first error is returned as it is when there are no retries, and
\* as MaxStepRetriesExceeded (13) after the last one.
Attempt(w, r) ==
    /\ task[w].at = "step" /\ ~op[w].recorded /\ Mail[w] = NoMail
    /\ task' = [task EXCEPT ![w] =
          IF r.ok \/ MaxRetries[w] = 0 THEN [@ EXCEPT !.at = "record", !.result = r]
          ELSE IF task[w].tries < MaxRetries[w] THEN [@ EXCEPT !.tries = task[w].tries + 1]
          ELSE [@ EXCEPT !.at = "record", !.result = Err(Error(13, Display(r.error)))]]
    /\ UNCHANGED <<rows, op, meant, got, seen, crashes>>

\* record_step: steps are always recorded as portable JSON.
Record(w) ==
    LET r == task[w].result IN
    /\ task[w].at = "record"
    /\ op' = [op EXCEPT ![w] =
          [recorded |-> TRUE, name |-> "portable_json",
           output |-> IF r.ok THEN encode_value(r.value, "portable_json") ELSE NoText,
           error |-> IF r.ok THEN NoText ELSE serialize_workflow_error(Display(r.error), "portable_json")]]
    /\ See(w, r)
    /\ UNCHANGED <<rows, meant, got, crashes>>

\* Mutant.
message_name_as_stored(w) == Mail[w].name

\* The format a message is read with and recorded under: a NULL one counts as portable.
message_name(w) == IF Mail[w].name = "" THEN "portable_json" ELSE Mail[w].name

\* recv consumes the message and records its text as it is, in one transaction.
Receive(w) ==
    /\ task[w].at = "step" /\ ~op[w].recorded /\ Mail[w] # NoMail
    /\ op' = [op EXCEPT ![w] =
          [recorded |-> TRUE, name |-> IF Mail[w].name = "" THEN "portable_json" ELSE Mail[w].name,
           output |-> Mail[w].text, error |-> NoText]]
    /\ See(w, Decoded(decode_value(Mail[w].text, message_name(w))))
    /\ UNCHANGED <<rows, meant, got, crashes>>

\* The run ends: the outcome is encoded in the run's format; the serialization column stays as it is.
Finish(w) ==
    LET r == task[w].result IN
    /\ task[w].at = "finish"
    /\ rows' = [rows EXCEPT
          ![w].status = IF r.ok THEN "SUCCESS" ELSE "ERROR",
          ![w].output = IF r.ok THEN encode_value(r.value, Fmt(w)) ELSE NoText,
          ![w].error = IF r.ok THEN NoText ELSE serialize_workflow_error(Display(r.error), Fmt(w))]
    /\ task' = [task EXCEPT ![w] = [IdleTask EXCEPT !.result = r]]
    /\ UNCHANGED <<op, meant, got, seen, crashes>>

\* The process crashes; recovery begins the workflow again.
Crash(w) ==
    /\ task[w].at # "idle" /\ crashes < MaxCrashes
    /\ crashes' = crashes + 1
    /\ task' = [task EXCEPT ![w] = IdleTask]
    /\ UNCHANGED <<rows, op, meant, got, seen>>

StepResults ==
    {Ok(Item(x)) : x \in Contents} \cup {Err(e) : e \in [code : {0, 5}, message : {<<"text", "failed">>, Blank}]}

Next ==
    \E w \in Workflows :
        \/ \E origin \in Origins, x \in Contents : Enqueue(w, origin, x)
        \/ Begin(w) \/ Replay(w) \/ Record(w) \/ Receive(w) \/ Finish(w) \/ Crash(w)
        \/ \E r \in StepResults : Attempt(w, r)

Spec == Init /\ [][Next]_vars

----
(* Properties *)

\* The runs of a row that this crate or a current Go SDK wrote get the input that was meant, in every run. (A
\* TypeScript row or one with a NULL serialization is read as if it were portable: its runs get null, or fail.)
InputArrives ==
    \A w \in Workflows : rows[w].origin \in {"rust", "go"} => got[w] \subseteq {meant[w]}

\* The rows that keep the text of an error as it is.
KeepsText(origin, text) == origin = "rust" \/ (origin = "go" /\ text # Blank)

\* Whoever wrote the row, the value its run returned is the value a polling handle or a list decodes, although
\* the run wrote it in a format of its own choice and left the serialization column of another SDK in place;
\* and the text of an error is read back where the row is portable or Go's. (An empty text of a Go row is not:
\* it comes back as the default of get_result.)
OutcomeIsReadable ==
    \A w \in Workflows :
        /\ rows[w].status = "SUCCESS" => decode_value(rows[w].output, rows[w].name) = task[w].result.value
        /\ rows[w].status = "ERROR" /\ KeepsText(rows[w].origin, Display(task[w].result.error)) =>
              deserialize_workflow_error(rows[w].error, rows[w].name) = Display(task[w].result.error)

\* Every run of a workflow sees the same result of its step, by value and by the text of the error, before
\* and after a crash, with retries in between and whichever SDK sent the message. (Not by the code of the
\* error, which is not stored.)
ReplayIsFaithful == \A w \in Workflows : Cardinality(seen[w]) <= 1
====
