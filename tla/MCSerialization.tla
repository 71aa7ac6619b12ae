---- MODULE MCSerialization ----
(*
 * Workflows with a step that is tried once, with a step that is retried, and one that receives a message the
 * Go SDK sent without naming its format.
 *)
EXTENDS Serialization, TLC

MCMaxRetries == "w1" :> 0 @@ "w2" :> 1 @@ "w3" :> 0

MCMail == "w1" :> NoMail @@ "w2" :> NoMail @@ "w3" :> [text |-> [form |-> "base64", of |-> Item("x")], name |-> ""]
====
