---- MODULE MCMessaging ----
(* Instances of Messaging for TLC. *)
EXTENDS Messaging

CONSTANTS a, b, c

\* a sends two messages; b receives them, publishing and reading its event in between.
Conversation == [w \in Workflows |->
    IF w = a
    THEN <<"send", "send">>
    ELSE <<"recv", "set_event", "get_event", "set_event", "recv", "sleep">>]

\* a publishes an event that b and c read.
SharedEvent == [w \in Workflows |-> IF w = a THEN <<"set_event">> ELSE <<"get_event">>]

====
