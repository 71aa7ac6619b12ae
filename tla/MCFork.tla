---- MODULE MCFork ----
(* A body of two stream entries and two events, interleaved; two calls race for one id. *)
EXTENDS Fork, TLC

MCProgram == <<"stream", "event", "stream", "event">>
====
