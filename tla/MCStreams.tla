---- MODULE MCStreams ----
(* Instances of Streams for TLC. *)
EXTENDS Streams

CONSTANTS r1, r2

\* A body that closes its stream and then, against the rules, writes once more.
WritesAfterClose == <<"write_stream", "write_stream", "close_stream", "write_stream">>

\* A body that leaves its stream open.
LeavesOpen == <<"write_stream", "write_stream">>

\* r1 reads from the start, r2 from the second entry.
Offsets == [r \in Readers |-> IF r = r1 THEN 0 ELSE 1]

====
