--------------------------- MODULE SchemaHistory ---------------------------
(***************************************************************************)
(* The embedded migrations of db/migrate.rs, one record per version:       *)
(*   online   CREATE or DROP INDEX CONCURRENTLY, run in autocommit         *)
(*   conflicts  the applied catalog migrations that make it fail: its own  *)
(*            unless its statements tolerate repetition (IF [NOT] EXISTS,  *)
(*            OR REPLACE); 20 alters a function that 38 replaces           *)
(*   locks    the DDL locks workflow_status, the table all online indexes  *)
(*            are built on                                                 *)
(*   creates, drops   the indexes (and the one constraint) it touches      *)
(* Tables, columns, functions and triggers are not told apart: a catalog   *)
(* migration is either in the schema or not.                               *)
(***************************************************************************)
EXTENDS Naturals

SCHEMA_VERSION == 40

Online == {22, 23, 24, 25, 26, 27, 29, 30, 31, 32, 34, 35, 37}

Repeatable == Online \cup {10, 28, 33, 36, 38, 39, 40}

Conflicts(v) == IF v \in Repeatable THEN {} ELSE IF v = 20 THEN {38} ELSE {v}

NotOnWorkflowStatus == {5, 9, 10, 12, 13, 14, 15, 17, 19, 20, 21, 38, 39}

Creates(v) ==
    CASE v = 1  -> {"created_at", "executor_id", "status", "uq_queue_dedup"}
      [] v = 3  -> {"queue_status_started"}
      [] v \in {4, 23}  -> {"forked_from"}
      [] v \in {8, 25} -> {"parent_workflow_id"}
      [] v = 16 -> {"delayed"}
      [] v = 27 -> {"uq_dedup_id"}
      [] v = 29 -> {"pending"}
      [] v = 30 -> {"failed"}
      [] v = 32 -> {"in_flight"}
      [] v = 34 -> {"rate_limited"}
      [] v = 36 -> {"completed_at"}
      [] v = 37 -> {"started_at"}
      [] v = 40 -> {"attributes"}
      [] OTHER -> {}

Drops(v) ==
    CASE v = 22 -> {"forked_from"}
      [] v = 24 -> {"parent_workflow_id"}
      [] v = 26 -> {"executor_id"}
      [] v = 28 -> {"uq_queue_dedup"}
      [] v = 31 -> {"status"}
      [] v = 35 -> {"queue_status_started"}
      [] OTHER -> {}

build_migrations ==
    [v \in 1..SCHEMA_VERSION |->
        [online |-> v \in Online, conflicts |-> Conflicts(v),
         locks |-> v \notin NotOnWorkflowStatus,
         creates |-> Creates(v), drops |-> Drops(v)]]
=============================================================================
