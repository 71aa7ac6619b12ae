--------------------------- MODULE MCMigrations ---------------------------
(* The migration table of the code, and an excerpt of it that keeps every   *)
(* kind of file: unrepeatable and repeatable catalog files before, between  *)
(* and after the online ones, a drop and a create of the same index name,   *)
(* drops and creates of others.                                             *)
EXTENDS Migrations, Sequences, TLC

History == INSTANCE SchemaHistory

FullTable == History!build_migrations

Kept == <<1, 4, 10, 21, 22, 23, 26, 28, 29, 36, 37, 40>>

Excerpt ==
    [n \in 1..Len(Kept) |->
        [FullTable[Kept[n]] EXCEPT
            !.conflicts = {k \in 1..Len(Kept) : Kept[k] \in FullTable[Kept[n]].conflicts}]]

\* What the proofs ask of a table holds of the code's own, not only of the excerpt.
Full == INSTANCE Migrations WITH LatestVersion <- History!SCHEMA_VERSION, Migration <- FullTable

ASSUME TablesAssumption == RepeatableTail /\ Full!MigrationAssumption /\ Full!RepeatableTail
=============================================================================
