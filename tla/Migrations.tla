---------------------------- MODULE Migrations ----------------------------
(***************************************************************************)
(* run_migrations of db/migrate.rs, called by every launch() against one   *)
(* database: Phase A makes the schema and the version table, Phase B       *)
(* applies the pending migrations in order. There is no lock around a run. *)
(* A catalog migration commits its DDL with its version bump; an online    *)
(* one is DDL in autocommit followed by a separate bump, and a CREATE      *)
(* INDEX CONCURRENTLY that does not end well leaves an invalid index.      *)
(*                                                                         *)
(* A runner dies (Crash) or a statement of it fails (StatementFails) at    *)
(* any point; a server keeps building an index whose client has died.      *)
(***************************************************************************)
EXTENDS Naturals, FiniteSets, FiniteSetsExt

CONSTANTS Runners,          \* processes that may call launch()
          LatestVersion,   \* the last embedded version
          Migration,        \* [1..LatestVersion -> record], see SchemaHistory
          InitialVersions,  \* versions a database may be at when first launched
          MaxFaults         \* bound on crashes and failed statements

SchemaVersions == 1..LatestVersion

Indexes == UNION {Migration[v].creates \cup Migration[v].drops : v \in SchemaVersions}

\* Online files hold exactly one index statement and tolerate repetition. A file
\* that touches an index locks its table, and an index name is created again only
\* after a file has dropped it.
ASSUME MigrationAssumption ==
    /\ LatestVersion \in Nat \ {0}
    /\ InitialVersions \subseteq Nat
    /\ MaxFaults \in Nat
    /\ Runners \cap {"none", "orphan"} = {}
    /\ Migration \in [SchemaVersions -> [online : BOOLEAN, conflicts : SUBSET SchemaVersions, locks : BOOLEAN,
                                   creates : SUBSET STRING, drops : SUBSET STRING]]
    /\ \A v \in SchemaVersions :
          /\ Migration[v].creates \cap Migration[v].drops = {}
          /\ Migration[v].creates \cup Migration[v].drops # {} => Migration[v].locks
          /\ \A u \in 1..(v - 1) : \A i \in Migration[u].creates \cap Migration[v].creates :
                \E d \in (u + 1)..(v - 1) : i \in Migration[d].drops
          /\ Migration[v].online =>
                /\ Migration[v].conflicts = {}
                /\ \E i \in Indexes : Migration[v].creates \cup Migration[v].drops = {i}
    /\ ~Migration[1].online

\* The table lets two runs overlap: no file can fail to apply from the first online
\* one on, and one before it that touches an index cannot be applied twice.
RepeatableTail ==
    \A v \in SchemaVersions :
        IF \E u \in SchemaVersions : u <= v /\ Migration[u].online
        THEN Migration[v].conflicts = {}
        ELSE Migration[v].creates \cup Migration[v].drops # {} => v \in Migration[v].conflicts

VARIABLES
    relations,  \* of "schema" and "table" (dbos_migrations), those that exist
    version,    \* the row of dbos_migrations; 0: no row
    catalog,    \* the catalog migrations whose DDL is in the database
    index,      \* index[i]: absent, invalid, or the migration that built it
    build,      \* the CREATE INDEX CONCURRENTLY under way, its file and its client
    runner,     \* runner[r]: where a call of run_migrations is
    overlapped, \* history: two runners have been active at once
    faults      \* number of crashes and failed statements so far

db == <<relations, version, catalog, index, build>>
migration_vars == <<db, runner, overlapped, faults>>

Absent == 0
Invalid == LatestVersion + 1
IndexState == 0..(LatestVersion + 1)
NoBuild == [of |-> "none", by |-> 0, client |-> "none"]

Idle == [pc |-> "idle", current_version |-> 0, cleaned |-> FALSE, names |-> {}, saw |-> {}]

\* The state of a call of run_migrations.
Runner ==
    [pc : {"idle", "check", "create", "next", "list", "drop", "ddl", "building", "bump"},
     current_version : Nat, cleaned : BOOLEAN, names : SUBSET Indexes,
     saw : SUBSET {"schema", "table"}]

Active(r) == runner[r].pc # "idle"

----------------------------------------------------------------------------
(* The schema that applying migrations 1..v leaves behind.                 *)

Touches(v, i) == i \in Migration[v].creates \cup Migration[v].drops

IndexAt(v, i) ==
    LET touched == {u \in SchemaVersions : u <= v /\ Touches(u, i)}
    IN IF touched = {} THEN Absent
       ELSE IF i \in Migration[Max(touched)].creates THEN Max(touched) ELSE Absent

CatalogAt(v) == {u \in SchemaVersions : u <= v /\ ~Migration[u].online}

MigrationTypeOK ==
    /\ relations \subseteq {"schema", "table"}
    /\ version \in Nat
    /\ catalog \subseteq SchemaVersions
    /\ index \in [Indexes -> IndexState]
    /\ build = NoBuild \/ build \in [of : Indexes, by : SchemaVersions, client : Runners \cup {"orphan"}]
    /\ runner \in [Runners -> Runner]
    /\ overlapped \in BOOLEAN
    /\ faults \in 0..MaxFaults

MigrationInit ==
    /\ version \in InitialVersions
    /\ relations \in SUBSET {"schema", "table"}
    /\ "table" \in relations => "schema" \in relations
    /\ version > 0 => "table" \in relations
    /\ catalog = CatalogAt(version)
    /\ index = [i \in Indexes |-> IndexAt(version, i)]
    /\ build = NoBuild
    /\ runner = [r \in Runners |-> Idle]
    /\ overlapped = FALSE
    /\ faults = 0

\* The migration a runner is at: files are applied in version order, those up
\* to current_version are skipped.
Pending(r) == runner[r].current_version + 1

----------------------------------------------------------------------------
(* Phase A                                                                 *)

LaunchMigrates(r) ==
    /\ ~Active(r)
    /\ runner' = [runner EXCEPT ![r] = [Idle EXCEPT !.pc = "check"]]
    /\ overlapped' = (overlapped \/ \E s \in Runners : Active(s))
    /\ UNCHANGED <<db, faults>>

\* schema_exists and migrations_table_exists inside the transaction.
CheckRelations(r) ==
    /\ runner[r].pc = "check"
    /\ runner' = [runner EXCEPT ![r].pc = "create", ![r].saw = relations]
    /\ UNCHANGED <<db, overlapped, faults>>

\* CREATE what was missing, read the version, commit. Two runners that both saw
\* it missing collide, and the later one's launch() fails.
CreateRelations(r) ==
    LET missing == {"schema", "table"} \ runner[r].saw IN
    /\ runner[r].pc = "create"
    /\ IF missing \cap relations # {}
       THEN /\ runner' = [runner EXCEPT ![r] = Idle]
            /\ UNCHANGED relations
       ELSE /\ relations' = relations \cup missing
            /\ runner' = [runner EXCEPT ![r] = [Idle EXCEPT !.pc = "next",
                                                            !.current_version = version]]
    /\ UNCHANGED <<version, catalog, index, build, overlapped, faults>>

----------------------------------------------------------------------------
(* Phase B                                                                 *)

\* Mutants of NextMigration: the last file is skipped; the clean-up is repeated
\* before every online file.
NextMigrationSkipsLast(r) ==
    /\ runner[r].pc = "next"
    /\ runner' = [runner EXCEPT ![r] =
          IF runner[r].current_version >= LatestVersion - 1 THEN Idle ELSE [@ EXCEPT !.pc =
                IF Migration[Pending(r)].online /\ ~runner[r].cleaned THEN "list" ELSE "ddl"]]
    /\ UNCHANGED <<db, overlapped, faults>>

NextMigrationAlwaysCleans(r) ==
    /\ runner[r].pc = "next"
    /\ runner' = [runner EXCEPT ![r] =
          IF runner[r].current_version >= LatestVersion THEN Idle ELSE [@ EXCEPT !.pc =
                IF Migration[Pending(r)].online THEN "list" ELSE "ddl"]]
    /\ UNCHANGED <<db, overlapped, faults>>

\* The head of the loop: stop, apply an online file, or clean up first. Catalog
\* files go straight to their transaction.
NextMigration(r) ==
    /\ runner[r].pc = "next"
    /\ \/ /\ runner[r].current_version >= LatestVersion
          /\ runner' = [runner EXCEPT ![r] = Idle]
       \/ /\ runner[r].current_version < LatestVersion
          /\ runner' = [runner EXCEPT ![r].pc =
                IF Migration[Pending(r)].online /\ ~runner[r].cleaned THEN "list" ELSE "ddl"]
    /\ UNCHANGED <<db, overlapped, faults>>

\* Mutant of ListInvalidIndexes: the clean-up finds nothing.
ListInvalidIndexesBlind(r) ==
    /\ runner[r].pc = "list"
    /\ runner' = [runner EXCEPT ![r].pc = "drop", ![r].names = {}]
    /\ UNCHANGED <<db, overlapped, faults>>

\* cleanup_invalid_indexes, its query: an index under construction is not valid
\* yet and is listed too.
ListInvalidIndexes(r) ==
    /\ runner[r].pc = "list"
    /\ runner' = [runner EXCEPT ![r].pc = "drop",
                                ![r].names = {i \in Indexes : index[i] = Invalid}]
    /\ UNCHANGED <<db, overlapped, faults>>

\* DROP INDEX CONCURRENTLY IF EXISTS, one listed name at a time. It waits for a
\* build on the same table, so it may drop an index that has become valid.
DropInvalidIndex(r) ==
    /\ runner[r].pc = "drop"
    /\ \/ \E i \in runner[r].names :
             /\ build = NoBuild
             /\ index' = [index EXCEPT ![i] = Absent]
             /\ runner' = [runner EXCEPT ![r].names = @ \ {i}]
       \/ /\ runner[r].names = {}
          /\ runner' = [runner EXCEPT ![r].pc = "ddl", ![r].cleaned = TRUE]
          /\ UNCHANGED index
    /\ UNCHANGED <<relations, version, catalog, build, overlapped, faults>>

\* write_version: INSERT the first time, an unconditional UPDATE afterwards.
WriteVersion(r) ==
    /\ runner[r].current_version = 0 => version = 0
    /\ version' = Pending(r)

\* The runner goes on with the next file.
Applied(r) ==
    runner' = [runner EXCEPT ![r].pc = "next", ![r].current_version = Pending(r)]

\* A catalog file and its bump in one transaction; it rolls back, and the launch
\* fails, when the DDL cannot be applied to what is there.
ApplyCatalog(r) ==
    LET m == Migration[Pending(r)] IN
    /\ runner[r].pc = "ddl"
    /\ ~m.online
    /\ m.locks => build = NoBuild
    /\ IF m.conflicts \cap catalog # {}
       THEN /\ runner' = [runner EXCEPT ![r] = Idle]
            /\ UNCHANGED <<version, catalog, index>>
       ELSE /\ catalog' = catalog \cup {Pending(r)}
            /\ index' = [i \in Indexes |->
                  IF i \in m.drops THEN Absent
                  ELSE IF i \in m.creates /\ index[i] = Absent THEN Pending(r) ELSE index[i]]
            /\ WriteVersion(r)
            /\ Applied(r)
    /\ UNCHANGED <<relations, build, overlapped, faults>>

\* An online DROP INDEX CONCURRENTLY IF EXISTS.
DropOnline(r) ==
    /\ runner[r].pc = "ddl"
    /\ Migration[Pending(r)].online
    /\ build = NoBuild
    /\ \E i \in Migration[Pending(r)].drops : index' = [index EXCEPT ![i] = Absent]
    /\ runner' = [runner EXCEPT ![r].pc = "bump"]
    /\ UNCHANGED <<relations, version, catalog, build, overlapped, faults>>

\* An online CREATE INDEX CONCURRENTLY IF NOT EXISTS. Any index of that name,
\* an invalid one too, makes it a no-op; otherwise the index is registered
\* invalid and built.
CreateOnline(r) ==
    /\ runner[r].pc = "ddl"
    /\ Migration[Pending(r)].online
    /\ build = NoBuild
    /\ \E i \in Migration[Pending(r)].creates :
          IF index[i] = Absent
          THEN /\ index' = [index EXCEPT ![i] = Invalid]
               /\ build' = [of |-> i, by |-> Pending(r), client |-> r]
               /\ runner' = [runner EXCEPT ![r].pc = "building"]
          ELSE /\ runner' = [runner EXCEPT ![r].pc = "bump"]
               /\ UNCHANGED <<index, build>>
    /\ UNCHANGED <<relations, version, catalog, overlapped, faults>>

BuildDone(r) ==
    /\ runner[r].pc = "building"
    /\ index' = [index EXCEPT ![build.of] = build.by]
    /\ build' = NoBuild
    /\ runner' = [runner EXCEPT ![r].pc = "bump"]
    /\ UNCHANGED <<relations, version, catalog, overlapped, faults>>

\* The separate bump of an online migration.
BumpOnline(r) ==
    /\ runner[r].pc = "bump"
    /\ WriteVersion(r)
    /\ Applied(r)
    /\ UNCHANGED <<relations, catalog, index, build, overlapped, faults>>

Step(r) ==
    \/ CheckRelations(r) \/ CreateRelations(r) \/ NextMigration(r)
    \/ ListInvalidIndexes(r) \/ DropInvalidIndex(r) \/ ApplyCatalog(r)
    \/ DropOnline(r) \/ CreateOnline(r) \/ BuildDone(r) \/ BumpOnline(r)

----------------------------------------------------------------------------
(* Faults                                                                  *)

\* The process dies. A build it waits for goes on in the server; any other
\* statement has either taken effect (its own action) or not.
Crash(r) ==
    /\ Active(r) /\ faults < MaxFaults
    /\ runner' = [runner EXCEPT ![r] = Idle]
    /\ build' = IF build.client = r THEN [build EXCEPT !.client = "orphan"] ELSE build
    /\ faults' = faults + 1
    /\ UNCHANGED <<relations, version, catalog, index, overlapped>>

\* A statement fails, run_migrations returns the error and launch() with it. A
\* failed CONCURRENTLY statement leaves its index behind, invalid.
StatementFails(r) ==
    /\ Active(r) /\ faults < MaxFaults
    /\ runner' = [runner EXCEPT ![r] = Idle]
    /\ faults' = faults + 1
    /\ build' = IF build.client = r THEN NoBuild ELSE build
    /\ \/ UNCHANGED index
       \/ \E i \in Indexes :
             /\ index[i] # Absent
             /\ \/ runner[r].pc = "drop" /\ i \in runner[r].names
                \/ runner[r].pc = "ddl" /\ Migration[Pending(r)].online
                     /\ i \in Migration[Pending(r)].drops
             /\ build = NoBuild
             /\ index' = [index EXCEPT ![i] = Invalid]
    /\ UNCHANGED <<relations, version, catalog, overlapped>>

\* The server ends the build of a dead client, one way or the other.
OrphanEnds ==
    /\ build.client = "orphan"
    /\ \E v \in {Invalid, build.by} : index' = [index EXCEPT ![build.of] = v]
    /\ build' = NoBuild
    /\ UNCHANGED <<relations, version, catalog, runner, overlapped, faults>>

MigrationNext ==
    \/ \E r \in Runners : LaunchMigrates(r) \/ Step(r) \/ Crash(r) \/ StatementFails(r)
    \/ OrphanEnds

\* A launch that fails is tried again (a process manager restarts the
\* application); a run makes progress while its process lives; the server ends
\* every build.
MigrationFairness ==
    /\ \A r \in Runners : WF_migration_vars(Step(r)) /\ WF_migration_vars(LaunchMigrates(r))
    /\ WF_migration_vars(OrphanEnds)

MigrationSpec == MigrationInit /\ [][MigrationNext]_migration_vars /\ MigrationFairness

----------------------------------------------------------------------------
(* Properties                                                              *)

\* While launches do not overlap, the version row never promises DDL that is
\* missing: whatever crashes and failures came before, everything up to the
\* recorded version is in the schema, and valid. Only the index of the file that
\* comes next may be ahead of the version, or left invalid (run_migrations,
\* cleanup_invalid_indexes).
VersionIsBacked ==
    ~overlapped =>
        LET done == IF version > LatestVersion THEN LatestVersion ELSE version IN
        /\ catalog = CatalogAt(done)
        /\ \A i \in Indexes :
              \/ index[i] = IndexAt(done, i)
              \/ /\ done < LatestVersion /\ Migration[done + 1].online /\ Touches(done + 1, i)
                 /\ index[i] \in {IndexAt(done + 1, i), Invalid, Absent}

\* Two launches that overlap without a crash or a failed statement cancel each
\* other's work out: both end with the complete schema, although one of them may
\* have dropped an index the other was building or take the version back.
OverlapHeals ==
    (faults = 0 /\ (\A r \in Runners : ~Active(r)) /\ version >= LatestVersion)
        => /\ CatalogAt(LatestVersion) \subseteq catalog
           /\ \A i \in Indexes : index[i] = IndexAt(LatestVersion, i)

\* should_migrate of the current state.
should_migrate == relations # {"schema", "table"} \/ version < LatestVersion

\* Relaunching gets the database to the current version through any faults, as
\* long as launches do not overlap.
SoleLaunchesComplete == <>[]~should_migrate \/ <>overlapped

\* The version row is the highest applied migration (violated when launches
\* overlap: a runner that is behind takes the row back, and if the next file
\* cannot be repeated every later launch fails).
RecordsHighestApplied == \A v \in catalog : v <= version
=============================================================================
