----------------------------- MODULE Migrations -----------------------------
(***************************************************************************)
(* How a start of the program brings its database up to date               *)
(* (src/core/database.py): the scripts of src/db/migrations above the      *)
(* version in schema_version run in order, statement by statement, every   *)
(* statement committed by itself, so a process that dies leaves a script   *)
(* half done.  Most statements may be repeated; some raise, or count       *)
(* twice, when they are.  One process starts at a time; those that open    *)
(* the database beside a running server find its version and do nothing.   *)
(*                                                                         *)
(* Tables, columns and indexes are objects of the schema.  Of their rows   *)
(* only those that a script moves are kept: the counts of source_health    *)
(* under legacy names, and the reports of deep_reports.                    *)
(***************************************************************************)
EXTENDS Naturals, Sequences, FiniteSetsExt

CONSTANTS
  Released,      \* versions at which earlier releases have left a database, 0 if none
  MaxCrashes

-----------------------------------------------------------------------------
Ensure(object) == [does |-> "ensure", object |-> object]   \* ... IF NOT EXISTS
Add(object) == [does |-> "add", object |-> object]         \* raises if it exists
Insert(object) == [does |-> "insert", object |-> object]   \* a row of the settings
Do(what) == [does |-> what, object |-> "none"]             \* moves rows
SetVersion == Do("version")                                \* INSERT OR REPLACE

V1 == "deep_reports_v1"

\* Mutant of DeepReportV2: the old table is dropped before its rows are copied.
DeepReportV2Dropped ==
  << Do("rename"), Add("deep_reports"), Do("drop"), Do("copy"),
     Add("deep_report_settings"), Insert("public_version"),
     Add("idx_deep_reports"), SetVersion >>

\* 011_deep_report_v2.sql
DeepReportV2 ==
  << Do("rename"), Add("deep_reports"), Do("copy"), Do("drop"),
     Add("deep_report_settings"), Insert("public_version"),
     Add("idx_deep_reports"), SetVersion >>

\* The other scripts, a statement for each that matters.
InitTables ==
  << Ensure("articles"), Ensure("tags"), Ensure("pipeline_runs"), Ensure("cost_logs"),
     Ensure("circuit_events") >>
PhaseLogs == << Ensure("pipeline_phase_logs"), SetVersion >>
CostLogsRefUrl == << Add("ref_url"), Ensure("idx_cost_logs_ref_url"), SetVersion >>
SourceHealth ==
  << Ensure("source_health"), Add("idx_source_health"), Ensure("discovered_sources"),
     SetVersion >>
GithubRepoSnapshots == << Ensure("github_repo_snapshots"), SetVersion >>
CostLogsSourceFields ==
  << Add("source"), Add("source_detail"), Add("source_id"), Ensure("idx_cost_logs_source"),
     SetVersion >>
NormalizeSourceHealthIds == << Do("gather"), Do("merge"), Do("forget"), SetVersion >>
ObservabilityTables ==
  << Ensure("collection_items"), Ensure("pipeline_source_runs"), Add("status"), Add("error"),
     Add("latency_ms"), Add("attempt_no"), Add("prompt_name"), Add("prompt_version"),
     Ensure("idx_cost_logs_status"), SetVersion >>
PipelineEvents == << Ensure("pipeline_events"), SetVersion >>
DeepReportTables == << Ensure("deep_reports"), Ensure("idx_deep_reports"), SetVersion >>
GovernanceTables ==
  << Ensure("source_registry"), Ensure("source_health_daily"),
     Ensure("source_governance_events") >>
DashboardIndexes == << Ensure("dashboard_indexes"), SetVersion >>
SourceHealthDailyFailed == << Add("failed") >>

\* The scripts by their number.
Scripts ==
  << InitTables, PhaseLogs, CostLogsRefUrl, SourceHealth, GithubRepoSnapshots,
     CostLogsSourceFields, NormalizeSourceHealthIds, ObservabilityTables, PipelineEvents,
     DeepReportTables, DeepReportV2, GovernanceTables, DashboardIndexes,
     SourceHealthDailyFailed >>

Objects(scripts) ==
  {o \in UNION {{script[k].object : k \in DOMAIN script} : script \in scripts} : o # "none"}

\* The schema the scripts up to version n make when nothing interrupts them.
SchemaAt(n) == Objects({Scripts[k] : k \in 1..n})

Last == Len(Scripts)
FullSchema == SchemaAt(Last)

ASSUME ReleaseAssumption == Released \subseteq 0..Last /\ MaxCrashes \in Nat

-----------------------------------------------------------------------------
VARIABLES
  process,   \* "down", "migrating", "up", or "raised": initialize raised, the process ended
  script,    \* the script it executes ...
  done,      \* ... and how many of its statements
  gathered,  \* the temporary table of 007, which its connection takes with it
  version,   \* the highest version in schema_version
  schema,
  legacy,    \* the counts under legacy names are there
  counted,   \* how often they are in the counts of the real source
  reports,   \* deep_reports holds the reports of version 1
  oldReports,\* deep_reports_v1 holds them
  released,  \* history: the version before the first start
  crashes

database == <<version, schema, legacy, counted, reports, oldReports>>
migrationVars == <<process, script, done, gathered, database, released, crashes>>

MigrationTypeOK ==
  /\ process \in {"down", "migrating", "up", "raised"}
  /\ script \in 0..Last /\ done \in 0..10
  /\ {gathered, legacy, reports, oldReports} \subseteq BOOLEAN
  /\ version \in 0..Last
  /\ schema \subseteq FullSchema \union {V1}
  /\ counted \in 0..(MaxCrashes + 1)
  /\ released \in Released
  /\ crashes \in 0..MaxCrashes

MigrationInit ==
  /\ process = "down" /\ script = 0 /\ done = 0 /\ gathered = FALSE
  /\ released \in Released
  /\ version = released /\ schema = SchemaAt(released)
  /\ legacy = (released \in 4..6) /\ counted = 0
  /\ reports = (released = 10) /\ oldReports = FALSE
  /\ crashes = 0

\* Mutant of GoOn: the version read first is compared to every number.
GoOnFrom(n) ==
  IF n + 1 < Last THEN process' = "migrating" /\ script' = n + 2 /\ done' = 0
  ELSE process' = "up" /\ script' = 0 /\ done' = 0

\* Mutant of GoOn: the loop runs one script too far.
GoOnPast(n) ==
  IF n <= Last THEN process' = "migrating" /\ script' = n + 1 /\ done' = 0
  ELSE process' = "up" /\ script' = 0 /\ done' = 0

\* The loop of _run_migrations, which has come to the scripts above n.
GoOn(n) ==
  IF n < Last THEN process' = "migrating" /\ script' = n + 1 /\ done' = 0
  ELSE process' = "up" /\ script' = 0 /\ done' = 0

\* initialize, by a first or a later process.
Start ==
  /\ process \in {"down", "raised"}
  /\ GoOn(version)
  /\ UNCHANGED <<gathered, database, released, crashes>>

-----------------------------------------------------------------------------
Statement == Scripts[script][done + 1]

Executing(what) ==
  /\ process = "migrating" /\ done < Len(Scripts[script])
  /\ Statement.does = what

Applied == done' = done + 1 /\ UNCHANGED <<process, script, released, crashes>>

Creates ==
  /\ \/ Executing("ensure")
     \/ Executing("add") /\ Statement.object \notin schema
     \/ Executing("insert") /\ Statement.object \notin schema
  /\ schema' = schema \union {Statement.object}
  /\ Applied /\ UNCHANGED <<gathered, version, legacy, counted, reports, oldReports>>

Versions ==
  /\ Executing("version")
  /\ version' = Max({version, script})
  /\ Applied /\ UNCHANGED <<gathered, schema, legacy, counted, reports, oldReports>>

(* 007: the legacy counts are summed up in a temporary table, added to     *)
(* those of the real source, and deleted.                                  *)
Gathers ==
  /\ Executing("gather")
  /\ gathered' = legacy
  /\ Applied /\ UNCHANGED database

Merges ==
  /\ Executing("merge")
  /\ counted' = IF gathered THEN counted + 1 ELSE counted
  /\ Applied /\ UNCHANGED <<gathered, version, schema, legacy, reports, oldReports>>

Forgets ==
  /\ Executing("forget")
  /\ legacy' = FALSE
  /\ Applied /\ UNCHANGED <<gathered, version, schema, counted, reports, oldReports>>

(* 011: deep_reports is renamed, created anew, filled and its old self     *)
(* dropped, with the indexes that belong to it.                            *)
Renames ==
  /\ Executing("rename") /\ "deep_reports" \in schema /\ V1 \notin schema
  /\ schema' = (schema \ {"deep_reports"}) \union {V1}
  /\ oldReports' = reports /\ reports' = FALSE
  /\ Applied /\ UNCHANGED <<gathered, version, legacy, counted>>

Copies ==
  /\ Executing("copy") /\ V1 \in schema
  /\ reports' = oldReports
  /\ Applied /\ UNCHANGED <<gathered, version, schema, legacy, counted, oldReports>>

Drops ==
  /\ Executing("drop") /\ V1 \in schema
  /\ schema' = schema \ {V1, "idx_deep_reports"}
  /\ oldReports' = FALSE
  /\ Applied /\ UNCHANGED <<gathered, version, legacy, counted, reports>>

(* A statement that finds what it adds, or misses what it moves, raises,   *)
(* and with it lifespan: the process ends.                                 *)
Raises ==
  /\ \/ (Executing("add") \/ Executing("insert")) /\ Statement.object \in schema
     \/ Executing("rename") /\ ~ ("deep_reports" \in schema /\ V1 \notin schema)
     \/ (Executing("copy") \/ Executing("drop")) /\ V1 \notin schema
  /\ process' = "raised" /\ script' = 0 /\ done' = 0 /\ gathered' = FALSE
  /\ UNCHANGED <<database, released, crashes>>

(* The rows of schema_version are replaced in one transaction, and the     *)
(* loop goes on from the version read back.                                *)
RecordVersion ==
  /\ process = "migrating" /\ done = Len(Scripts[script])
  /\ version' = script
  /\ GoOn(script)
  /\ UNCHANGED <<gathered, schema, legacy, counted, reports, oldReports, released, crashes>>

MigrationStep ==
  \/ Start
  \/ Creates \/ Versions
  \/ Gathers \/ Merges \/ Forgets
  \/ Renames \/ Copies \/ Drops
  \/ Raises \/ RecordVersion

ProcessDies ==
  /\ process \in {"migrating", "up"} /\ crashes < MaxCrashes
  /\ crashes' = crashes + 1
  /\ process' = "down" /\ script' = 0 /\ done' = 0 /\ gathered' = FALSE
  /\ UNCHANGED <<database, released>>

MigrationSpec == MigrationInit /\ [][MigrationStep \/ ProcessDies]_migrationVars

-----------------------------------------------------------------------------
(* A process serves only a complete schema with the data of the old one,   *)
(* wherever the processes before it have died; and a start can only raise  *)
(* after one that was interrupted: no script fails on what the scripts     *)
(* before it leave.  (After an interrupted one every start may raise, for  *)
(* ever: the comment of 003 calls its ALTER TABLE idempotent.)             *)
StartsAreSafe ==
  /\ process = "up" =>
       /\ schema = FullSchema /\ version = Last
       /\ ~ legacy
       /\ released = 10 => reports
  /\ process = "raised" => crashes > 0

(* No migration loses rows: reports are in the old table or the new, and   *)
(* counts under legacy names are kept until they are added to the real     *)
(* ones.  A crash can have them added twice.                               *)
NothingMigratedIsLost ==
  /\ released = 10 => reports \/ oldReports
  /\ released \in 4..6 => legacy \/ counted >= 1
  /\ counted <= crashes + 1
=============================================================================
