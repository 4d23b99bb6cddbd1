---------------------------- MODULE Persistence -----------------------------
(***************************************************************************)
(* The database of a process over its life: lifespan migrates it before it *)
(* does anything else, then runs write to it, and a process that dies      *)
(* takes what it has not committed and starts over.                        *)
(***************************************************************************)
EXTENDS ArticleStore

vars == <<storeVars, migrationVars>>

TypeOK == StoreTypeOK /\ MigrationTypeOK

Init == MigrationInit /\ StoreInit

\* A statement of the migration, and a step of the server that is up.
Migrate(Action) == Action /\ UNCHANGED storeVars
Serve(Step) == process = "up" /\ Step /\ UNCHANGED migrationVars

Crash == ProcessDies /\ Lost

(* All the runs the model allows are over.                                 *)
Quiet ==
  /\ at = "idle" /\ runs = MaxRuns /\ process = "up"
  /\ UNCHANGED vars

Next ==
  \/ Migrate(Start)
  \/ Migrate(Creates) \/ Migrate(Versions)
  \/ Migrate(Gathers) \/ Migrate(Merges) \/ Migrate(Forgets)
  \/ Migrate(Renames) \/ Migrate(Copies) \/ Migrate(Drops)
  \/ Migrate(Raises) \/ Migrate(RecordVersion)
  \/ Serve(Collect) \/ Serve(Dedup) \/ Serve(Graph)
  \/ \E i \in Items : Serve(PersistNoArticle(i)) \/ Serve(SaveArticle(i))
  \/ Serve(LastInsertRowid) \/ Serve(RecordInserted)
  \/ Serve(DeleteTags) \/ (\E t \in Tags : Serve(InsertTag(t))) \/ Serve(RecordEvent)
  \/ Serve(EndRun)
  \/ Serve(StatementRaises) \/ Serve(RecordRaises)
  \/ Serve(OtherInserts) \/ Serve(OtherCommits)
  \/ Crash
  \/ Quiet

Spec == Init /\ [][Next]_vars
=============================================================================
