----------------------------- MODULE DeepReports -----------------------------
(* The deep reports of repositories (src/deep_reports, src/db/deep_report_  *)
(* ops.py): the stage at the end of a pipeline run writes at most one       *)
(* report of version 2, and the command line tool that rebuilds the reports *)
(* of version 1 writes to the same table from processes of its own, until a *)
(* complete batch makes version 2 the public one.                           *)
(*                                                                          *)
(* A row keeps what a decision of the code reads: its key, its status, its  *)
(* writer (run_id) and, when it is completed, its time.  The order of ids   *)
(* and the scores that rank candidates are left open: any order, any one.   *)
EXTENDS Naturals, FiniteSets

CONSTANTS
  Repos,
  Commits,                   \* HEADs a repository may have
  None,                      \* no repository, and commit_sha "" without a clone
  Legacy,                    \* <<repo, commit>> of the completed version 1 rows
  Run,                       \* the server, whose runs hold a lock
  Rebuilders,                \* processes of the rebuild tool
  MAX_DEEP_REPORTS_PER_WEEK,
  WeekLength,                \* ticks of the clock in seven days
  MaxTime,                   \* bounds: the clock, stages of runs, rebuilds,
  MaxStages,                 \*   statements that raise and processes that die
  MaxRebuilds,
  MaxFaults

ASSUME LegacyAssumption == Legacy \subseteq Repos \X Commits
ASSUME ActorsAssumption == Run \notin Rebuilders
ASSUME NoneAssumption == None \notin Repos \union Commits
ASSUME QuotaAssumption ==
  MAX_DEEP_REPORTS_PER_WEEK \in Nat /\ WeekLength \in Nat \ {0}

VARIABLES
  reports,        \* table deep_reports
  publicVersion,  \* deep_report_settings.public_version
  attempt,        \* the report an actor works on, and how far it is
  batch,          \* a rebuild's rows still to do, and whether it asked for all
  now,
  meanwhile,      \* history: the reports that rebuilds completed since the
                  \*   run's stage read the quota
  stages, rebuilds, faults

bounds == <<stages, rebuilds, faults>>
vars == <<reports, publicVersion, attempt, batch, now, meanwhile, bounds>>

Actors == {Run} \union Rebuilders

Row(r, c, v, status, by, at) ==
  [repo |-> r, commit |-> c, version |-> v, status |-> status, by |-> by, at |-> at]

LegacyRows == {Row(l[1], l[2], 1, "completed", "run", 0) : l \in Legacy}
LegacyRepos == {l[1] : l \in Legacy}

Working == {"clone", "analyze", "cleanup", "none", "fail"}

-----------------------------------------------------------------------------
(* What the readers of the table see.                                      *)

Completed(x) == x.status = "completed"

Public == {x \in reports : Completed(x) /\ x.version = publicVersion}

WeekStart == now - (now % WeekLength)

\* Mutant of QuotaUsed: the count asks for the public version.
QuotaUsedPublic == Cardinality({x \in Public : x.at >= WeekStart})

QuotaUsed == Cardinality({x \in reports : Completed(x) /\ x.at >= WeekStart})

Recent(r) == \E x \in reports : x.repo = r /\ Completed(x) /\ x.at + WeekLength >= now

(* Rows a rebuild plans: one of a repository that is named, of its highest *)
(* version, or the first ones or all of version 1.                         *)
OfRepo(r) ==
  LET failed == {x \in reports : x.repo = r /\ x.version = 2 /\ ~ Completed(x)}
      old    == {x \in reports : x.repo = r /\ x.version = 1 /\ Completed(x)}
  IN  IF failed # {} THEN failed ELSE old

Old == {x \in reports : x.version = 1 /\ Completed(x)}

-----------------------------------------------------------------------------
Idle == [pc |-> "idle", repo |-> None, commit |-> None]
NoBatch == [rows |-> {}, all |-> FALSE]

Init ==
  /\ reports = LegacyRows
  /\ publicVersion = 1
  /\ attempt = [a \in Actors |-> Idle]
  /\ batch = [p \in Rebuilders |-> NoBatch]
  /\ now = WeekLength + 1 /\ meanwhile = {}
  /\ stages = 0 /\ rebuilds = 0 /\ faults = 0

Goto(a, pc) == attempt' = [attempt EXCEPT ![a].pc = pc]

(* An attempt is over: the run's stage returns, a rebuild checks its cost. *)
Over(a) == IF a = Run THEN attempt' = [attempt EXCEPT ![a] = Idle] ELSE Goto(a, "check")

Fault == faults < MaxFaults /\ faults' = faults + 1

-----------------------------------------------------------------------------
Writer(a) == IF a = Run THEN "run" ELSE "rebuild"

(* save_deep_report: an upsert on repository, commit and version, which a  *)
(* failed attempt may not do to a completed row.                           *)

\* Mutant of Save: ON CONFLICT without its WHERE.
SaveAlways(a, status) ==
  LET at == attempt[a]
      same == {x \in reports : x.repo = at.repo /\ x.commit = at.commit /\ x.version = 2}
      time == IF status = "completed" THEN now ELSE 0
  IN  reports' = (reports \ same) \union {Row(at.repo, at.commit, 2, status, Writer(a), time)}

Save(a, status) ==
  LET at == attempt[a]
      same == {x \in reports : x.repo = at.repo /\ x.commit = at.commit /\ x.version = 2}
      time == IF status = "completed" THEN now ELSE 0
  IN  IF status = "failed" /\ \E x \in same : Completed(x)
        THEN UNCHANGED reports
        ELSE reports' = (reports \ same)
                          \union {Row(at.repo, at.commit, 2, status, Writer(a), time)}

DeleteFailed(a) ==
  reports' = {x \in reports : \/ x.repo # attempt[a].repo
                              \/ x.version # 2
                              \/ Completed(x)}

Switch ==
  /\ publicVersion' = 2
  /\ reports' = {x \in reports : x.version # 1}

-----------------------------------------------------------------------------
(* The stage of a run: the quota, the candidate, ...                       *)

StageStarts ==
  /\ attempt[Run].pc = "idle" /\ stages < MaxStages
  /\ stages' = stages + 1
  /\ IF QuotaUsed >= MAX_DEEP_REPORTS_PER_WEEK
       THEN UNCHANGED attempt
       ELSE Goto(Run, "pick")
  /\ UNCHANGED <<reports, publicVersion, batch, now, rebuilds, faults>>

(* ... an approved repository that scores high enough, without a completed *)
(* report of the last seven days, or none.                                 *)
Pick(r) ==
  /\ attempt[Run].pc = "pick" /\ ~ Recent(r)
  /\ attempt' = [attempt EXCEPT ![Run] = [pc |-> "clone", repo |-> r, commit |-> None]]
  /\ UNCHANGED <<reports, publicVersion, batch, now, bounds>>

PickNone ==
  /\ attempt[Run].pc = "pick"
  /\ attempt' = [attempt EXCEPT ![Run] = Idle]
  /\ UNCHANGED <<reports, publicVersion, batch, now, bounds>>

-----------------------------------------------------------------------------
(* An attempt, of a run or of a rebuild.                                   *)

\* Mutant of CloneDone: the commit of the package is not taken over.
CloneDoneAsListed(a) ==
  /\ attempt[a].pc = "clone"
  /\ Goto(a, "analyze")
  /\ UNCHANGED <<reports, publicVersion, batch, now, bounds>>

(* The commit is the HEAD of that moment, whichever it is.                 *)
CloneDone(a) ==
  /\ attempt[a].pc = "clone"
  /\ \E c \in Commits :
       attempt' = [attempt EXCEPT ![a].pc = "analyze", ![a].commit = c]
  /\ UNCHANGED <<reports, publicVersion, batch, now, bounds>>

(* The clone, the analyzer, the saving of its costs or of the report       *)
(* raises.                                                                 *)
AttemptFails(a) ==
  /\ attempt[a].pc \in {"clone", "analyze"}
  /\ Goto(a, "fail")
  /\ UNCHANGED <<reports, publicVersion, batch, now, bounds>>

(* The analyzer gives the report up.  Only a rebuild tries again to save   *)
(* the failed row when that raises, being inside its try.                  *)
AnalyzeFails(a) ==
  /\ attempt[a].pc = "analyze"
  /\ Goto(a, IF a = Run THEN "fail" ELSE "none")
  /\ UNCHANGED <<reports, publicVersion, batch, now, bounds>>

(* The analyzer has a report.  A run is done when it is saved, ...         *)
SaveCompleted(a) ==
  /\ attempt[a].pc = "analyze"
  /\ Save(a, "completed")
  /\ IF a = Run THEN Over(a) ELSE Goto(a, "cleanup")
  /\ UNCHANGED <<publicVersion, batch, now, bounds>>

(* ... a rebuild then deletes the failed rows of the repository.           *)
Cleanup(a) ==
  /\ attempt[a].pc = "cleanup"
  /\ DeleteFailed(a)
  /\ Over(a)
  /\ UNCHANGED <<publicVersion, batch, now, bounds>>

SaveRaises(a) ==
  /\ attempt[a].pc \in {"cleanup", "none"} /\ Fault
  /\ Goto(a, "fail")
  /\ UNCHANGED <<reports, publicVersion, batch, now, stages, rebuilds>>

SaveFailed(a) ==
  /\ attempt[a].pc \in {"none", "fail"}
  /\ Save(a, "failed")
  /\ Over(a)
  /\ UNCHANGED <<publicVersion, batch, now, bounds>>

(* Nothing is saved: the stage swallows the error, it ends a rebuild.      *)
SaveFailedRaises(a) ==
  /\ attempt[a].pc = "fail" /\ Fault
  /\ attempt' = [attempt EXCEPT ![a] = Idle]
  /\ batch' = [p \in Rebuilders |-> IF p = a THEN NoBatch ELSE batch[p]]
  /\ UNCHANGED <<reports, publicVersion, now, stages, rebuilds>>

-----------------------------------------------------------------------------
(* A rebuild lists its rows once ...                                       *)

RebuildStarts(p) ==
  /\ attempt[p].pc = "idle" /\ rebuilds < MaxRebuilds
  /\ rebuilds' = rebuilds + 1
  /\ \/ \E rows \in SUBSET Old, all \in BOOLEAN :
          /\ all => rows = Old
          /\ batch' = [batch EXCEPT ![p] = [rows |-> rows, all |-> all]]
     \/ \E r \in Repos : \E x \in OfRepo(r) :
          batch' = [batch EXCEPT ![p] = [rows |-> {x}, all |-> FALSE]]
  /\ Goto(p, "next")
  /\ UNCHANGED <<reports, publicVersion, now, stages, faults>>

TakeRow(p) ==
  /\ attempt[p].pc \in {"next", "check"}
  /\ \E x \in batch[p].rows :
       /\ batch' = [batch EXCEPT ![p].rows = @ \ {x}]
       /\ attempt' = [attempt EXCEPT
            ![p] = [pc |-> "clone", repo |-> x.repo, commit |-> x.commit]]
  /\ UNCHANGED <<reports, publicVersion, now, bounds>>

\* Mutant of CostLimitReached: the loop stops and the switch goes ahead.
CostLimitForgotten(p) ==
  /\ attempt[p].pc = "check"
  /\ batch' = [batch EXCEPT ![p].rows = {}]
  /\ Goto(p, "next")
  /\ UNCHANGED <<reports, publicVersion, now, bounds>>

CostLimitReached(p) ==
  /\ attempt[p].pc = "check"
  /\ batch' = [batch EXCEPT ![p] = NoBatch]
  /\ attempt' = [attempt EXCEPT ![p] = Idle]
  /\ UNCHANGED <<reports, publicVersion, now, bounds>>

(* ... and when it did all of them, failed or not, switches the version.   *)
RebuildEnds(p) ==
  /\ attempt[p].pc \in {"next", "check"} /\ batch[p].rows = {}
  /\ IF batch[p].all THEN Switch ELSE UNCHANGED <<reports, publicVersion>>
  /\ batch' = [batch EXCEPT ![p] = NoBatch]
  /\ attempt' = [attempt EXCEPT ![p] = Idle]
  /\ UNCHANGED <<now, bounds>>

(* The transaction of the switch is rolled back.                           *)
SwitchRaises(p) ==
  /\ attempt[p].pc \in {"next", "check"} /\ batch[p].rows = {} /\ batch[p].all /\ Fault
  /\ batch' = [batch EXCEPT ![p] = NoBatch]
  /\ attempt' = [attempt EXCEPT ![p] = Idle]
  /\ UNCHANGED <<reports, publicVersion, now, stages, rebuilds>>

-----------------------------------------------------------------------------
Tick ==
  /\ now < MaxTime /\ now' = now + 1
  /\ UNCHANGED <<reports, publicVersion, attempt, batch, bounds>>

Crash(a) ==
  /\ attempt[a].pc # "idle" /\ Fault
  /\ attempt' = [attempt EXCEPT ![a] = Idle]
  /\ batch' = [p \in Rebuilders |-> IF p = a THEN NoBatch ELSE batch[p]]
  /\ UNCHANGED <<reports, publicVersion, now, stages, rebuilds>>

Attempt(a) ==
  \/ CloneDone(a) \/ AttemptFails(a) \/ AnalyzeFails(a)
  \/ SaveCompleted(a) \/ Cleanup(a) \/ SaveRaises(a) \/ SaveFailed(a) \/ SaveFailedRaises(a)
  \/ Crash(a)

Rebuild(p) ==
  \/ RebuildStarts(p) \/ TakeRow(p) \/ CostLimitReached(p)
  \/ RebuildEnds(p) \/ SwitchRaises(p)

Operation ==
  \/ StageStarts \/ PickNone \/ Tick
  \/ \E r \in Repos : Pick(r)
  \/ \E a \in Actors : Attempt(a)
  \/ \E p \in Rebuilders : Rebuild(p)

(* A stage that goes on has read the quota and has still to save.          *)
Generating == attempt[Run].pc \in {"pick", "clone", "analyze"}

Meanwhile ==
  meanwhile' = IF Generating'
                 THEN meanwhile \union
                        {x \in reports' \ reports : x.by = "rebuild" /\ Completed(x)}
                 ELSE {}

Next == Operation /\ Meanwhile

Spec == Init /\ [][Next]_vars

-----------------------------------------------------------------------------
RowType == [repo : Repos, commit : Commits \union {None}, version : {1, 2},
            status : {"completed", "failed"}, by : {"run", "rebuild"}, at : Nat]
AttemptType == [pc : Working \union {"idle", "pick", "next", "check"},
                repo : Repos \union {None}, commit : Commits \union {None}]

(* What the tables hold and how far the actors are.                       *)
Tables ==
  /\ reports \subseteq RowType
  /\ \A x, y \in reports :
       x.repo = y.repo /\ x.commit = y.commit /\ x.version = y.version => x = y
  /\ \A x \in reports : Completed(x) => x.commit # None
  /\ publicVersion \in {1, 2}
  /\ attempt \in [Actors -> AttemptType]
  /\ \A a \in Actors :
       /\ attempt[a].pc \in {"analyze", "cleanup", "none"} => attempt[a].commit # None
       /\ attempt[a].pc \in Working => attempt[a].repo # None
  /\ batch \in [Rebuilders -> [rows : SUBSET RowType, all : BOOLEAN]]
  /\ now \in Nat

(* Keys are unique, an attempt that has a package has its commit, and only *)
(* a failed row lacks one (save_deep_report, _save_failed_report).         *)
TypeOK == Tables /\ meanwhile \subseteq RowType

(* The switch is all or nothing and forgets no repository: while version 1 *)
(* is public every old report is there to be read, and once version 2 is,  *)
(* none is left and each of their repositories has a report of version 2   *)
(* or a failed row from which the tool can retry it (the should_switch of  *)
(* rebuild_deep_reports), whatever failed, stopped or died on the way and  *)
(* whatever the runs and other rebuilds wrote meanwhile.                   *)
VersionIsComplete ==
  \/ publicVersion = 1 /\ LegacyRows \subseteq Public
  \/ /\ publicVersion = 2 /\ Old = {}
     /\ \A r \in LegacyRepos : \E x \in reports : x.repo = r /\ x.version = 2

(* The report a run completes is within the quota of its week, counting    *)
(* the reports of every writer, and more than seven days after any other   *)
(* of its repository (DeepCandidateSelector), although both were checked   *)
(* before a clone and an analysis that take their time.  Only the reports  *)
(* a rebuild completed since then are not counted.  The rebuild tool       *)
(* itself asks for neither, so that the maximum of completed reports per   *)
(* week of data-model.md:263 is one of what the runs had read, not of the  *)
(* table.                                                                  *)
PacedReports ==
  [][\A x \in reports' \ reports : x.by = "run" /\ Completed(x) =>
       LET others == {y \in reports' : Completed(y) /\ y \notin meanwhile} \ {x}
       IN  /\ Cardinality({y \in others : y.at >= WeekStart}) < MAX_DEEP_REPORTS_PER_WEEK
           /\ \A y \in others : y.repo = x.repo => y.at + WeekLength < x.at]_vars

(* No step of a run or of a rebuild takes a completed report of version 2  *)
(* away or turns it into a failed one: neither a failed attempt at the     *)
(* same commit nor the deletion of failed rows (save_deep_report,          *)
(* delete_failed_deep_reports_for_repo).                                   *)
CompletedIsKept ==
  [][\A x \in reports : x.version = 2 /\ Completed(x) =>
       \E y \in reports' : /\ y.repo = x.repo /\ y.commit = x.commit
                           /\ y.version = 2 /\ Completed(y)]_vars
=============================================================================
