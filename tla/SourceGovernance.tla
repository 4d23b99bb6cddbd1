-------------------------- MODULE SourceGovernance --------------------------
(***************************************************************************)
(* The life of a data source: the registry that runs read                  *)
(* (src/core/source_registry.py), the daily health from which it is        *)
(* degraded, quarantined or restored (src/core/source_governance.py), the  *)
(* maintenance job that finds sources and tries them                       *)
(* (src/scheduler/source_scheduler.py), and the API that edits             *)
(* sources.yaml.                                                           *)
(*                                                                         *)
(* The pipeline and the maintenance job use database connections of their  *)
(* own, so every await of one lets the other in.  Two columns are left     *)
(* out: enabled, which every writer sets from the status, and              *)
(* manual_override, which nothing in the program sets.                     *)
(***************************************************************************)
EXTENDS Integers, FiniteSets, FiniteSetsExt, Functions

CONSTANTS
  Configured,    \* sources in sources.yaml when the program is deployed
  Found,         \* sources that discovery may find
  Outcomes,      \* what a run may get from a source
  Limit,         \* candidates put on trial at once
  MaxDays, MaxRuns,
  MaxUpsets      \* edits of sources.yaml and restarts together

Sources == Configured \union Found
Days == 1..MaxDays
NoSource == "no source"

(* Approved are the entries of the urls a source was the last to deliver:  *)
(* a url that it or another source has delivered before may have several,  *)
(* so that more can be approved than is new.                               *)
ASSUME GovernanceAssumption ==
  /\ Configured \intersect Found = {} /\ NoSource \notin Sources
  /\ IsFiniteSet(Sources)
  /\ \A o \in Outcomes :
       /\ o.collected \in Nat /\ o.new \in 0..o.collected
       /\ o.lost \in 0..o.new /\ {o.approved, o.failed, o.cost} \subseteq Nat
  /\ {Limit, MaxDays, MaxRuns, MaxUpsets} \subseteq Nat /\ MaxDays > 0

SCHEDULABLE_STATUSES == {"active", "degraded", "trial"}
GOVERNED_STATUSES == {"degraded", "quarantined", "trial", "rejected"}
Statuses == SCHEDULABLE_STATUSES \union GOVERNED_STATUSES
              \union {"none", "candidate", "disabled"}    \* "none": no row

VARIABLES
  yaml,       \* the entry of a source in sources.yaml: "on", "off" or "absent"
  status,     \* source_registry.status
  logged,     \* history: the status the governance events tell
  jobs,       \* the sources in the scheduler's cron groups
  daily,      \* daily[s][d]: the row of source_health_daily, for the days that have one
  day,
  at,         \* what the pipeline does next
  filter,     \* source_filter of its run
  cfg,        \* sources.yaml as the run has read it
  todo,       \* sources still to synchronise or to roll up
  syncing,    \* the source whose row sync_sources_config has read ...
  seen,       \* ... and the status it found
  active,     \* active_sources
  trial,      \* trial_source_ids
  got,        \* what the run got from each source
  maint,      \* what the maintenance job does next
  pending,    \* the sources it has selected
  verdict,    \* its judgement of one of them
  published,  \* history: sources with an article in the database
  runs, upsets

pipeline == <<at, filter, cfg, todo, syncing, seen, active, trial, got>>
maintenance == <<maint, pending, verdict>>
bounds == <<runs, upsets>>
vars == <<yaml, status, logged, jobs, daily, day, pipeline, maintenance,
          published, bounds>>

NoVerdict == [source |-> NoSource, status |-> "none"]
Nothing == [collected |-> 0, new |-> 0, lost |-> 0, approved |-> 0, failed |-> 0, cost |-> 0]
Row == [collected : Nat, new : Nat, approved : Nat, failed : Nat, cost : Nat,
        blocked : BOOLEAN]

TypeOK ==
  /\ yaml \in [Sources -> {"on", "off", "absent"}]
  /\ status \in [Sources -> Statuses] /\ logged \in [Sources -> Statuses]
  /\ jobs \subseteq Sources
  /\ \A s \in Sources : DOMAIN daily[s] \subseteq Days /\ Range(daily[s]) \subseteq Row
  /\ day \in Days
  /\ at \in {"idle", "sync", "list", "status", "collect", "persist", "rollup"}
  /\ filter \subseteq Sources
  /\ cfg \in [Sources -> {"on", "off", "absent"}]
  /\ todo \subseteq Sources /\ syncing \in Sources \union {NoSource} /\ seen \in Statuses
  /\ trial \subseteq active /\ active \subseteq Sources
  /\ got \in [Sources -> Outcomes \union {Nothing}]
  /\ maint \in {"idle", "discover", "promote", "evaluate"}
  /\ pending \subseteq Sources
  /\ verdict.source \in Sources \union {NoSource} /\ verdict.status \in Statuses
  /\ published \subseteq Sources
  /\ runs \in 0..MaxRuns /\ upsets \in 0..MaxUpsets

-----------------------------------------------------------------------------
(* Mutant of Synced: what the configuration switches off stays as it is    *)
(* governed.                                                               *)
SyncedGoverned(entry, found) ==
  IF found \in GOVERNED_STATUSES THEN found
  ELSE IF entry = "on" THEN "active" ELSE "disabled"

\* Mutant of Synced: quarantine is not among the governed statuses.
SyncedAnew(entry, found) ==
  IF entry = "on" /\ found \in GOVERNED_STATUSES \ {"quarantined"} THEN found
  ELSE IF entry = "on" THEN "active" ELSE "disabled"

\* sync_sources_config: the status of a configured source found with status.
Synced(entry, found) ==
  IF entry = "on" /\ found \in GOVERNED_STATUSES THEN found
  ELSE IF entry = "on" THEN "active" ELSE "disabled"

Schedulable(st) == {s \in Sources : st[s] \in SCHEDULABLE_STATUSES}

Init ==
  /\ yaml = [s \in Sources |-> IF s \in Configured THEN "on" ELSE "absent"]
  /\ status = [s \in Sources |-> IF s \in Configured THEN "active" ELSE "none"]
  /\ logged = status
  /\ jobs = Configured
  /\ daily = [s \in Sources |-> <<>>] /\ day = 1
  /\ at = "idle" /\ filter = {} /\ cfg = yaml /\ todo = {}
  /\ syncing = NoSource /\ seen = "none"
  /\ active = {} /\ trial = {} /\ got = [s \in Sources |-> Nothing]
  /\ maint = "idle" /\ pending = {} /\ verdict = NoVerdict
  /\ published = {}
  /\ runs = 0 /\ upsets = 0

-----------------------------------------------------------------------------
(* Health: the scores are in tenths of a point, rounded down, and costs in *)
(* thousandths of a dollar.                                                *)
NoScore == -1

(* calculate_health_score: how much of the requests succeeded, is new, was *)
(* approved (twice, as avg_score is never recorded), and what it cost.     *)
Score(row) ==
  IF row.blocked \/ (row.new = 0 /\ ~ (row.failed > 0 /\ row.collected = 0))
  THEN NoScore
  ELSE (250 * row.collected) \div (row.collected + row.failed)
         + (IF row.collected = 0 THEN 0 ELSE (200 * row.new) \div row.collected)
         + (IF row.new = 0 THEN 0 ELSE (450 * row.approved) \div row.new)
         + (IF row.cost = 0 THEN 0 ELSE Min({(500 * row.approved) \div row.cost, 100}))

\* The outcome of a run that the hard limit of the budget has stopped.
Blocked(o) == o.lost > 0 /\ o.cost = 0

Empty == [collected |-> 0, new |-> 0, approved |-> 0, failed |-> 0, cost |-> 0,
          blocked |-> FALSE]

\* rollup_source_health_daily: the rows of a source with one more run.
RolledUp(rows, o) ==
  LET old == IF day \in DOMAIN rows THEN rows[day] ELSE Empty
      new == [collected |-> old.collected + o.collected, new |-> old.new + o.new,
              approved |-> old.approved + o.approved, failed |-> old.failed + o.failed,
              cost |-> old.cost + o.cost, blocked |-> old.blocked \/ Blocked(o)]
  IN  [d \in DOMAIN rows \union {day} |-> IF d = day THEN new ELSE rows[d]]

\* The last three of these days.
Latest(days) == {d \in days : Cardinality({e \in days : e > d}) < 3}

\* apply_governance: the status of a source with these rows.
Governed(current, rows) ==
  LET days == Latest({d \in DOMAIN rows : Score(rows[d]) # NoScore})
      total == MapThenSumSet(LAMBDA d : Score(rows[d]), days)
      low == \A d \in days : Score(rows[d]) < 300
  IN  IF Cardinality(days) < 3 \/ current = "none" THEN current
      ELSE IF low THEN IF current = "quarantined" THEN "disabled" ELSE "quarantined"
      ELSE IF total < 3 * 500 /\ current = "active" THEN "degraded"
      ELSE IF total >= 3 * 600 /\ current = "degraded" THEN "active"
      ELSE current

\* _change_status, which leaves an event unless the status is that already.
ChangeStatus(s, new) ==
  /\ status' = [status EXCEPT ![s] = new]
  /\ logged' = IF status[s] = new THEN logged ELSE [logged EXCEPT ![s] = new]

-----------------------------------------------------------------------------
(* A cron group is due, or the API triggers a run of all sources.          *)
RunStarts ==
  /\ at = "idle" /\ runs < MaxRuns
  /\ runs' = runs + 1
  /\ filter' \in ((SUBSET jobs) \ {{}}) \union {Sources}
  /\ cfg' = yaml
  /\ todo' = {s \in Sources : yaml[s] # "absent"}
  /\ at' = "sync"
  /\ UNCHANGED <<yaml, status, logged, jobs, daily, day, syncing, seen, active, trial,
                 got, maintenance, published, upsets>>

SyncRead(s) ==
  /\ at = "sync" /\ syncing = NoSource /\ s \in todo
  /\ syncing' = s /\ seen' = status[s]
  /\ UNCHANGED <<yaml, status, logged, jobs, daily, day, at, filter, cfg, todo, active,
                 trial, got, maintenance, published, bounds>>

SyncWrite ==
  /\ syncing # NoSource
  /\ status' = [status EXCEPT ![syncing] = Synced(cfg[syncing], seen)]
  /\ todo' = todo \ {syncing} /\ syncing' = NoSource /\ seen' = "none"
  /\ UNCHANGED <<yaml, logged, jobs, daily, day, at, filter, cfg, active, trial, got,
                 maintenance, published, bounds>>

SyncDone ==
  /\ at = "sync" /\ todo = {}
  /\ at' = "list"
  /\ UNCHANGED <<yaml, status, logged, jobs, daily, day, filter, cfg, todo, syncing, seen,
                 active, trial, got, maintenance, published, bounds>>

ListPipelineSources ==
  /\ at = "list"
  /\ active' = Schedulable(status) \intersect filter
  /\ at' = "status"
  /\ UNCHANGED <<yaml, status, logged, jobs, daily, day, filter, cfg, todo, syncing, seen,
                 trial, got, maintenance, published, bounds>>

\* Mutant of GetSourceStatuses: sources on trial are not told apart.
GetSourceStatusesNone ==
  /\ at = "status"
  /\ trial' = {} /\ at' = "collect"
  /\ UNCHANGED <<yaml, status, logged, jobs, daily, day, filter, cfg, todo, syncing, seen,
                 active, got, maintenance, published, bounds>>

\* Mutant of GetSourceStatuses: the statuses of sources the run leaves out.
GetSourceStatusesAll ==
  /\ at = "status"
  /\ trial' = {s \in Sources : status[s] = "trial"} /\ at' = "collect"
  /\ UNCHANGED <<yaml, status, logged, jobs, daily, day, filter, cfg, todo, syncing, seen,
                 active, got, maintenance, published, bounds>>

GetSourceStatuses ==
  /\ at = "status"
  /\ trial' = {s \in active : status[s] = "trial"} /\ at' = "collect"
  /\ UNCHANGED <<yaml, status, logged, jobs, daily, day, filter, cfg, todo, syncing, seen,
                 active, got, maintenance, published, bounds>>

(* Collection and the graph.  A run that has collected nothing new ends    *)
(* here, and whatever its sources did is not rolled up.                    *)
Collect ==
  /\ at = "collect"
  /\ \E result \in [active -> Outcomes] :
       IF \E s \in active : result[s].new > 0
         THEN /\ got' = [s \in Sources |-> IF s \in active THEN result[s] ELSE Nothing]
              /\ at' = "persist" /\ UNCHANGED <<active, trial>>
         ELSE at' = "idle" /\ active' = {} /\ trial' = {} /\ UNCHANGED got
  /\ UNCHANGED <<yaml, status, logged, jobs, daily, day, filter, cfg, todo, syncing, seen,
                 maintenance, published, bounds>>

\* What a source on trial gets approved is recorded, but is no article.
Persist ==
  /\ at = "persist"
  /\ published' = published \union {s \in active \ trial : got[s].approved > 0}
  /\ todo' = active /\ at' = "rollup"
  /\ UNCHANGED <<yaml, status, logged, jobs, daily, day, filter, cfg, syncing, seen,
                 active, trial, got, maintenance, bounds>>

RollUp(s) ==
  /\ at = "rollup" /\ s \in todo
  /\ daily' = [daily EXCEPT ![s] = RolledUp(@, got[s])]
  /\ ChangeStatus(s, Governed(status[s], daily'[s]))
  /\ todo' = todo \ {s}
  /\ UNCHANGED <<yaml, jobs, day, at, filter, cfg, syncing, seen, active, trial, got,
                 maintenance, published, bounds>>

\* The pipeline is back to where it waits for its next run.
RunIsOver ==
  /\ at' = "idle" /\ filter' = {} /\ todo' = {} /\ syncing' = NoSource /\ seen' = "none"
  /\ active' = {} /\ trial' = {} /\ got' = [s \in Sources |-> Nothing]

RunEnds ==
  /\ at = "rollup" /\ todo = {}
  /\ RunIsOver
  /\ UNCHANGED <<yaml, status, logged, jobs, daily, day, cfg, maintenance, published, bounds>>

(* Any step may raise; what was committed stays.                           *)
RunFails ==
  /\ at # "idle"
  /\ RunIsOver
  /\ UNCHANGED <<yaml, status, logged, jobs, daily, day, cfg, maintenance, published, bounds>>

-----------------------------------------------------------------------------
(* run_weekly_source_maintenance.                                          *)
MaintenanceStarts ==
  /\ maint = "idle" /\ maint' = "discover"
  /\ UNCHANGED <<yaml, status, logged, jobs, daily, day, pipeline, pending, verdict,
                 published, bounds>>

\* Mutant of Discover: ON CONFLICT DO UPDATE.
DiscoverAgain(s) ==
  /\ maint = "discover" /\ s \in Found /\ status[s] \notin SCHEDULABLE_STATUSES
  /\ status' = [status EXCEPT ![s] = "candidate"]
  /\ logged' = [logged EXCEPT ![s] = "candidate"]
  /\ UNCHANGED <<yaml, jobs, daily, day, pipeline, maintenance, published, bounds>>

\* A source that is in the registry already is not written again.
Discover(s) ==
  /\ maint = "discover" /\ s \in Found /\ status[s] = "none"
  /\ status' = [status EXCEPT ![s] = "candidate"]
  /\ logged' = [logged EXCEPT ![s] = "candidate"]
  /\ UNCHANGED <<yaml, jobs, daily, day, pipeline, maintenance, published, bounds>>

SelectCandidates ==
  /\ maint = "discover"
  /\ LET candidates == {s \in Sources : status[s] = "candidate"}
     IN  pending' \in kSubset(Min({Limit, Cardinality(candidates)}), candidates)
  /\ maint' = "promote"
  /\ UNCHANGED <<yaml, status, logged, jobs, daily, day, pipeline, verdict, published, bounds>>

Promote(s) ==
  /\ maint = "promote" /\ s \in pending
  /\ ChangeStatus(s, "trial")
  /\ pending' = pending \ {s}
  /\ UNCHANGED <<yaml, jobs, daily, day, pipeline, maint, verdict, published, bounds>>

SelectTrials ==
  /\ maint = "promote" /\ pending = {}
  /\ pending' = {s \in Sources : status[s] = "trial"}
  /\ maint' = "evaluate"
  /\ UNCHANGED <<yaml, status, logged, jobs, daily, day, pipeline, verdict, published, bounds>>

\* _trial_passes, for one of the rows.
TrialPasses(row) ==
  /\ ~ row.blocked
  /\ 10 * row.collected >= 8 * (row.collected + row.failed)
  /\ row.new > 0
  /\ Score(row) # NoScore /\ Score(row) >= 500

(* evaluate_trial_sources reads the last three rows of a source ...        *)
Judge(s) ==
  /\ maint = "evaluate" /\ verdict = NoVerdict /\ s \in pending
  /\ IF Cardinality(DOMAIN daily[s]) >= 3
       THEN /\ verdict' = [source |-> s, status |->
                 IF \A d \in Latest(DOMAIN daily[s]) : TrialPasses(daily[s][d])
                 THEN "active" ELSE "rejected"]
            /\ UNCHANGED pending
       ELSE pending' = pending \ {s} /\ UNCHANGED verdict
  /\ UNCHANGED <<yaml, status, logged, jobs, daily, day, pipeline, maint, published, bounds>>

(* ... and sets its status, whatever that has become meanwhile.            *)
Decide ==
  /\ verdict # NoVerdict
  /\ ChangeStatus(verdict.source, verdict.status)
  /\ pending' = pending \ {verdict.source} /\ verdict' = NoVerdict
  /\ UNCHANGED <<yaml, jobs, daily, day, pipeline, maint, published, bounds>>

\* The job ends, or raises: another connection may hold the database.
MaintenanceEnds ==
  /\ maint # "idle"
  /\ maint' = "idle" /\ pending' = {} /\ verdict' = NoVerdict
  /\ UNCHANGED <<yaml, status, logged, jobs, daily, day, pipeline, published, bounds>>

-----------------------------------------------------------------------------
(* POST /api/sources/{id}/action: enable, disable or remove.               *)
SourceAction(s) ==
  /\ yaml[s] # "absent" /\ upsets < MaxUpsets
  /\ upsets' = upsets + 1
  /\ \E entry \in {"on", "off", "absent"} : yaml' = [yaml EXCEPT ![s] = entry]
  /\ UNCHANGED <<status, logged, jobs, daily, day, pipeline, maintenance, published,
                 runs>>

(* The process ends and starts again: lifespan synchronises the registry   *)
(* and registers the cron groups before anything else runs.                *)
Restart ==
  /\ upsets < MaxUpsets
  /\ upsets' = upsets + 1
  /\ status' = [s \in Sources |-> IF yaml[s] = "absent" THEN status[s]
                                  ELSE Synced(yaml[s], status[s])]
  /\ jobs' = Schedulable(status')
  /\ RunIsOver
  /\ maint' = "idle" /\ pending' = {} /\ verdict' = NoVerdict
  /\ UNCHANGED <<yaml, logged, daily, day, cfg, published, runs>>

(* A judgement does not wait for days to be applied.                       *)
NewDay ==
  /\ day < MaxDays /\ verdict = NoVerdict
  /\ day' = day + 1
  /\ UNCHANGED <<yaml, status, logged, jobs, daily, pipeline, maintenance, published, bounds>>

PipelineStep ==
  \/ RunStarts
  \/ (\E s \in Sources : SyncRead(s)) \/ SyncWrite \/ SyncDone
  \/ ListPipelineSources \/ GetSourceStatuses
  \/ Collect \/ Persist
  \/ (\E s \in Sources : RollUp(s)) \/ RunEnds
  \/ RunFails

MaintenanceStep ==
  \/ MaintenanceStarts
  \/ \E s \in Sources : Discover(s) \/ Promote(s) \/ Judge(s)
  \/ SelectCandidates \/ SelectTrials
  \/ Decide \/ MaintenanceEnds

Next ==
  \/ PipelineStep \/ MaintenanceStep
  \/ (\E s \in Sources : SourceAction(s))
  \/ Restart \/ NewDay

Spec == Init /\ [][Next]_vars

-----------------------------------------------------------------------------
Fruitful(s) == {d \in DOMAIN daily[s] : daily[s][d].new > 0}

(* A source that was found is not in regular service before three days on  *)
(* which it had something new, and publishes nothing before three days on  *)
(* which runs have collected it, however its runs and the maintenance      *)
(* overlap and whatever was blocked or failed.                             *)
TrialIsServed ==
  \A s \in Found :
    /\ status[s] \in {"active", "degraded"} => Cardinality(Fruitful(s)) >= 3
    /\ s \in published => Cardinality(DOMAIN daily[s]) >= 3

(* What quarantine and rejection have stopped is not taken up again unless *)
(* an operator switches it off and on: not by a synchronisation with       *)
(* sources.yaml or a restart, nor by a decision that was on its way, nor   *)
(* because discovery finds the source once more.                           *)
StoppedStaysStopped ==
  [][\A s \in Sources :
       status[s] \in {"quarantined", "rejected"} =>
         status'[s] \notin SCHEDULABLE_STATUSES \union {"candidate"}]_vars

(* A run does not collect a source that is switched off in the sources.yaml*)
(* it has read, whatever governance has made of the source before.         *)
SwitchedOffIsNotCollected ==
  at \in {"status", "collect", "persist", "rollup"} =>
    \A s \in active : cfg[s] # "off"

-----------------------------------------------------------------------------
(* The codemap's "a new source does not go online directly": no run makes  *)
(* an article of a source that is on trial or was rejected when it was.    *)
OnlyPassedPublishes ==
  [][\A s \in Found \intersect (published' \ published) :
       status[s] \notin {"candidate", "trial", "rejected"}]_vars
=============================================================================
