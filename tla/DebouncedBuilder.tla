-------------------------- MODULE DebouncedBuilder --------------------------
(***************************************************************************)
(* The debounced site builder (src/site/builder.py): a finished run        *)
(* schedules a build, which starts when nobody schedules another one while *)
(* its timer sleeps; the API may build at once.  All of it runs on one     *)
(* event loop: a step lasts from one await to the next, and copying the    *)
(* site's files holds the loop, so that only readers and a crash see it.   *)
(*                                                                         *)
(* Runs are numbered in the order in which they save their articles, which *)
(* the pipeline lock makes the order in which they schedule.  A file of    *)
(* the site is known by the number of runs it accounts for.                *)
(***************************************************************************)
EXTENDS Naturals, Sequences, FiniteSets, FiniteSetsExt

CONSTANTS
  NumRuns,
  Manuals,        \* calls of POST /pipeline/build
  Files,          \* the files of the site
  MaxFailures,    \* builds that may raise
  MaxCrashes

ASSUME BuilderAssumption ==
  /\ NumRuns \in Nat
  /\ Files # {}
  /\ MaxFailures \in Nat
  /\ MaxCrashes \in Nat

Runs == 1..NumRuns
NoRun == 0
ASSUME ManualAssumption == Manuals \intersect Nat = {}
Builders == Runs \union Manuals
Statuses == {"none", "queued", "running", "done", "failed", "superseded"}
TimerStates == {"none", "sleeping", "starting", "building", "settling", "done"}

VARIABLES
  articles,   \* runs whose articles are in the database
  status,     \* the build row of each run in pipeline_phase_logs
  sched,      \* where the latest run is in handing over to schedule()
  timer,      \* timer[r]: the task _wait_and_build(r)
  cancelled,  \* tasks that are to receive a CancelledError
  current,    \* _timer
  runId,      \* _run_id
  manual,     \* manual[m]: where this call of build_now is
  building,   \* builds waiting for their database reads, first come first served
  snapshot,   \* snapshot[b]: the runs build b has read
  copying,    \* the build that is copying its files, if any
  left,       \* the files it has still to copy
  site,       \* site[f]: the runs file f accounts for
  failures, crashes

loop == <<sched, timer, cancelled, current, runId, manual, building, snapshot, copying, left>>
bounds == <<failures, crashes>>
vars == <<articles, status, loop, site, bounds>>

TypeOK ==
  /\ articles \in 0..NumRuns
  /\ status \in [Runs -> Statuses]
  /\ sched \in {"idle", "saved", "superseding", "queueing"}
  /\ timer \in [Runs -> TimerStates]
  /\ cancelled \subseteq Runs
  /\ current \in Runs \union {NoRun} /\ runId \in Runs \union {NoRun}
  /\ manual \in [Manuals -> {"idle", "superseding", "building", "done"}]
  /\ building \in Seq(Builders)
  /\ snapshot \in [Builders -> 0..NumRuns]
  /\ copying \subseteq Builders /\ left \subseteq Files
  /\ site \in [Files -> 0..NumRuns]
  /\ failures \in 0..MaxFailures /\ crashes \in 0..MaxCrashes

-----------------------------------------------------------------------------
\* The event loop is free: no build is copying.
LoopFree == copying = {}

\* What a write returns from has been preceded by every cancellation made
\* before it was issued.
CancellationsDelivered == cancelled = {}

\* Mutant of RowStatus: the event's name is stored as it is.
RowStatusAsIs(report) == report

RowStatus(report) == IF report = "completed" THEN "done" ELSE report

(* _notify: the row is updated as soon as the report is issued, the caller *)
(* resumes later.  Builds of the API have no run and report nothing.       *)
Notified(r, report) ==
  IF r \in Runs /\ (report = "queued" \/ status[r] # "none")
    THEN [status EXCEPT ![r] = RowStatus(report)] ELSE status

\* The queue without its entry of b, which has at most one.
Without(seq, b) ==
  IF \A i \in DOMAIN seq : seq[i] # b THEN seq
  ELSE LET n == CHOOSE i \in DOMAIN seq : seq[i] = b
       IN  [i \in 1..(Len(seq) - 1) |-> IF i < n THEN seq[i] ELSE seq[i + 1]]

\* Mutant of TimerPending: only a timer that still sleeps is cancelled.
TimerSleeping == current # NoRun /\ timer[current] = "sleeping"

\* self._timer and not self._timer.done()
TimerPending == current # NoRun /\ timer[current] # "done"

-----------------------------------------------------------------------------
Init ==
  /\ articles = 0
  /\ status = [r \in Runs |-> "none"]
  /\ sched = "idle"
  /\ timer = [r \in Runs |-> "none"]
  /\ cancelled = {}
  /\ current = NoRun /\ runId = NoRun
  /\ manual = [m \in Manuals |-> "idle"]
  /\ building = <<>>
  /\ snapshot = [b \in Builders |-> 0]
  /\ copying = {} /\ left = {}
  /\ site = [f \in Files |-> 0]
  /\ failures = 0 /\ crashes = 0

(* The next run saves its articles.                                        *)
SaveArticles ==
  /\ LoopFree /\ sched = "idle" /\ articles < NumRuns
  /\ articles' = articles + 1
  /\ sched' = "saved"
  /\ UNCHANGED <<status, timer, cancelled, current, runId, manual, building,
                 snapshot, copying, left, site, bounds>>

(* The run does not reach schedule(): its backup failed.                   *)
NotScheduled ==
  /\ LoopFree /\ sched = "saved"
  /\ sched' = "idle"
  /\ UNCHANGED <<articles, status, timer, cancelled, current, runId, manual,
                 building, snapshot, copying, left, site, bounds>>

\* Mutant of Supersede: the new run is reported instead of the previous one.
SupersedeNewRun ==
  /\ TimerPending
  /\ cancelled' = cancelled \union {current}
  /\ status' = Notified(articles, "superseded")

(* A pending timer is cancelled, and its run's row says so at once.        *)
Supersede ==
  /\ TimerPending
  /\ cancelled' = cancelled \union {current}
  /\ status' = Notified(runId, "superseded")

\* self._run_id = run_id, and the report that awaits the timer's creation.
Enqueue ==
  /\ sched' = "queueing"
  /\ runId' = articles
  /\ status' = Notified(articles, "queued")

Schedule ==
  /\ LoopFree /\ sched = "saved"
  /\ \/ Supersede /\ sched' = "superseding" /\ UNCHANGED runId
     \/ ~ TimerPending /\ Enqueue /\ UNCHANGED cancelled
  /\ UNCHANGED <<articles, timer, current, manual, building, snapshot,
                 copying, left, site, bounds>>

ScheduleQueues ==
  /\ LoopFree /\ sched = "superseding" /\ CancellationsDelivered
  /\ Enqueue
  /\ UNCHANGED <<articles, timer, cancelled, current, manual, building,
                 snapshot, copying, left, site, bounds>>

ScheduleStartsTimer ==
  /\ LoopFree /\ sched = "queueing"
  /\ sched' = "idle"
  /\ current' = runId
  /\ timer' = [timer EXCEPT ![runId] = "sleeping"]
  /\ UNCHANGED <<articles, status, cancelled, runId, manual, building,
                 snapshot, copying, left, site, bounds>>

-----------------------------------------------------------------------------
(* The debounce time is over and nobody cancelled the timer.               *)
Wake(r) ==
  /\ LoopFree /\ timer[r] = "sleeping" /\ r \notin cancelled
  /\ timer' = [timer EXCEPT ![r] = "starting"]
  /\ status' = Notified(r, "running")
  /\ UNCHANGED <<articles, sched, cancelled, current, runId, manual, building,
                 snapshot, copying, left, site, bounds>>

\* SiteBuilder.build up to its first await: the articles are read in turn.
Reads(b) ==
  /\ building' = Append(building, b)
  /\ snapshot' = [snapshot EXCEPT ![b] = articles]

TimerBuilds(r) ==
  /\ LoopFree /\ timer[r] = "starting" /\ r \notin cancelled
  /\ timer' = [timer EXCEPT ![r] = "building"]
  /\ Reads(r)
  /\ UNCHANGED <<articles, status, sched, cancelled, current, runId, manual,
                 copying, left, site, bounds>>

(* build_now: a pending timer is superseded first.                         *)
BuildNow(m) ==
  /\ LoopFree /\ manual[m] = "idle"
  /\ \/ /\ Supersede
        /\ manual' = [manual EXCEPT ![m] = "superseding"]
        /\ UNCHANGED <<building, snapshot>>
     \/ /\ ~ TimerPending
        /\ manual' = [manual EXCEPT ![m] = "building"]
        /\ Reads(m)
        /\ UNCHANGED <<cancelled, status>>
  /\ UNCHANGED <<articles, sched, timer, current, runId, copying, left, site, bounds>>

BuildNowBuilds(m) ==
  /\ LoopFree /\ manual[m] = "superseding" /\ CancellationsDelivered
  /\ manual' = [manual EXCEPT ![m] = "building"]
  /\ Reads(m)
  /\ UNCHANGED <<articles, status, sched, timer, cancelled, current, runId,
                 copying, left, site, bounds>>

IsBuilding(b) == IF b \in Runs THEN timer[b] = "building" ELSE manual[b] = "building"

\* Mutant of InTurn: builds get their articles in any order.
AnyTurn(b) == \E i \in DOMAIN building : building[i] = b

\* One connection serves the reads of all builds, in the order they came.
InTurn(b) == building # <<>> /\ Head(building) = b

(* The reads are done: the build renders its pages and copies them file by *)
(* file over those of the site, without another await.                     *)
StartCopy(b) ==
  /\ LoopFree /\ InTurn(b) /\ IsBuilding(b) /\ b \notin cancelled
  /\ building' = Without(building, b)
  /\ copying' = {b} /\ left' = Files
  /\ UNCHANGED <<articles, status, sched, timer, cancelled, current, runId,
                 manual, snapshot, site, bounds>>

\* The build of b ends with a report, which its caller awaits.
Ends(b, report) ==
  /\ status' = Notified(b, report)
  /\ timer' = IF b \in Runs THEN [timer EXCEPT ![b] = "settling"] ELSE timer
  /\ manual' = IF b \in Manuals THEN [manual EXCEPT ![b] = "done"] ELSE manual

\* Mutant of CopyFile: a file that is there is not replaced.
CopyFileOnce(b, f) ==
  /\ copying = {b} /\ f \in left
  /\ site' = [site EXCEPT ![f] = IF @ = 0 THEN snapshot[b] ELSE @]
  /\ left' = left \ {f}
  /\ IF left = {f} THEN copying' = {} /\ Ends(b, "completed")
     ELSE UNCHANGED <<copying, status, timer, manual>>
  /\ UNCHANGED <<articles, sched, cancelled, current, runId, building, snapshot, bounds>>

CopyFile(b, f) ==
  /\ copying = {b} /\ f \in left
  /\ site' = [site EXCEPT ![f] = snapshot[b]]
  /\ left' = left \ {f}
  /\ IF left = {f} THEN copying' = {} /\ Ends(b, "completed")
     ELSE UNCHANGED <<copying, status, timer, manual>>
  /\ UNCHANGED <<articles, sched, cancelled, current, runId, building, snapshot, bounds>>

\* Mutant of Raises: a build that raised is reported completed.
RaisesUnnoticed(b) ==
  /\ failures < MaxFailures /\ failures' = failures + 1
  /\ Ends(b, "completed")
  /\ building' = Without(building, b)
  /\ copying' = {} /\ left' = {}
  /\ UNCHANGED <<articles, sched, cancelled, current, runId, snapshot, site, crashes>>

(* The build raises: before its reads, after them, or between two files.   *)
Raises(b) ==
  /\ failures < MaxFailures /\ failures' = failures + 1
  /\ Ends(b, "failed")
  /\ building' = Without(building, b)
  /\ copying' = {} /\ left' = {}
  /\ UNCHANGED <<articles, sched, cancelled, current, runId, snapshot, site, crashes>>

BuildRaises(b) ==
  /\ \/ copying = {b}
     \/ LoopFree /\ IsBuilding(b) /\ b \notin cancelled
  /\ Raises(b)

(* The last report has been written: the task is done.                     *)
Settle(r) ==
  /\ LoopFree /\ timer[r] = "settling" /\ r \notin cancelled
  /\ timer' = [timer EXCEPT ![r] = "done"]
  /\ UNCHANGED <<articles, status, sched, cancelled, current, runId, manual,
                 building, snapshot, copying, left, site, bounds>>

(* The CancelledError reaches the task, which ends where it is.            *)
DeliverCancel(r) ==
  /\ LoopFree /\ r \in cancelled
  /\ cancelled' = cancelled \ {r}
  /\ timer' = [timer EXCEPT ![r] = "done"]
  /\ building' = Without(building, r)
  /\ UNCHANGED <<articles, status, sched, current, runId, manual, snapshot,
                 copying, left, site, bounds>>

(* The process dies and starts again: every task is gone, the database and *)
(* the files of the site stay as they are.                                 *)
Crash ==
  /\ crashes < MaxCrashes
  /\ crashes' = crashes + 1
  /\ sched' = "idle"
  /\ timer' = [r \in Runs |-> IF timer[r] = "none" THEN "none" ELSE "done"]
  /\ cancelled' = {}
  /\ current' = NoRun /\ runId' = NoRun
  /\ manual' = [m \in Manuals |-> IF manual[m] = "idle" THEN "idle" ELSE "done"]
  /\ building' = <<>>
  /\ copying' = {} /\ left' = {}
  /\ UNCHANGED <<articles, status, snapshot, site, failures>>

(* Every run is over and nothing is pending: the process waits.            *)
Quiet ==
  /\ articles = NumRuns /\ sched = "idle"
  /\ \A r \in Runs : timer[r] \in {"none", "done"}
  /\ UNCHANGED vars

\* What the event loop does by itself once there is something to do.
LoopStep ==
  \/ Schedule \/ ScheduleQueues \/ ScheduleStartsTimer
  \/ \E r \in Runs : Wake(r) \/ TimerBuilds(r) \/ Settle(r) \/ DeliverCancel(r)
  \/ \E m \in Manuals : BuildNowBuilds(m)
  \/ \E b \in Builders : StartCopy(b) \/ (\E f \in Files : CopyFile(b, f))

Next ==
  \/ SaveArticles \/ NotScheduled
  \/ LoopStep
  \/ \E m \in Manuals : BuildNow(m)
  \/ \E b \in Builders : BuildRaises(b)
  \/ Crash
  \/ Quiet

Spec == Init /\ [][Next]_vars

(* asyncio runs every callback that is ready, and timers expire.           *)
FairSpec == Spec /\ WF_vars(LoopStep)

-----------------------------------------------------------------------------
Live(r) == timer[r] \notin {"none", "done"} /\ r \notin cancelled

(* However schedule and build_now interleave, at most one task that has    *)
(* not been told to stop is waiting, building or copying.                  *)
AtMostOneLiveTimer == \A r, s \in Runs : Live(r) /\ Live(s) => r = s

\* The runs that every file of the site accounts for.
Published == Min({site[f] : f \in Files})

(* A row that says queued or running belongs to a build that will happen:  *)
(* its task is live, or about to be created (the API document's "queued:   *)
(* waiting for the debounce, running: being built").  A restart breaks it: *)
(* lifespan does not look at the rows an earlier process left.             *)
QueuedHasLiveBuild ==
  crashes = 0 => \A r \in Runs : status[r] \in {"queued", "running"} =>
    Live(r) \/ (sched = "queueing" /\ runId = r)

(* No page ever goes back to an older state, although builds overlap.      *)
SiteNeverRegresses == [][\A f \in Files : site'[f] >= site[f]]_vars

(* While the process lives, every queued build gets its last word, and if  *)
(* no build fails, what is queued reaches the site, by its own build or by *)
(* the one that superseded it.                                             *)
QueuedIsPublished ==
  \A r \in Runs : status[r] = "queued" ~>
    \/ /\ status[r] \in {"done", "failed", "superseded"}
       /\ r <= Published \/ failures > 0
    \/ crashes > 0

(* The rows and the site keep the promise of Publication.                  *)
P == INSTANCE Publication WITH saved <- articles, published <- Published
PublicationSpec == P!Spec
=============================================================================
