---------------------------- MODULE PipelineRun ----------------------------
(***************************************************************************)
(* run_pipeline (src/main.py) and the graph it invokes                     *)
(* (src/graph/pipeline.py): triggers queue for one lock, a run names its   *)
(* row after the second in which it starts, every phase leaves a row that  *)
(* the DAG page shows, and whatever raises ends in one except clause.      *)
(*                                                                         *)
(* The row of a phase is known by the status of its latest entry.  What    *)
(* becomes of a build once it is queued is the matter of DebouncedBuilder. *)
(***************************************************************************)
EXTENDS Naturals, Sequences, FiniteSets, SequencesExt

CONSTANTS
  NumTriggers,     \* cron jobs and calls of POST /pipeline/trigger
  Analyzers,       \* the analyzer nodes of the graph
  StepMayFail,     \* whether a step before the run's end may raise
  TailMayFail,     \* whether the backup or the builder may raise
  MaxEscapes,      \* exceptions that the except clause may raise itself
  MaxCrashes

ASSUME PipelineAssumption ==
  /\ NumTriggers \in Nat
  /\ Analyzers # {} /\ IsFiniteSet(Analyzers)
  /\ {StepMayFail, TailMayFail} \subseteq BOOLEAN
  /\ {MaxEscapes, MaxCrashes} \subseteq Nat

Triggers == 1..NumTriggers
NoTrigger == 0
Seconds == 1..(NumTriggers + 1)    \* a run's id is the second it starts in
NoRun == 0
MAX_ROUNDS == 2                    \* range(1, 3)

\* The phases between collection and build, in the order they are skipped in.
Skippable ==
  <<"route", "analyze", "aggregate", "review", "persist", "deep_report", "backup", "build">>
Phases == {"collect"} \union ToSet(Skippable)

VARIABLES
  now,        \* the second of the clock
  fired,      \* how many triggers have fired
  queue,      \* triggers waiting for _pipeline_lock
  holder,     \* the trigger whose run holds it
  at,         \* what that run does next
  begun,      \* whether it has recorded the start of phase at
  runId,      \* run_id of the last run, NoRun while it is None
  row,        \* row[s]: pipeline_runs.status of the run with id s
  phase,      \* phase[s][ph]: its latest status in pipeline_phase_logs
  analyzer,   \* the analyzer nodes of the current superstep
  count,      \* _analyzer_count
  round,      \* retry rounds of the review
  analyzed,   \* whether an item has been analyzed
  skip,       \* phases still to record as skipped
  collected,  \* history: triggers whose run has collected its sources
  escapes, crashes

run == <<at, begun, analyzer, count, round, analyzed, skip>>
rows == <<row, phase>>
bounds == <<escapes, crashes>>
vars == <<now, fired, queue, holder, run, runId, rows, collected, bounds>>

\* Steps of a run: a phase, or what comes before, between and after phases.
Recorded == {"collect", "route", "aggregate", "review", "persist", "deep_report", "backup"}
Skipping == {"skip_failed", "skip_completed", "skip_return"}
Steps == Recorded \union Skipping \union {"free", "sync", "analyze", "end", "schedule"}
TailSteps == {"backup", "schedule", "skip_return"}

TypeOK ==
  /\ now \in Seconds /\ fired \in 0..NumTriggers
  /\ queue \in Seq(Triggers)
  /\ holder \in Triggers \union {NoTrigger}
  /\ at \in Steps /\ begun \in BOOLEAN
  /\ runId \in Seconds \union {NoRun}
  /\ row \in [Seconds -> {"none", "running", "completed", "failed"}]
  /\ phase \in [Seconds -> [Phases -> {"none", "running", "done", "failed", "skipped", "queued"}]]
  /\ analyzer \in [Analyzers -> {"off", "sent", "running", "done"}]
  /\ count \in Nat
  /\ round \in 0..MAX_ROUNDS /\ analyzed \in BOOLEAN
  /\ skip \in Seq(Phases)
  /\ collected \subseteq Triggers
  /\ escapes \in 0..MaxEscapes /\ crashes \in 0..MaxCrashes

-----------------------------------------------------------------------------
Init ==
  /\ now = 1 /\ fired = 0
  /\ queue = <<>> /\ holder = NoTrigger
  /\ at = "free" /\ begun = FALSE
  /\ runId = NoRun
  /\ row = [s \in Seconds |-> "none"]
  /\ phase = [s \in Seconds |-> [ph \in Phases |-> "none"]]
  /\ analyzer = [a \in Analyzers |-> "off"] /\ count = 0
  /\ round = 0 /\ analyzed = FALSE
  /\ skip = <<>>
  /\ collected = {}
  /\ escapes = 0 /\ crashes = 0

Becomes(ph, status) == phase' = [phase EXCEPT ![runId][ph] = status]

Goto(step) == at' = step /\ begun' = FALSE

Release == Goto("free") /\ holder' = NoTrigger

-----------------------------------------------------------------------------
(* A cron job fires or the API is called: run_pipeline asks for the lock.  *)
Fire ==
  /\ fired < NumTriggers
  /\ fired' = fired + 1
  /\ queue' = Append(queue, fired')
  /\ UNCHANGED <<now, holder, run, runId, rows, collected, bounds>>

\* Mutant of Acquire: run_id is not set back to None.
AcquireKeepsRunId ==
  /\ holder = NoTrigger /\ queue # <<>>
  /\ holder' = Head(queue) /\ queue' = Tail(queue)
  /\ Goto("sync")
  /\ UNCHANGED <<now, fired, runId, rows, analyzer, count, round, analyzed, skip,
                 collected, bounds>>

(* asyncio.Lock serves the waiting tasks in order.                         *)
Acquire ==
  /\ holder = NoTrigger /\ queue # <<>>
  /\ holder' = Head(queue) /\ queue' = Tail(queue)
  /\ runId' = NoRun
  /\ Goto("sync")
  /\ UNCHANGED <<now, fired, rows, analyzer, count, round, analyzed, skip,
                 collected, bounds>>

\* Mutant of HandleFailure: the lock is not released in a finally clause.
HandleFailureKeepsLock ==
  /\ \/ /\ row' = IF runId' = NoRun THEN row ELSE [row EXCEPT ![runId'] = "failed"]
        /\ UNCHANGED escapes
     \/ /\ escapes < MaxEscapes /\ escapes' = escapes + 1
        /\ UNCHANGED row
  /\ Goto("free") /\ UNCHANGED holder

(* The except and the finally clause: the run's row, if it has an id, says *)
(* failed, unless writing that raises too; the lock is released.           *)
HandleFailure ==
  /\ \/ /\ row' = IF runId' = NoRun THEN row ELSE [row EXCEPT ![runId'] = "failed"]
        /\ UNCHANGED escapes
     \/ /\ escapes < MaxEscapes /\ escapes' = escapes + 1
        /\ UNCHANGED row
  /\ Release

(* The budget has been set: the run takes its id from the clock, inserts   *)
(* its row and starts to collect.  The insertion raises if a run of the    *)
(* same second has inserted its own.                                       *)
StartRun ==
  /\ at = "sync"
  /\ runId' = now
  /\ IF row[now] = "none"
       THEN /\ row' = [row EXCEPT ![now] = "running"]
            /\ phase' = [phase EXCEPT ![now]["collect"] = "running"]
            /\ at' = "collect" /\ begun' = TRUE
            /\ UNCHANGED <<holder, escapes>>
       ELSE HandleFailure /\ UNCHANGED phase
  /\ round' = 0 /\ analyzed' = FALSE
  /\ UNCHANGED <<now, fired, queue, analyzer, count, skip, collected, crashes>>

PhaseBegins ==
  /\ at \in Recorded /\ ~ begun
  /\ begun' = TRUE
  /\ Becomes(at, "running")
  /\ UNCHANGED <<now, fired, queue, holder, at, analyzer, count, round, analyzed,
                 skip, runId, row, collected, bounds>>

\* The phase the run is in ends with this status.
PhaseEnds(ph, status) == at = ph /\ begun /\ Becomes(ph, status)

\* Mutant of ResetCounter: _analyzer_count is not cleared for the next graph.
KeepCounter == UNCHANGED count

ResetCounter == count' = 0

(* Sources that all fail, sources with nothing new, new items: the first   *)
(* two record every other phase as skipped and end the run.                *)
CollectDone ==
  /\ PhaseEnds("collect", "done")
  /\ collected' = collected \union {holder}
  /\ \/ /\ \E exit \in {"skip_failed", "skip_completed"} : Goto(exit)
        /\ skip' = Skippable
        /\ UNCHANGED count
     \/ Goto("route") /\ ResetCounter /\ UNCHANGED skip
  /\ UNCHANGED <<now, fired, queue, holder, analyzer, round, analyzed, runId, row, bounds>>

SkipPhase ==
  /\ at \in Skipping /\ skip # <<>>
  /\ Becomes(Head(skip), "skipped")
  /\ skip' = Tail(skip)
  /\ UNCHANGED <<now, fired, queue, holder, at, begun, analyzer, count, round,
                 analyzed, runId, row, collected, bounds>>

\* Mutant of AllSkipped: an exit that forgets end_pipeline_run.
AllSkippedOnly ==
  /\ at \in Skipping /\ skip = <<>>
  /\ UNCHANGED row
  /\ Release
  /\ UNCHANGED <<now, fired, queue, analyzer, count, round, analyzed, skip, runId,
                 phase, collected, bounds>>

AllSkipped ==
  /\ at \in Skipping /\ skip = <<>>
  /\ row' = [row EXCEPT ![runId] = CASE at = "skip_failed" -> "failed"
                                     [] at = "skip_completed" -> "completed"
                                     [] at = "skip_return" -> @]
  /\ Release
  /\ UNCHANGED <<now, fired, queue, analyzer, count, round, analyzed, skip, runId,
                 phase, collected, bounds>>

-----------------------------------------------------------------------------
(* The router sends the items to at least one analyzer: a source it does   *)
(* not know goes to the RSS analyzer.                                      *)
RouteDone ==
  /\ PhaseEnds("route", "done")
  /\ \E S \in (SUBSET Analyzers) \ {{}} :
       analyzer' = [a \in Analyzers |-> IF a \in S THEN "sent" ELSE "off"]
  /\ Goto("analyze")
  /\ UNCHANGED <<now, fired, queue, holder, count, round, analyzed, skip, runId, row,
                 collected, bounds>>

(* The first analyzer of a superstep records the start of the phase ...    *)
AnalyzerStarts(a) ==
  /\ at = "analyze" /\ analyzer[a] = "sent"
  /\ analyzer' = [analyzer EXCEPT ![a] = "running"]
  /\ count' = count + 1
  /\ IF count' = 1 THEN Becomes("analyze", "running") ELSE UNCHANGED phase
  /\ UNCHANGED <<now, fired, queue, holder, at, begun, round, analyzed, skip, runId,
                 row, collected, bounds>>

(* ... and the last one to finish records its end.                         *)
AnalyzerEnds(a) ==
  /\ at = "analyze" /\ analyzer[a] = "running"
  /\ analyzer' = [analyzer EXCEPT ![a] = "done"]
  /\ count' = count - 1
  /\ IF count' = 0 THEN Becomes("analyze", "done") ELSE UNCHANGED phase
  /\ analyzed' \in {analyzed, TRUE}
  /\ UNCHANGED <<now, fired, queue, holder, at, begun, round, skip, runId, row,
                 collected, bounds>>

AnalyzersJoin ==
  /\ at = "analyze"
  /\ \A a \in Analyzers : analyzer[a] \in {"off", "done"}
  /\ Goto("aggregate")
  /\ UNCHANGED <<now, fired, queue, holder, analyzer, count, round, analyzed, skip,
                 runId, rows, collected, bounds>>

AggregateDone ==
  /\ PhaseEnds("aggregate", "done")
  /\ Goto("review")
  /\ UNCHANGED <<now, fired, queue, holder, analyzer, count, round, analyzed, skip,
                 runId, row, collected, bounds>>

\* Mutant of RetryWanted: a third retry round.
RetryWantedLate == analyzed /\ round <= MAX_ROUNDS

\* Some verdict is retry, and there is a round left for it.
RetryWanted == analyzed /\ round < MAX_ROUNDS

(* The reviewer node of the graph, and the retry rounds after the graph.   *)
ReviewDone ==
  /\ PhaseEnds("review", "done")
  /\ \/ RetryWanted /\ round' = round + 1 /\ Goto("review")
     \/ UNCHANGED round /\ Goto("persist")
  /\ UNCHANGED <<now, fired, queue, holder, analyzer, count, analyzed, skip, runId,
                 row, collected, bounds>>

PersistDone ==
  /\ PhaseEnds("persist", "done")
  /\ Goto("deep_report")
  /\ UNCHANGED <<now, fired, queue, holder, analyzer, count, round, analyzed, skip,
                 runId, row, collected, bounds>>

(* The deep report stage catches its own failures.                         *)
DeepReportDone ==
  /\ \E status \in (IF analyzed THEN {"done", "failed", "skipped"} ELSE {"skipped"}) :
       PhaseEnds("deep_report", status)
  /\ Goto("end")
  /\ UNCHANGED <<now, fired, queue, holder, analyzer, count, round, analyzed, skip,
                 runId, row, collected, bounds>>

(* end_pipeline_run, before the backup and the build: a run without an     *)
(* analyzed item has failed and skips both.                                *)
EndRun ==
  /\ at = "end"
  /\ row' = [row EXCEPT ![runId] = IF analyzed THEN "completed" ELSE "failed"]
  /\ IF analyzed THEN Goto("backup") /\ UNCHANGED skip
     ELSE Goto("skip_return") /\ skip' = <<"backup", "build">>
  /\ UNCHANGED <<now, fired, queue, holder, analyzer, count, round, analyzed, runId,
                 phase, collected, bounds>>

BackupDone ==
  /\ PhaseEnds("backup", "done")
  /\ Goto("schedule")
  /\ UNCHANGED <<now, fired, queue, holder, analyzer, count, round, analyzed, skip,
                 runId, row, collected, bounds>>

BackupFails ==
  /\ TailMayFail
  /\ PhaseEnds("backup", "failed")
  /\ UNCHANGED runId /\ HandleFailure
  /\ UNCHANGED <<now, fired, queue, analyzer, count, round, analyzed, skip,
                 collected, crashes>>

Scheduled ==
  /\ at = "schedule"
  /\ Becomes("build", "queued")
  /\ Release
  /\ UNCHANGED <<now, fired, queue, analyzer, count, round, analyzed, skip, runId,
                 row, collected, bounds>>

(* A step raises.  An analyzer that does takes the others of its superstep *)
(* with it, and none of them decrements the counter.                       *)
StepFails ==
  /\ holder # NoTrigger
  /\ IF at \in TailSteps THEN TailMayFail ELSE StepMayFail
  /\ analyzer' = [a \in Analyzers |-> "off"]
  /\ skip' = <<>>
  /\ UNCHANGED runId /\ HandleFailure
  /\ UNCHANGED <<now, fired, queue, count, round, analyzed, phase, collected, crashes>>

-----------------------------------------------------------------------------
(* The clock: only seconds in which a run has started matter.              *)
Tick ==
  /\ row[now] # "none" /\ now <= NumTriggers
  /\ now' = now + 1
  /\ UNCHANGED <<fired, queue, holder, run, runId, rows, collected, bounds>>

(* The process dies and starts again: lifespan looks at no row.            *)
Crash ==
  /\ crashes < MaxCrashes
  /\ crashes' = crashes + 1
  /\ queue' = <<>> /\ holder' = NoTrigger /\ runId' = NoRun
  /\ Goto("free")
  /\ analyzer' = [a \in Analyzers |-> "off"] /\ count' = 0
  /\ round' = 0 /\ analyzed' = FALSE /\ skip' = <<>>
  /\ UNCHANGED <<now, fired, rows, collected, escapes>>

(* All the triggers the model allows have been served.                     *)
Idle ==
  /\ fired = NumTriggers /\ holder = NoTrigger /\ queue = <<>>
  /\ UNCHANGED vars

RunStep ==
  \/ StartRun \/ PhaseBegins
  \/ CollectDone \/ SkipPhase \/ AllSkipped
  \/ RouteDone \/ AnalyzersJoin \/ AggregateDone \/ ReviewDone
  \/ \E a \in Analyzers : AnalyzerStarts(a) \/ AnalyzerEnds(a)
  \/ PersistDone \/ DeepReportDone \/ EndRun
  \/ BackupDone \/ BackupFails \/ Scheduled
  \/ StepFails

Next == Fire \/ Acquire \/ RunStep \/ Tick \/ Crash \/ Idle

Spec == Init /\ [][Next]_vars

(* The event loop runs what is ready: the collector, the model and git     *)
(* requests all have timeouts, and time passes.                            *)
FairSpec == Spec /\ WF_vars(Acquire) /\ WF_vars(RunStep) /\ WF_vars(Tick)

-----------------------------------------------------------------------------
Over(s) == ~ (holder # NoTrigger /\ runId = s)

\* The process has not restarted, and the except clause has done its work.
Undisturbed == escapes = 0 /\ crashes = 0

(* Every phase of a completed run has a last word: none is left waiting or *)
(* running, whichever exit the run took and whatever the runs before it    *)
(* left behind in the analyzer counter.                                    *)
CompletedIsAccounted ==
  Undisturbed => \A s \in Seconds : row[s] = "completed" /\ Over(s) =>
    \A ph \in Phases : phase[s][ph] \notin {"none", "running"}

(* A row that says running belongs to the run that holds the lock: no exit *)
(* forgets to end its run.  A restart leaves rows behind, and so does an   *)
(* except clause that raises itself.                                       *)
RunningIsHeld ==
  Undisturbed => \A s \in Seconds : row[s] = "running" => ~ Over(s)

(* Only the run itself changes the verdict on a run, or one that starts in *)
(* the same second: none that fails before it has an id of its own, whose  *)
(* exception finds in main's variable what the run before it left there.   *)
EndedIsFinal ==
  [][\A s \in Seconds :
       row[s] \in {"completed", "failed"} /\ row'[s] # row[s]
         => runId' = s /\ (at = "sync" => now = s)]_vars

(* Overlapping triggers are served one after the other, however the runs   *)
(* before them end; a restart forgets those that wait.                     *)
TriggersGetTheLock ==
  \A t \in Triggers :
    (\E i \in DOMAIN queue : queue[i] = t) ~> (holder = t \/ crashes > 0)

-----------------------------------------------------------------------------
(* The operations document's "a queued trigger goes on when the previous   *)
(* run ends, no group is skipped": a run that gives the lock back has      *)
(* collected its sources, unless one of its steps failed.                  *)
QueuedTriggersCollect ==
  [][\A t \in Triggers : (holder = t /\ holder' # t) => t \in collected]_vars
=============================================================================
