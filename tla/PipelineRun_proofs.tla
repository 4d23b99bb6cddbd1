------------------------- MODULE PipelineRun_proofs -------------------------
(***************************************************************************)
(* A pipeline run, proved for any number of triggers and analyzers, and    *)
(* whatever raises: types, the rows of runs that are running, the verdicts *)
(* that later runs leave alone, and the phases of completed runs.          *)
(***************************************************************************)
EXTENDS PipelineRun, FiniteSetTheorems, TLAPS

\* The lock is held by the run that is under way, and that run has its row.
Locked ==
  /\ at = "free" <=> holder = NoTrigger
  /\ at = "sync" => runId = NoRun
  /\ at \notin {"free", "sync"} => runId \in Seconds
  /\ at \in {"backup", "schedule"} => row[runId] = "completed"
  /\ at = "skip_return" => row[runId] = "failed"

\* The analyzers that are counted are those that run, and the last of them
\* to end has recorded the end of the phase.
Counting ==
  /\ at = "route" => count = 0
  /\ at = "analyze" =>
       /\ count = Cardinality({a \in Analyzers : analyzer[a] = "running"})
       /\ \E a \in Analyzers : analyzer[a] # "off"
       /\ count = 0 /\ (\E a \in Analyzers : analyzer[a] = "done")
            => phase[runId]["analyze"] = "done"

HasWord(s, ph) == phase[s][ph] \notin {"none", "running"}

\* The steps of a run that come after a phase.
After ==
  [ collect |-> {"route", "analyze", "aggregate", "review", "persist", "deep_report",
                 "end", "backup", "schedule"},
    route |-> {"analyze", "aggregate", "review", "persist", "deep_report",
               "end", "backup", "schedule"},
    analyze |-> {"aggregate", "review", "persist", "deep_report", "end", "backup", "schedule"},
    aggregate |-> {"review", "persist", "deep_report", "end", "backup", "schedule"},
    review |-> {"persist", "deep_report", "end", "backup", "schedule"},
    persist |-> {"deep_report", "end", "backup", "schedule"},
    deep_report |-> {"end", "backup", "schedule"},
    backup |-> {"schedule"},
    build |-> {} ]

\* The run under way has recorded what it has behind it, and the phases it
\* skips but for those still in the list.
Recording ==
  /\ \A ph \in Phases : at \in After[ph] => HasWord(runId, ph)
  /\ at \in Skipping =>
       \A ph \in Phases : HasWord(runId, ph) \/ \E k \in DOMAIN skip : skip[k] = ph

IInv ==
  /\ TypeOK /\ Locked /\ Counting
  /\ Undisturbed => RunningIsHeld /\ Recording /\ CompletedIsAccounted

-----------------------------------------------------------------------------
(* The phases, one by one.                                                 *)
LEMMA PhasesAre ==
  Phases = {"collect", "route", "analyze", "aggregate", "review", "persist",
            "deep_report", "backup", "build"}
<1>1. ToSet(Skippable) = {Skippable[k] : k \in 1..8}
  BY DEF ToSet, Skippable
<1>2. ToSet(Skippable) = {"route", "analyze", "aggregate", "review", "persist",
                          "deep_report", "backup", "build"}
  BY <1>1 DEF Skippable
<1> QED
  BY <1>2 DEF Phases

LEMMA SkippableIsSeq ==
  /\ Skippable \in Seq(Phases)
  /\ \A ph \in Phases : ph = "collect" \/ \E k \in DOMAIN Skippable : Skippable[k] = ph
<1>1. Skippable \in Seq(Phases)
  BY PhasesAre DEF Skippable
<1>2. \A ph \in ToSet(Skippable) : \E k \in DOMAIN Skippable : Skippable[k] = ph
  BY DEF ToSet
<1> QED
  BY <1>1, <1>2 DEF Phases

(* The running analyzers can be counted.                                   *)
LEMMA RunningFinite ==
  ASSUME NEW f PROVE IsFiniteSet({a \in Analyzers : f[a] = "running"})
BY PipelineAssumption, FS_Subset

LEMMA InitInvariant == Init => IInv
<1> SUFFICES ASSUME Init PROVE IInv
  OBVIOUS
<1> USE DEF Init
<1>1. TypeOK
  <2>1. now \in Seconds /\ fired \in 0..NumTriggers /\ escapes \in 0..MaxEscapes
        /\ crashes \in 0..MaxCrashes
    BY PipelineAssumption DEF Seconds
  <2>2. round \in 0..MAX_ROUNDS
    BY DEF MAX_ROUNDS
  <2>3. /\ row \in [Seconds -> {"none", "running", "completed", "failed"}]
        /\ phase \in [Seconds -> [Phases -> {"none", "running", "done", "failed", "skipped",
                                             "queued"}]]
        /\ analyzer \in [Analyzers -> {"off", "sent", "running", "done"}]
    OBVIOUS
  <2>4. count \in Nat /\ queue \in Seq(Triggers) /\ skip \in Seq(Phases)
    OBVIOUS
  <2> QED
    BY <2>1, <2>2, <2>3, <2>4 DEF TypeOK, Steps, bounds
<1>2. Locked /\ Counting
  BY DEF Locked, Counting
<1>3. RunningIsHeld /\ CompletedIsAccounted
  BY DEF RunningIsHeld, CompletedIsAccounted
<1>4. Recording
  BY PhasesAre DEF Recording, After, Skipping
<1> QED
  BY <1>1, <1>2, <1>3, <1>4 DEF IInv

-----------------------------------------------------------------------------
PhaseStatuses == {"none", "running", "done", "failed", "skipped", "queued"}

(* What is recorded of a phase changes nothing else.                       *)
LEMMA RecordedAt ==
  ASSUME TypeOK, NEW id \in Seconds, NEW ph \in Phases, NEW st \in PhaseStatuses,
         phase' = [phase EXCEPT ![id][ph] = st]
  PROVE  /\ phase' \in [Seconds -> [Phases -> PhaseStatuses]]
         /\ \A s \in Seconds, q \in Phases :
              phase'[s][q] = IF s = id /\ q = ph THEN st ELSE phase[s][q]
         /\ \A s \in Seconds : s # id => phase'[s] = phase[s]
BY DEF TypeOK, PhaseStatuses

LEMMA BecomesRecords ==
  ASSUME IInv, runId \in Seconds, NEW ph \in Phases, NEW st \in PhaseStatuses,
         Becomes(ph, st)
  PROVE  /\ phase' \in [Seconds -> [Phases -> PhaseStatuses]]
         /\ \A s \in Seconds, q \in Phases :
              phase'[s][q] = IF s = runId /\ q = ph THEN st ELSE phase[s][q]
         /\ \A s \in Seconds : s # runId => phase'[s] = phase[s]
BY RecordedAt DEF Becomes, IInv

(* The runs that are over are not touched by the one that holds the lock.  *)
LEMMA OthersKeep ==
  ASSUME IInv, Undisturbed', UNCHANGED bounds, holder # NoTrigger, holder' # NoTrigger,
         runId \in Seconds, runId' = runId,
         \A s \in Seconds : s # runId => row'[s] = row[s] /\ phase'[s] = phase[s]
  PROVE  Undisturbed /\ RunningIsHeld' /\ CompletedIsAccounted'
BY DEF IInv, RunningIsHeld, CompletedIsAccounted, Over, Undisturbed, bounds

LEMMA FireKeeps ==
  ASSUME IInv, Fire
  PROVE  IInv'
<1> USE DEF Fire, run, rows, bounds
<1>1. TypeOK'
  <2>1. fired' \in 0..NumTriggers /\ fired' \in Triggers
    BY PipelineAssumption DEF IInv, TypeOK, Triggers
  <2> QED
    BY <2>1 DEF IInv, TypeOK
<1>2. Locked' /\ Counting'
  BY DEF IInv, Locked, Counting
<1>3. Undisturbed' => RunningIsHeld' /\ Recording' /\ CompletedIsAccounted'
  BY DEF IInv, Undisturbed, RunningIsHeld, Recording, CompletedIsAccounted, HasWord, Over
<1> QED
  BY <1>1, <1>2, <1>3 DEF IInv

LEMMA AcquireKeeps ==
  ASSUME IInv, Acquire
  PROVE  IInv'
<1> USE DEF Acquire, Goto, rows, bounds
<1>1. /\ holder' \in Triggers /\ queue' \in Seq(Triggers)
      /\ holder' # NoTrigger
  BY PipelineAssumption DEF IInv, TypeOK, Triggers, NoTrigger
<1>2. TypeOK'
  <2>1. at' \in Steps /\ begun' \in BOOLEAN /\ runId' \in Seconds \union {NoRun}
    BY DEF Steps
  <2> QED
    BY <1>1, <2>1 DEF IInv, TypeOK
<1>3. Locked' /\ Counting'
  BY <1>1 DEF IInv, Locked, Counting
<1>4. ASSUME Undisturbed' PROVE RunningIsHeld' /\ Recording' /\ CompletedIsAccounted'
  <2>1. Undisturbed
    BY <1>4 DEF Undisturbed
  <2>2. RunningIsHeld' /\ CompletedIsAccounted'
    BY <2>1 DEF IInv, RunningIsHeld, CompletedIsAccounted, Over
  <2>3. Recording'
    BY PhasesAre DEF Recording, After, Skipping
  <2> QED
    BY <2>2, <2>3
<1> QED
  BY <1>2, <1>3, <1>4 DEF IInv

(* A run whose second is taken fails, and the other run's row with it.     *)
LEMMA StartRunKeeps ==
  ASSUME IInv, StartRun
  PROVE  IInv'
<1> USE DEF StartRun
<1>1. now \in Seconds /\ runId' = now /\ now' = now
  BY DEF IInv, TypeOK
<1>2. CASE row[now] = "none"
  <2>1. /\ row' = [row EXCEPT ![now] = "running"]
        /\ phase' = [phase EXCEPT ![now]["collect"] = "running"]
        /\ at' = "collect" /\ begun' = TRUE /\ holder' = holder /\ escapes' = escapes
    BY <1>2
  <2>2. "collect" \in Phases
    BY PhasesAre
  <2>3. TypeOK'
    <3>1. "running" \in PhaseStatuses /\ TypeOK
      BY DEF PhaseStatuses, IInv
    <3>2. phase' \in [Seconds -> [Phases -> PhaseStatuses]]
      BY <1>1, <2>1, <2>2, <3>1, RecordedAt
    <3>3. row' \in [Seconds -> {"none", "running", "completed", "failed"}]
      BY <1>1, <2>1 DEF IInv, TypeOK
    <3>4. at' \in Steps /\ begun' \in BOOLEAN /\ analyzed' \in BOOLEAN
      BY <2>1 DEF Steps, Recorded
    <3>5. round' \in 0..MAX_ROUNDS
      BY DEF MAX_ROUNDS
    <3> QED
      BY <1>1, <2>1, <3>2, <3>3, <3>4, <3>5 DEF IInv, TypeOK, PhaseStatuses
  <2>4. Locked' /\ Counting'
    BY <1>1, <2>1 DEF IInv, TypeOK, Locked, Counting, Seconds, NoTrigger
  <2>5. ASSUME Undisturbed' PROVE RunningIsHeld' /\ Recording' /\ CompletedIsAccounted'
    <3>1. Undisturbed /\ holder # NoTrigger /\ runId \notin Seconds
      BY <2>1, <2>5, PipelineAssumption DEF Undisturbed, IInv, Locked, Seconds, NoRun
    <3>2. RunningIsHeld'
      BY <1>1, <2>1, <3>1 DEF IInv, TypeOK, RunningIsHeld, Over, Undisturbed
    <3>3. Recording'
      BY <2>1, PhasesAre DEF Recording, After, Skipping
    <3>4. CompletedIsAccounted'
      BY <1>1, <2>1, <3>1 DEF IInv, TypeOK, CompletedIsAccounted, Over, Undisturbed
    <3> QED
      BY <3>2, <3>3, <3>4
  <2> QED
    BY <2>3, <2>4, <2>5 DEF IInv
<1>3. CASE row[now] # "none"
  <2>1. /\ at' = "free" /\ holder' = NoTrigger /\ phase' = phase /\ begun' = FALSE
        /\ \/ row' = [row EXCEPT ![now] = "failed"] /\ escapes' = escapes
           \/ row' = row /\ escapes' = escapes + 1 /\ escapes < MaxEscapes
    BY <1>1, <1>3, PipelineAssumption DEF HandleFailure, Release, Goto, Seconds, NoRun
  <2>2. TypeOK'
    <3>1. /\ row' \in [Seconds -> {"none", "running", "completed", "failed"}]
          /\ escapes' \in 0..MaxEscapes
      BY <1>1, <2>1, PipelineAssumption DEF IInv, TypeOK
    <3>2. /\ at' \in Steps /\ begun' \in BOOLEAN /\ analyzed' \in BOOLEAN
          /\ holder' \in Triggers \union {NoTrigger}
      BY <2>1 DEF Steps
    <3>3. round' \in 0..MAX_ROUNDS
      BY DEF MAX_ROUNDS
    <3> QED
      BY <1>1, <2>1, <3>1, <3>2, <3>3 DEF IInv, TypeOK
  <2>3. Locked' /\ Counting'
    BY <1>1, <2>1 DEF Locked, Counting
  <2>4. ASSUME Undisturbed' PROVE RunningIsHeld' /\ Recording' /\ CompletedIsAccounted'
    <3>1. Undisturbed /\ row' = [row EXCEPT ![now] = "failed"]
      BY <2>1, <2>4 DEF Undisturbed, IInv, TypeOK
    <3>2. runId \notin Seconds
      BY PipelineAssumption DEF IInv, Locked, Seconds, NoRun
    <3>3. RunningIsHeld'
      BY <1>1, <2>1, <3>1, <3>2 DEF IInv, TypeOK, RunningIsHeld, Over, Undisturbed
    <3>4. CompletedIsAccounted'
      BY <1>1, <2>1, <3>1, <3>2 DEF IInv, TypeOK, CompletedIsAccounted, Over, Undisturbed
    <3>5. Recording'
      BY <2>1, PhasesAre DEF Recording, After, Skipping
    <3> QED
      BY <3>3, <3>4, <3>5
  <2> QED
    BY <2>2, <2>3, <2>4 DEF IInv
<1> QED
  BY <1>2, <1>3

LEMMA PhaseBeginsKeeps ==
  ASSUME IInv, PhaseBegins
  PROVE  IInv'
<1> USE DEF PhaseBegins, bounds
<1>1. /\ at \in Phases /\ runId \in Seconds /\ holder # NoTrigger
      /\ "running" \in PhaseStatuses
  BY PhasesAre DEF IInv, Locked, Recorded, PhaseStatuses
<1>2. /\ phase' \in [Seconds -> [Phases -> PhaseStatuses]]
      /\ \A s \in Seconds, q \in Phases :
           phase'[s][q] = IF s = runId /\ q = at THEN "running" ELSE phase[s][q]
      /\ \A s \in Seconds : s # runId => phase'[s] = phase[s]
  BY <1>1, BecomesRecords
<1>3. TypeOK'
  BY <1>2 DEF IInv, TypeOK, PhaseStatuses
<1>4. Locked' /\ Counting'
  BY <1>1, <1>2, PhasesAre DEF IInv, Locked, Counting, Recorded
<1>5. ASSUME Undisturbed' PROVE RunningIsHeld' /\ Recording' /\ CompletedIsAccounted'
  <2>1. Undisturbed /\ RunningIsHeld' /\ CompletedIsAccounted'
    BY <1>1, <1>2, <1>5, OthersKeep
  <2>2. Recording'
    BY <1>1, <1>2, <2>1, PhasesAre DEF IInv, Recording, After, Skipping, Recorded, HasWord
  <2> QED
    BY <2>1, <2>2
<1> QED
  BY <1>3, <1>4, <1>5 DEF IInv

(* The except clause, after whichever step has raised.                     *)
LEMMA FailureKeeps ==
  ASSUME IInv, HandleFailure, UNCHANGED <<now, fired, queue, runId, count, round, analyzed,
                                          collected, crashes>>,
         skip' \in Seq(Phases),
         analyzer' \in [Analyzers -> {"off", "sent", "running", "done"}],
         phase' \in [Seconds -> [Phases -> PhaseStatuses]],
         \A s \in Seconds : s # runId => phase'[s] = phase[s]
  PROVE  IInv'
<1>1. /\ at' = "free" /\ begun' = FALSE /\ holder' = NoTrigger
      /\ \/ /\ row' = IF runId = NoRun THEN row ELSE [row EXCEPT ![runId] = "failed"]
            /\ escapes' = escapes
         \/ row' = row /\ escapes' = escapes + 1 /\ escapes < MaxEscapes
  BY DEF HandleFailure, Release, Goto
<1>2. TypeOK'
  <2>1. row' \in [Seconds -> {"none", "running", "completed", "failed"}]
    BY <1>1 DEF IInv, TypeOK
  <2>2. escapes' \in 0..MaxEscapes
    BY <1>1, PipelineAssumption DEF IInv, TypeOK
  <2>3. /\ at' \in Steps /\ begun' \in BOOLEAN
        /\ holder' \in Triggers \union {NoTrigger}
    BY <1>1 DEF Steps
  <2> QED
    BY <2>1, <2>2, <2>3 DEF IInv, TypeOK, PhaseStatuses
<1>3. Locked' /\ Counting'
  BY <1>1 DEF Locked, Counting
<1>4. ASSUME Undisturbed' PROVE RunningIsHeld' /\ Recording' /\ CompletedIsAccounted'
  <2>1. Undisturbed /\ row' = IF runId = NoRun THEN row ELSE [row EXCEPT ![runId] = "failed"]
    BY <1>1, <1>4 DEF Undisturbed, IInv, TypeOK
  <2>2. \A s \in Seconds : row'[s] = IF s = runId THEN "failed" ELSE row[s]
    BY <2>1, PipelineAssumption DEF IInv, TypeOK, Seconds, NoRun
  <2>3. RunningIsHeld' /\ CompletedIsAccounted'
    BY <2>1, <2>2 DEF IInv, RunningIsHeld, CompletedIsAccounted, Over
  <2>4. Recording'
    BY <1>1, PhasesAre DEF Recording, After, Skipping
  <2> QED
    BY <2>3, <2>4
<1> QED
  BY <1>2, <1>3, <1>4 DEF IInv

LEMMA CollectDoneKeeps ==
  ASSUME IInv, CollectDone
  PROVE  IInv'
<1> USE DEF CollectDone, PhaseEnds, Goto, bounds, ResetCounter
<1>1. /\ runId \in Seconds /\ holder # NoTrigger /\ holder \in Triggers
      /\ "collect" \in Phases /\ "done" \in PhaseStatuses
  BY PhasesAre DEF IInv, TypeOK, Locked, PhaseStatuses
<1>2. /\ phase' \in [Seconds -> [Phases -> PhaseStatuses]]
      /\ \A s \in Seconds, q \in Phases :
           phase'[s][q] = IF s = runId /\ q = "collect" THEN "done" ELSE phase[s][q]
      /\ \A s \in Seconds : s # runId => phase'[s] = phase[s]
  BY <1>1, BecomesRecords
<1>3. TypeOK'
  <2>1. at' \in Steps /\ begun' \in BOOLEAN
    BY DEF Steps, Skipping, Recorded
  <2>2. skip' \in Seq(Phases)
    BY SkippableIsSeq DEF IInv, TypeOK
  <2>3. count' \in Nat
    BY DEF IInv, TypeOK
  <2>4. collected' \subseteq Triggers
    BY <1>1 DEF IInv, TypeOK
  <2> QED
    BY <1>2, <2>1, <2>2, <2>3, <2>4 DEF IInv, TypeOK, PhaseStatuses
<1>4. Locked' /\ Counting'
  BY <1>1 DEF IInv, Locked, Counting
<1>5. ASSUME Undisturbed' PROVE RunningIsHeld' /\ Recording' /\ CompletedIsAccounted'
  <2>1. RunningIsHeld' /\ CompletedIsAccounted'
    BY <1>1, <1>2, <1>5, OthersKeep
  <2>2. Recording'
    BY <1>1, <1>2, PhasesAre, SkippableIsSeq DEF Recording, After, Skipping, HasWord
  <2> QED
    BY <2>1, <2>2
<1> QED
  BY <1>3, <1>4, <1>5 DEF IInv

LEMMA SkipPhaseKeeps ==
  ASSUME IInv, SkipPhase
  PROVE  IInv'
<1> USE DEF SkipPhase, bounds
<1>1. /\ runId \in Seconds /\ holder # NoTrigger /\ "skipped" \in PhaseStatuses
      /\ Head(skip) \in Phases /\ Tail(skip) \in Seq(Phases)
  BY DEF IInv, TypeOK, Locked, PhaseStatuses, Skipping
<1>2. /\ phase' \in [Seconds -> [Phases -> PhaseStatuses]]
      /\ \A s \in Seconds, q \in Phases :
           phase'[s][q] = IF s = runId /\ q = Head(skip) THEN "skipped" ELSE phase[s][q]
      /\ \A s \in Seconds : s # runId => phase'[s] = phase[s]
  BY <1>1, BecomesRecords
<1>3. TypeOK'
  BY <1>1, <1>2 DEF IInv, TypeOK, PhaseStatuses
<1>4. Locked' /\ Counting'
  BY <1>1 DEF IInv, Locked, Counting, Skipping
<1>5. ASSUME Undisturbed' PROVE RunningIsHeld' /\ Recording' /\ CompletedIsAccounted'
  <2>1. Undisturbed /\ RunningIsHeld' /\ CompletedIsAccounted'
    BY <1>1, <1>2, <1>5, OthersKeep
  <2>2. ASSUME NEW ph \in Phases, ~ HasWord(runId, ph)'
        PROVE  \E k \in DOMAIN skip' : skip'[k] = ph
    <3>1. ~ HasWord(runId, ph) /\ ph # Head(skip)
      BY <1>1, <1>2, <2>2 DEF HasWord
    <3>2. PICK k \in DOMAIN skip : skip[k] = ph
      BY <2>1, <3>1 DEF IInv, Recording
    <3>3. skip \in Seq(Phases) /\ skip # <<>> /\ k # 1
      BY <3>1, <3>2 DEF IInv, TypeOK
    <3>4. k - 1 \in DOMAIN Tail(skip) /\ Tail(skip)[k - 1] = skip[k]
      BY <3>2, <3>3
    <3> QED
      BY <3>2, <3>4
  <2>3. Recording'
    BY <1>1, <2>2, PhasesAre DEF Recording, After, Skipping, HasWord
  <2> QED
    BY <2>1, <2>3
<1> QED
  BY <1>3, <1>4, <1>5 DEF IInv

LEMMA AllSkippedKeeps ==
  ASSUME IInv, AllSkipped
  PROVE  IInv'
<1> USE DEF AllSkipped, Release, Goto, bounds
<1>1. /\ runId \in Seconds /\ holder # NoTrigger
      /\ at \in {"skip_failed", "skip_completed", "skip_return"} /\ skip = <<>>
      /\ at = "skip_return" => row[runId] = "failed"
  BY DEF IInv, Locked, Skipping
<1>2. \A s \in Seconds : row'[s] = IF s # runId THEN row[s]
                                    ELSE IF at = "skip_completed" THEN "completed" ELSE "failed"
  BY <1>1 DEF IInv, TypeOK
<1>3. TypeOK'
  <2>1. row' \in [Seconds -> {"none", "running", "completed", "failed"}]
    BY <1>1 DEF IInv, TypeOK
  <2>2. at' \in Steps /\ begun' \in BOOLEAN /\ holder' \in Triggers \union {NoTrigger}
    BY DEF Steps
  <2> QED
    BY <2>1, <2>2 DEF IInv, TypeOK
<1>4. Locked' /\ Counting'
  BY DEF Locked, Counting
<1>5. ASSUME Undisturbed' PROVE RunningIsHeld' /\ Recording' /\ CompletedIsAccounted'
  <2>1. Undisturbed
    BY <1>5 DEF Undisturbed
  <2>2. \A ph \in Phases : HasWord(runId, ph)
    BY <1>1, <2>1 DEF IInv, Recording, Skipping
  <2>3. RunningIsHeld'
    BY <1>1, <1>2, <2>1 DEF IInv, RunningIsHeld, Over
  <2>4. CompletedIsAccounted'
    BY <1>1, <1>2, <2>1, <2>2 DEF IInv, CompletedIsAccounted, Over, HasWord
  <2>5. Recording'
    BY PhasesAre DEF Recording, After, Skipping
  <2> QED
    BY <2>3, <2>4, <2>5
<1> QED
  BY <1>3, <1>4, <1>5 DEF IInv

-----------------------------------------------------------------------------
(* A phase ends, and the run goes on to the next one in line.              *)
LEMMA PhaseEndKeeps ==
  ASSUME IInv, NEW ph, NEW next, NEW st \in {"done", "failed", "skipped"},
         << ph, next >> \in
           { <<"aggregate", "review">>, <<"review", "review">>, <<"review", "persist">>,
             <<"persist", "deep_report">>, <<"deep_report", "end">>, <<"backup", "schedule">> },
         PhaseEnds(ph, st), Goto(next), round' \in 0..MAX_ROUNDS,
         UNCHANGED <<now, fired, queue, holder, analyzer, count, analyzed, skip, runId, row,
                     collected, bounds>>
  PROVE  IInv'
<1> USE DEF PhaseEnds, Goto, bounds
<1>1. /\ runId \in Seconds /\ holder # NoTrigger /\ ph \in Phases /\ st \in PhaseStatuses
      /\ next = "schedule" => row[runId] = "completed"
  BY PhasesAre DEF IInv, Locked, PhaseStatuses
<1>2. /\ phase' \in [Seconds -> [Phases -> PhaseStatuses]]
      /\ \A s \in Seconds, q \in Phases :
           phase'[s][q] = IF s = runId /\ q = ph THEN st ELSE phase[s][q]
      /\ \A s \in Seconds : s # runId => phase'[s] = phase[s]
  BY <1>1, BecomesRecords
<1>3. TypeOK'
  <2>1. at' \in Steps /\ begun' \in BOOLEAN
    BY DEF Steps, Recorded
  <2> QED
    BY <1>2, <2>1 DEF IInv, TypeOK, PhaseStatuses
<1>4. Locked' /\ Counting'
  BY <1>1 DEF Locked, Counting
<1>5. ASSUME Undisturbed' PROVE RunningIsHeld' /\ Recording' /\ CompletedIsAccounted'
  <2>1. Undisturbed /\ RunningIsHeld' /\ CompletedIsAccounted'
    BY <1>1, <1>2, <1>5, OthersKeep
  <2>2. \A q \in Phases : next \in After[q] => q = ph \/ HasWord(runId, q)
    BY <2>1, PhasesAre DEF IInv, Recording, After
  <2>3. Recording'
    BY <1>1, <1>2, <2>2 DEF Recording, Skipping, HasWord
  <2> QED
    BY <2>1, <2>3
<1> QED
  BY <1>3, <1>4, <1>5 DEF IInv

LEMMA LinearPhasesKeep ==
  ASSUME IInv, AggregateDone \/ ReviewDone \/ PersistDone \/ DeepReportDone \/ BackupDone
  PROVE  IInv'
<1>1. round \in 0..MAX_ROUNDS
  BY DEF IInv, TypeOK
<1>2. CASE AggregateDone
  BY <1>1, <1>2, PhaseEndKeeps DEF AggregateDone
<1>3. CASE ReviewDone
  <2>1. round' \in 0..MAX_ROUNDS
    BY <1>1, <1>3 DEF ReviewDone, RetryWanted, MAX_ROUNDS
  <2> QED
    BY <1>3, <2>1, PhaseEndKeeps DEF ReviewDone
<1>4. CASE PersistDone
  BY <1>1, <1>4, PhaseEndKeeps DEF PersistDone
<1>5. CASE DeepReportDone
  BY <1>1, <1>5, PhaseEndKeeps DEF DeepReportDone
<1>6. CASE BackupDone
  BY <1>1, <1>6, PhaseEndKeeps DEF BackupDone
<1> QED
  BY <1>2, <1>3, <1>4, <1>5, <1>6

-----------------------------------------------------------------------------
LEMMA RouteDoneKeeps ==
  ASSUME IInv, RouteDone
  PROVE  IInv'
<1> USE DEF RouteDone, PhaseEnds, Goto, bounds
<1>1. /\ runId \in Seconds /\ holder # NoTrigger /\ "route" \in Phases
      /\ "done" \in PhaseStatuses /\ count = 0
  BY PhasesAre DEF IInv, Locked, Counting, PhaseStatuses
<1>2. /\ phase' \in [Seconds -> [Phases -> PhaseStatuses]]
      /\ \A s \in Seconds, q \in Phases :
           phase'[s][q] = IF s = runId /\ q = "route" THEN "done" ELSE phase[s][q]
      /\ \A s \in Seconds : s # runId => phase'[s] = phase[s]
  BY <1>1, BecomesRecords
<1>3. PICK S \in (SUBSET Analyzers) \ {{}} :
        analyzer' = [a \in Analyzers |-> IF a \in S THEN "sent" ELSE "off"]
  OBVIOUS
<1>4. TypeOK'
  <2>1. at' \in Steps /\ begun' \in BOOLEAN
    BY DEF Steps
  <2>2. analyzer' \in [Analyzers -> {"off", "sent", "running", "done"}]
    BY <1>3
  <2> QED
    BY <1>2, <2>1, <2>2 DEF IInv, TypeOK, PhaseStatuses
<1>5. Locked'
  BY <1>1 DEF IInv, Locked
<1>6. Counting'
  <2>1. {a \in Analyzers : analyzer'[a] = "running"} = {}
    BY <1>3
  <2>2. \A a \in Analyzers : analyzer'[a] # "done"
    BY <1>3
  <2>3. PICK a \in Analyzers : a \in S
    BY <1>3
  <2>4. analyzer'[a] # "off"
    BY <1>3, <2>3
  <2> QED
    BY <1>1, <2>1, <2>2, <2>4, FS_EmptySet DEF Counting
<1>7. ASSUME Undisturbed' PROVE RunningIsHeld' /\ Recording' /\ CompletedIsAccounted'
  <2>1. Undisturbed /\ RunningIsHeld' /\ CompletedIsAccounted'
    BY <1>1, <1>2, <1>7, OthersKeep
  <2>2. Recording'
    BY <1>1, <1>2, <2>1, PhasesAre DEF IInv, Recording, After, Skipping, HasWord
  <2> QED
    BY <2>1, <2>2
<1> QED
  BY <1>4, <1>5, <1>6, <1>7 DEF IInv

(* What the analyzers of a superstep record is their phase only.           *)
LEMMA AnalyzePhase ==
  ASSUME IInv, at = "analyze",
         Becomes("analyze", "running") \/ Becomes("analyze", "done") \/ UNCHANGED phase
  PROVE  /\ runId \in Seconds /\ holder # NoTrigger
         /\ phase' \in [Seconds -> [Phases -> PhaseStatuses]]
         /\ \A s \in Seconds, q \in Phases : s # runId \/ q # "analyze" => phase'[s][q] = phase[s][q]
         /\ \A s \in Seconds : s # runId => phase'[s] = phase[s]
         /\ Becomes("analyze", "done") => phase'[runId]["analyze"] = "done"
<1>1. /\ runId \in Seconds /\ holder # NoTrigger /\ "analyze" \in Phases
      /\ "running" \in PhaseStatuses /\ "done" \in PhaseStatuses
  BY PhasesAre DEF IInv, Locked, PhaseStatuses
<1>2. CASE Becomes("analyze", "running") /\ ~ Becomes("analyze", "done")
  BY <1>1, <1>2, BecomesRecords
<1>3. CASE Becomes("analyze", "done")
  BY <1>1, <1>3, BecomesRecords
<1>4. CASE UNCHANGED phase /\ ~ Becomes("analyze", "done")
  BY <1>1, <1>4 DEF IInv, TypeOK, PhaseStatuses
<1> QED
  BY <1>2, <1>3, <1>4

LEMMA AnalyzerStartsKeeps ==
  ASSUME IInv, NEW a \in Analyzers, AnalyzerStarts(a)
  PROVE  IInv'
<1> USE DEF AnalyzerStarts, bounds
<1> DEFINE Running(f) == {b \in Analyzers : f[b] = "running"}
<1>1. /\ runId \in Seconds /\ holder # NoTrigger
      /\ phase' \in [Seconds -> [Phases -> PhaseStatuses]]
      /\ \A s \in Seconds, q \in Phases : s # runId \/ q # "analyze" => phase'[s][q] = phase[s][q]
      /\ \A s \in Seconds : s # runId => phase'[s] = phase[s]
  <2>1. Becomes("analyze", "running") \/ UNCHANGED phase
    OBVIOUS
  <2> QED
    BY <2>1, AnalyzePhase
<1>2. /\ count \in Nat /\ count = Cardinality(Running(analyzer)) /\ count' = count + 1
      /\ analyzer \in [Analyzers -> {"off", "sent", "running", "done"}]
  BY DEF IInv, TypeOK, Counting
<1>3. Cardinality(Running(analyzer')) = count'
  <2>1. Running(analyzer') = Running(analyzer) \union {a} /\ a \notin Running(analyzer)
    BY <1>2
  <2> QED
    BY <1>2, <2>1, RunningFinite, FS_AddElement
<1>4. TypeOK'
  <2>1. analyzer' \in [Analyzers -> {"off", "sent", "running", "done"}] /\ count' \in Nat
    BY <1>2
  <2> QED
    BY <1>1, <2>1 DEF IInv, TypeOK, PhaseStatuses
<1>5. Locked'
  BY DEF IInv, Locked
<1>6. Counting'
  BY <1>2, <1>3 DEF Counting
<1>7. ASSUME Undisturbed' PROVE RunningIsHeld' /\ Recording' /\ CompletedIsAccounted'
  <2>1. Undisturbed /\ RunningIsHeld' /\ CompletedIsAccounted'
    BY <1>1, <1>7, OthersKeep
  <2>2. Recording'
    BY <1>1, <2>1, PhasesAre DEF IInv, Recording, After, Skipping, HasWord
  <2> QED
    BY <2>1, <2>2
<1> QED
  BY <1>4, <1>5, <1>6, <1>7 DEF IInv

LEMMA AnalyzerEndsKeeps ==
  ASSUME IInv, NEW a \in Analyzers, AnalyzerEnds(a)
  PROVE  IInv'
<1> USE DEF AnalyzerEnds, bounds
<1> DEFINE Running(f) == {b \in Analyzers : f[b] = "running"}
<1>1. /\ runId \in Seconds /\ holder # NoTrigger
      /\ phase' \in [Seconds -> [Phases -> PhaseStatuses]]
      /\ \A s \in Seconds, q \in Phases : s # runId \/ q # "analyze" => phase'[s][q] = phase[s][q]
      /\ \A s \in Seconds : s # runId => phase'[s] = phase[s]
      /\ count' = 0 => phase'[runId]["analyze"] = "done"
  <2>1. IF count' = 0 THEN Becomes("analyze", "done") ELSE UNCHANGED phase
    OBVIOUS
  <2> QED
    BY <2>1, AnalyzePhase
<1>2. /\ count \in Nat /\ count = Cardinality(Running(analyzer)) /\ count' = count - 1
      /\ analyzer \in [Analyzers -> {"off", "sent", "running", "done"}]
  BY DEF IInv, TypeOK, Counting
<1>3. Cardinality(Running(analyzer')) = count' /\ count' \in Nat
  <2>1. Running(analyzer') = Running(analyzer) \ {a} /\ a \in Running(analyzer)
    BY <1>2
  <2>2. IsFiniteSet(Running(analyzer)) /\ IsFiniteSet(Running(analyzer'))
    BY RunningFinite
  <2>3. Cardinality(Running(analyzer')) \in Nat
    BY <2>2, FS_CardinalityType
  <2>4. Cardinality(Running(analyzer')) = Cardinality(Running(analyzer)) - 1
    BY <2>1, <2>2, FS_RemoveElement
  <2> QED
    BY <1>2, <2>3, <2>4
<1>4. TypeOK'
  <2>1. /\ analyzer' \in [Analyzers -> {"off", "sent", "running", "done"}]
        /\ analyzed' \in BOOLEAN
    BY <1>2 DEF IInv, TypeOK
  <2> QED
    BY <1>1, <1>3, <2>1 DEF IInv, TypeOK, PhaseStatuses
<1>5. Locked'
  BY DEF IInv, Locked
<1>6. Counting'
  <2>1. \E b \in Analyzers : analyzer'[b] # "off"
    BY <1>2
  <2> QED
    BY <1>1, <1>3, <2>1 DEF Counting
<1>7. ASSUME Undisturbed' PROVE RunningIsHeld' /\ Recording' /\ CompletedIsAccounted'
  <2>1. Undisturbed /\ RunningIsHeld' /\ CompletedIsAccounted'
    BY <1>1, <1>7, OthersKeep
  <2>2. Recording'
    BY <1>1, <2>1, PhasesAre DEF IInv, Recording, After, Skipping, HasWord
  <2> QED
    BY <2>1, <2>2
<1> QED
  BY <1>4, <1>5, <1>6, <1>7 DEF IInv

LEMMA AnalyzersJoinKeeps ==
  ASSUME IInv, AnalyzersJoin
  PROVE  IInv'
<1> USE DEF AnalyzersJoin, Goto, rows, bounds
<1>1. runId \in Seconds /\ holder # NoTrigger
  BY DEF IInv, Locked
<1>2. phase[runId]["analyze"] = "done"
  <2>1. {a \in Analyzers : analyzer[a] = "running"} = {}
    OBVIOUS
  <2>2. \E a \in Analyzers : analyzer[a] = "done"
    BY DEF IInv, Counting
  <2> QED
    BY <2>1, <2>2, FS_EmptySet DEF IInv, Counting
<1>3. TypeOK'
  BY DEF IInv, TypeOK, Steps, Recorded
<1>4. Locked' /\ Counting'
  BY <1>1 DEF Locked, Counting
<1>5. ASSUME Undisturbed' PROVE RunningIsHeld' /\ Recording' /\ CompletedIsAccounted'
  <2>1. Undisturbed /\ RunningIsHeld' /\ CompletedIsAccounted'
    BY <1>1, <1>5, OthersKeep
  <2>2. Recording'
    BY <1>1, <1>2, <2>1, PhasesAre DEF IInv, Recording, After, Skipping, HasWord
  <2> QED
    BY <2>1, <2>2
<1> QED
  BY <1>3, <1>4, <1>5 DEF IInv

-----------------------------------------------------------------------------
LEMMA EndRunKeeps ==
  ASSUME IInv, EndRun
  PROVE  IInv'
<1> USE DEF EndRun, Goto, bounds
<1>1. runId \in Seconds /\ holder # NoTrigger
  BY DEF IInv, Locked
<1>2. /\ row' \in [Seconds -> {"none", "running", "completed", "failed"}]
      /\ \A s \in Seconds : s # runId => row'[s] = row[s]
      /\ row'[runId] = IF analyzed THEN "completed" ELSE "failed"
  BY <1>1 DEF IInv, TypeOK
<1>3. TypeOK'
  <2>1. at' \in Steps /\ begun' \in BOOLEAN
    BY DEF Steps, Recorded, Skipping
  <2>2. skip \in Seq(Phases) /\ <<"backup", "build">> \in Seq(Phases)
    BY PhasesAre DEF IInv, TypeOK
  <2>3. skip' \in {skip, <<"backup", "build">>}
    OBVIOUS
  <2> QED
    BY <1>2, <2>1, <2>2, <2>3 DEF IInv, TypeOK
<1>4. Locked' /\ Counting'
  BY <1>1, <1>2 DEF Locked, Counting
<1>5. ASSUME Undisturbed' PROVE RunningIsHeld' /\ Recording' /\ CompletedIsAccounted'
  <2>1. Undisturbed /\ RunningIsHeld' /\ CompletedIsAccounted'
    BY <1>1, <1>2, <1>5, OthersKeep
  <2>2. \A ph \in Phases : ph \notin {"backup", "build"} => HasWord(runId, ph)
    BY <2>1, PhasesAre DEF IInv, Recording, After
  <2>3. ASSUME analyzed PROVE Recording'
    BY <2>2, <2>3, PhasesAre DEF Recording, After, Skipping, HasWord
  <2>4. ASSUME ~ analyzed PROVE Recording'
    <3>1. skip' = <<"backup", "build">> /\ at' = "skip_return" /\ runId' = runId /\ phase' = phase
      BY <2>4
    <3>2. /\ 1 \in DOMAIN skip' /\ skip'[1] = "backup"
          /\ 2 \in DOMAIN skip' /\ skip'[2] = "build"
      BY <3>1
    <3>3. \A ph \in Phases : HasWord(runId, ph)' \/ \E k \in DOMAIN skip' : skip'[k] = ph
      BY <2>2, <3>1, <3>2 DEF HasWord
    <3> QED
      BY <3>1, <3>3, PhasesAre DEF Recording, After
  <2> QED
    BY <2>1, <2>3, <2>4
<1> QED
  BY <1>3, <1>4, <1>5 DEF IInv

LEMMA BackupFailsKeeps ==
  ASSUME IInv, BackupFails
  PROVE  IInv'
<1> USE DEF BackupFails, PhaseEnds
<1>1. runId \in Seconds /\ "backup" \in Phases /\ "failed" \in PhaseStatuses
  BY PhasesAre DEF IInv, Locked, PhaseStatuses
<1>2. /\ phase' \in [Seconds -> [Phases -> PhaseStatuses]]
      /\ \A s \in Seconds : s # runId => phase'[s] = phase[s]
  BY <1>1, BecomesRecords
<1>3. skip' \in Seq(Phases) /\ analyzer' \in [Analyzers -> {"off", "sent", "running", "done"}]
  BY DEF IInv, TypeOK
<1> QED
  BY <1>2, <1>3, FailureKeeps

LEMMA ScheduledKeeps ==
  ASSUME IInv, Scheduled
  PROVE  IInv'
<1> USE DEF Scheduled, Release, Goto, bounds
<1>1. /\ runId \in Seconds /\ holder # NoTrigger /\ row[runId] = "completed"
      /\ "build" \in Phases /\ "queued" \in PhaseStatuses
  BY PhasesAre DEF IInv, Locked, PhaseStatuses
<1>2. /\ phase' \in [Seconds -> [Phases -> PhaseStatuses]]
      /\ \A s \in Seconds, q \in Phases :
           phase'[s][q] = IF s = runId /\ q = "build" THEN "queued" ELSE phase[s][q]
  BY <1>1, BecomesRecords
<1>3. TypeOK'
  BY <1>2 DEF IInv, TypeOK, PhaseStatuses, Steps
<1>4. Locked' /\ Counting'
  BY DEF Locked, Counting
<1>5. ASSUME Undisturbed' PROVE RunningIsHeld' /\ Recording' /\ CompletedIsAccounted'
  <2>1. Undisturbed
    BY <1>5 DEF Undisturbed
  <2>2. \A ph \in Phases : ph = "build" \/ HasWord(runId, ph)
    BY <2>1, PhasesAre DEF IInv, Recording, After
  <2>3. RunningIsHeld'
    BY <1>1, <2>1 DEF IInv, RunningIsHeld, Over
  <2>4. CompletedIsAccounted'
    BY <1>1, <1>2, <2>1, <2>2 DEF IInv, CompletedIsAccounted, Over, HasWord
  <2>5. Recording'
    BY PhasesAre DEF Recording, After, Skipping
  <2> QED
    BY <2>3, <2>4, <2>5
<1> QED
  BY <1>3, <1>4, <1>5 DEF IInv

LEMMA StepFailsKeeps ==
  ASSUME IInv, StepFails
  PROVE  IInv'
<1>1. /\ skip' \in Seq(Phases) /\ analyzer' \in [Analyzers -> {"off", "sent", "running", "done"}]
      /\ phase' \in [Seconds -> [Phases -> PhaseStatuses]] /\ phase' = phase
  BY DEF StepFails, IInv, TypeOK, PhaseStatuses
<1> QED
  BY <1>1, FailureKeeps DEF StepFails

LEMMA TickKeeps ==
  ASSUME IInv, Tick
  PROVE  IInv'
<1> USE DEF Tick, run, rows, bounds
<1>1. TypeOK'
  <2>1. now' \in Seconds
    BY PipelineAssumption DEF IInv, TypeOK, Seconds
  <2> QED
    BY <2>1 DEF IInv, TypeOK
<1>2. Locked' /\ Counting'
  BY DEF IInv, Locked, Counting
<1>3. Undisturbed' => RunningIsHeld' /\ Recording' /\ CompletedIsAccounted'
  BY DEF IInv, Undisturbed, RunningIsHeld, Recording, CompletedIsAccounted, HasWord, Over
<1> QED
  BY <1>1, <1>2, <1>3 DEF IInv

LEMMA CrashKeeps ==
  ASSUME IInv, Crash
  PROVE  IInv'
<1> USE DEF Crash, Goto, rows
<1>1. crashes' \in 0..MaxCrashes /\ crashes' # 0
  BY PipelineAssumption DEF IInv, TypeOK
<1>2. TypeOK'
  <2>1. at' \in Steps /\ begun' \in BOOLEAN /\ analyzed' \in BOOLEAN
    BY DEF Steps
  <2>2. round' \in 0..MAX_ROUNDS /\ count' \in Nat
    BY DEF MAX_ROUNDS
  <2>3. analyzer' \in [Analyzers -> {"off", "sent", "running", "done"}]
    OBVIOUS
  <2>4. queue' \in Seq(Triggers) /\ skip' \in Seq(Phases)
    OBVIOUS
  <2> QED
    BY <1>1, <2>1, <2>2, <2>3, <2>4 DEF IInv, TypeOK
<1>3. Locked' /\ Counting'
  BY DEF Locked, Counting
<1> QED
  BY <1>1, <1>2, <1>3 DEF IInv, Undisturbed

LEMMA StandsStill ==
  ASSUME IInv, UNCHANGED vars
  PROVE  IInv'
<1> USE DEF vars, run, rows, bounds
<1>1. TypeOK' /\ Locked' /\ Counting'
  BY DEF IInv, TypeOK, Locked, Counting
<1>2. Undisturbed' => RunningIsHeld' /\ Recording' /\ CompletedIsAccounted'
  BY DEF IInv, Undisturbed, RunningIsHeld, Recording, CompletedIsAccounted, HasWord, Over
<1> QED
  BY <1>1, <1>2 DEF IInv

-----------------------------------------------------------------------------
LEMMA NextInvariant == IInv /\ [Next]_vars => IInv'
<1> SUFFICES ASSUME IInv, [Next]_vars PROVE IInv'
  OBVIOUS
<1>1. CASE Fire \/ Acquire \/ Tick \/ Crash
  BY <1>1, FireKeeps, AcquireKeeps, TickKeeps, CrashKeeps
<1>2. CASE StartRun \/ PhaseBegins
  BY <1>2, StartRunKeeps, PhaseBeginsKeeps
<1>3. CASE CollectDone \/ SkipPhase \/ AllSkipped
  BY <1>3, CollectDoneKeeps, SkipPhaseKeeps, AllSkippedKeeps
<1>4. CASE RouteDone \/ AnalyzersJoin
  BY <1>4, RouteDoneKeeps, AnalyzersJoinKeeps
<1>5. ASSUME NEW a \in Analyzers, AnalyzerStarts(a) \/ AnalyzerEnds(a) PROVE IInv'
  BY <1>5, AnalyzerStartsKeeps, AnalyzerEndsKeeps
<1>6. CASE AggregateDone \/ ReviewDone \/ PersistDone \/ DeepReportDone \/ BackupDone
  BY <1>6, LinearPhasesKeep
<1>7. CASE EndRun \/ BackupFails \/ Scheduled \/ StepFails
  BY <1>7, EndRunKeeps, BackupFailsKeeps, ScheduledKeeps, StepFailsKeeps
<1>8. CASE Idle \/ UNCHANGED vars
  BY <1>8, StandsStill DEF Idle
<1> QED
  BY <1>1, <1>2, <1>3, <1>4, <1>5, <1>6, <1>7, <1>8 DEF Next, RunStep

(* What of a run's row and phases is always so, for any number of triggers *)
(* and analyzers.                                                          *)
THEOREM Invariance == Spec => []IInv
<1> QED
  BY InitInvariant, NextInvariant, PTL DEF Spec

(* The variables of run_pipeline and the tables it writes keep their types:*)
(* _analyzer_count never goes below zero.                                  *)
THEOREM TypeCorrect == Spec => []TypeOK
<1>1. IInv => TypeOK
  BY DEF IInv
<1> QED
  BY <1>1, Invariance, PTL

(* No exit of run_pipeline forgets to end its run.                         *)
THEOREM RunningIsHeldAlways == Spec => []RunningIsHeld
<1>1. IInv => RunningIsHeld
  BY DEF IInv, RunningIsHeld
<1> QED
  BY <1>1, Invariance, PTL

(* Every exit of run_pipeline that completes a run has recorded the last   *)
(* word on every phase, however many analyzers share the counter.          *)
THEOREM CompletedIsAccountedAlways == Spec => []CompletedIsAccounted
<1>1. IInv => CompletedIsAccounted
  BY DEF IInv, CompletedIsAccounted
<1> QED
  BY <1>1, Invariance, PTL

(* The verdict on a run is changed by that run alone, or by one that       *)
(* starts in the same second: the except clause finds no other run's id.   *)
THEOREM EndedIsFinalAlways == Spec => EndedIsFinal
<1> DEFINE Final ==
      \A s \in Seconds :
        row[s] \in {"completed", "failed"} /\ row'[s] # row[s]
          => runId' = s /\ (at = "sync" => now = s)
<1>1. IInv /\ [Next]_vars => [Final]_vars
  <2> SUFFICES ASSUME IInv, Next PROVE Final
    OBVIOUS
  <2>1. CASE StartRun
    BY <2>1 DEF StartRun, HandleFailure, IInv, TypeOK
  <2>2. CASE AllSkipped \/ EndRun
    BY <2>2 DEF AllSkipped, EndRun, IInv, TypeOK, Locked, Skipping
  <2>3. CASE BackupFails \/ StepFails
    BY <2>3, PipelineAssumption
       DEF BackupFails, StepFails, PhaseEnds, HandleFailure, IInv, TypeOK, Locked, Seconds, NoRun
  <2>4. CASE UNCHANGED row
    BY <2>4
  <2> QED
    BY <2>1, <2>2, <2>3, <2>4
       DEF Next, RunStep, Fire, Acquire, PhaseBegins, CollectDone, SkipPhase, RouteDone,
           AnalyzersJoin, AnalyzerStarts, AnalyzerEnds, AggregateDone, ReviewDone, PersistDone,
           DeepReportDone, BackupDone, Scheduled, Tick, Crash, Idle, rows, vars
<1> QED
  BY <1>1, Invariance, PTL DEF Spec, EndedIsFinal
=============================================================================
