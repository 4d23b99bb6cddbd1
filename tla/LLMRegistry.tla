---------------------------- MODULE LLMRegistry ----------------------------
(***************************************************************************)
(* The LLM registry shared by the whole process (src/core/llm_client.py):  *)
(* one circuit breaker per provider, one daily budget, and the pipeline    *)
(* runs that spend it.  Analyzers take their client before they wait for a *)
(* slot, reviewers after; costs are kept in the run's memory until the run *)
(* is persisted, and the budget is set from cost_logs when a run starts.   *)
(*                                                                         *)
(* A call that is answered costs one unit, one that is not costs nothing.  *)
(***************************************************************************)
EXTENDS Naturals, Sequences, FiniteSets, FiniteSetsExt

CONSTANTS
  Providers, NoProvider,
  Items,               \* new items of a run (their urls)
  Analyzers,           \* the analyzer agents: github, rss, feishu, arxiv
  AnalyzerOf,          \* AnalyzerOf[i]: the analyzer item i is routed to
  Chain,               \* Chain[agent]: its primary provider, then its fallbacks
  Slots,               \* Slots[agent]: its configured concurrency
  BASE_COOLDOWN, MAX_COOLDOWN, FAILURE_THRESHOLD,
  SOFT, HARD,          \* daily_limit times soft_limit and hard_limit
  MaxRuns, MaxDays, MaxCrashes,
  DatabaseMayFail      \* whether saving a cost may raise

Reviewer == "reviewer"
DeepReport == "deep_report"
Agents == Analyzers \union {Reviewer, DeepReport}
Candidate == "candidate"     \* the repository of the deep report stage
Jobs == Items \union {Candidate}
Runs == 1..MaxRuns
Days == 1..MaxDays
MAX_RETRIES == 2

ASSUME AgentAssumption ==
  /\ AnalyzerOf \in [Items -> Analyzers]
  /\ Chain \in [Agents -> Seq(Providers)] /\ \A a \in Agents : Chain[a] # <<>>
  /\ Slots \in [Agents -> Nat \ {0}]
ASSUME NameAssumption ==
  /\ Candidate \notin Items
  /\ Analyzers \intersect {Reviewer, DeepReport} = {}
  /\ NoProvider \notin Providers \union [provider : Providers, attempt : 1..2]
ASSUME BreakerAssumption ==
  /\ BASE_COOLDOWN \in Nat \ {0} /\ MAX_COOLDOWN \in Nat /\ FAILURE_THRESHOLD \in Nat \ {0}
  /\ BASE_COOLDOWN <= MAX_COOLDOWN /\ MAX_COOLDOWN <= 16 * BASE_COOLDOWN
ASSUME ItemsAssumption == IsFiniteSet(Items)
ASSUME LimitAssumption == SOFT \in Nat /\ HARD \in Nat /\ SOFT <= HARD
ASSUME BoundAssumption ==
  MaxRuns \in Nat \ {0} /\ MaxDays \in Nat \ {0} /\ MaxCrashes \in Nat /\ DatabaseMayFail \in BOOLEAN

VARIABLES
  health,    \* health._state, as in HealthTracker
  spend,     \* budget._daily_spend["__global__"] of the current date
  today,     \* the date in Beijing
  costLogs,  \* table cost_logs: its rows, of one unit each
  run,       \* number of the last run started
  phase,     \* where that run is
  round,     \* its review round: 0 in the graph, then the retry rounds
  task,      \* task[r][j]: the coroutine of run r working on j
  analyzed,  \* items the current run has analyzed
  again,     \* items whose last verdict is retry
  unsaved,   \* cost_records of the current run not in cost_logs yet
  outcome,   \* pipeline_runs.status
  crashes,
  \* History, which no action reads:
  spent,     \* spent[r]: the answered calls of run r
  malformed, \* malformed[r]: those of them that no record was made of
  spentToday,\* the answered calls of the current date, of every run
  lost       \* its calls without a record, and the records lost in it

memory == <<health, spend, phase, round, task, analyzed, again, unsaved>>
tallies == <<spent, malformed, spentToday>>
history == <<tallies, lost>>
vars == <<memory, today, costLogs, run, outcome, crashes, history>>

Phases == {"idle", "analyze", "review", "persist", "deep_report", "deep_save"}
Outcomes == {"none", "running", "completed", "failed"}

NoTask == [at |-> "none", agent |-> Reviewer, provider |-> NoProvider, attempt |-> 1]
Task == [ at       : {"none", "asking", "waiting", "calling", "ended"},
          agent    : Agents,
          provider : Providers \union {NoProvider},
          attempt  : 1..2 ]

\* A row's id is its place in the table; the day is the one of the INSERT.
Row == [id : Nat \ {0}, run : Runs, day : Days]
RowsOf(r) == {x \in costLogs : x.run = r}

HT == INSTANCE HealthTracker WITH
  Callers <- Runs \X Jobs,
  ReportCallers <- Runs \X {Candidate},
  NoCall <- NoProvider,
  calling <- [c \in Runs \X Jobs |->
               LET t == task[c[1]][c[2]]
               IN  IF t.at \in {"waiting", "calling"} /\ t.provider # NoProvider
                     THEN [provider |-> t.provider, attempt |-> t.attempt]
                     ELSE NoProvider]

TypeOK ==
  /\ health \in [Providers -> HT!Health]
  /\ {spend, unsaved, spentToday, lost} \subseteq Nat
  /\ today \in Days
  /\ costLogs \subseteq Row
  /\ {spent, malformed} \subseteq [Runs -> Nat]
  /\ run \in 0..MaxRuns
  /\ phase \in Phases
  /\ round \in 0..MAX_RETRIES
  /\ task \in [Runs -> [Jobs -> Task]]
  /\ analyzed \subseteq Items /\ again \subseteq analyzed
  /\ outcome \in [Runs -> Outcomes]
  /\ crashes \in 0..MaxCrashes

-----------------------------------------------------------------------------
(***************************************************************************)
(* get_client: the provider the registry would hand out to an agent now.   *)
(***************************************************************************)
HardExceeded == spend >= HARD
SoftExceeded == spend >= SOFT

Candidates(agent) ==
  IF SoftExceeded /\ Len(Chain[agent]) > 1 THEN Tail(Chain[agent]) ELSE Chain[agent]

\* The places of those that may be asked.
Healthy(agent) ==
  {i \in DOMAIN Candidates(agent) : HT!IsHealthy(health[Candidates(agent)[i]])}

\* Mutant of ClientFor: the hard limit is not looked at.
ClientForUnlimited(agent) ==
  IF Healthy(agent) = {} THEN NoProvider ELSE Candidates(agent)[Min(Healthy(agent))]

ClientFor(agent) ==
  IF HardExceeded \/ Healthy(agent) = {} THEN NoProvider
  ELSE Candidates(agent)[Min(Healthy(agent))]

\* Mutant of HandOut: an open circuit is handed out without becoming a probe.
HandOutNoProbe(p) == UNCHANGED health

\* Handing p out may turn its circuit half open.
HandOut(p) ==
  health' = IF p = NoProvider THEN health ELSE [health EXCEPT ![p] = HT!AfterAsking(@)]

-----------------------------------------------------------------------------
Init ==
  /\ health = [p \in Providers |-> HT!NewProvider]
  /\ spend = 0
  /\ today = 1
  /\ costLogs = {}
  /\ run = 0
  /\ phase = "idle"
  /\ round = 0
  /\ task = [r \in Runs |-> [j \in Jobs |-> NoTask]]
  /\ analyzed = {} /\ again = {}
  /\ unsaved = 0
  /\ outcome = [r \in Runs |-> "none"]
  /\ crashes = 0
  /\ spent = [r \in Runs |-> 0] /\ malformed = spent
  /\ spentToday = 0 /\ lost = 0

(* run_pipeline takes the lock, sets the budget from what cost_logs holds  *)
(* for today, collects, and sends the new items to their analyzers.        *)
LoggedToday == Cardinality({x \in costLogs : x.day = today})

StartRun ==
  /\ phase = "idle" /\ run < MaxRuns
  /\ run' = run + 1
  /\ spend' = LoggedToday
  /\ phase' = "analyze" /\ round' = 0
  /\ task' = [task EXCEPT ![run + 1] =
                [j \in Jobs |-> IF j \in Items
                                  THEN [at |-> "asking", agent |-> AnalyzerOf[j],
                                        provider |-> NoProvider, attempt |-> 1]
                                  ELSE NoTask]]
  /\ analyzed' = {} /\ again' = {} /\ unsaved' = 0
  /\ outcome' = [outcome EXCEPT ![run + 1] = "running"]
  /\ UNCHANGED <<health, today, costLogs, crashes, spent, malformed, spentToday, lost>>

(* An analyzer node starts: every one of its items asks for a client before*)
(* it waits for a slot.  Without one the item is given up.                 *)
AnalyzerStarts(a) ==
  LET p == ClientFor(a)
      mine == {i \in Items : AnalyzerOf[i] = a}
  IN  /\ phase = "analyze"
      /\ mine # {} /\ \A i \in mine : task[run][i].at = "asking"
      /\ HandOut(p)
      /\ task' = [task EXCEPT ![run] =
                    [j \in Jobs |->
                       IF j \notin mine THEN task[run][j]
                       ELSE [task[run][j] EXCEPT !.provider = p,
                               !.at = IF p = NoProvider THEN "ended" ELSE "waiting"]]]
      /\ UNCHANGED <<spend, phase, round, analyzed, again, unsaved,
                     today, costLogs, run, outcome, crashes, history>>

\* The run whose coroutines still have somebody to return their results to.
Live(r) == r = run /\ phase # "idle"

\* Mutant of SlotFree: a coroutine that waits for a slot counts as one that has it.
SlotFreeOfWaiting(r, agent) ==
  Cardinality({j \in Jobs : /\ task[r][j].at \in {"waiting", "calling"}
                            /\ task[r][j].agent = agent})
    < Slots[agent]

SlotFree(r, agent) ==
  Cardinality({j \in Jobs : task[r][j].at = "calling" /\ task[r][j].agent = agent})
    < Slots[agent]

AnalyzerCalls(r, j) ==
  /\ task[r][j].at = "waiting" /\ task[r][j].agent \in Analyzers
  /\ SlotFree(r, task[r][j].agent)
  /\ task' = [task EXCEPT ![r][j].at = "calling"]
  /\ UNCHANGED <<health, spend, phase, round, analyzed, again, unsaved,
                 today, costLogs, run, outcome, crashes, history>>

\* The records a run still has in memory are gone with it.
RecordsLost == unsaved' = 0 /\ lost' = lost + unsaved

\* What the except handler of run_pipeline leaves behind.
RunFails ==
  /\ phase' = "idle"
  /\ outcome' = [outcome EXCEPT ![run] = "failed"]
  /\ RecordsLost

(* A reviewer asks for a client in its slot.  If there is none get_client  *)
(* raises: the gather and with it the run fail, while the other coroutines *)
(* of the gather go on.                                                    *)
ReviewerCalls(r, j) ==
  LET p == ClientFor(Reviewer)
  IN  /\ task[r][j].at = "waiting" /\ task[r][j].agent = Reviewer
      /\ SlotFree(r, Reviewer)
      /\ HandOut(p)
      /\ task' = [task EXCEPT ![r][j].provider = p,
                              ![r][j].at = IF p = NoProvider THEN "ended" ELSE "calling"]
      /\ IF p = NoProvider /\ Live(r)
           THEN RunFails ELSE UNCHANGED <<phase, outcome, unsaved, lost>>
      /\ UNCHANGED <<spend, round, analyzed, again, today, costLogs, run, crashes, tallies>>

-----------------------------------------------------------------------------
\* Mutant of Charged: the records of the retry rounds are not collected.
ChargedInGraphOnly(r, recorded) ==
  LET kept == Live(r) /\ recorded /\ round = 0
  IN  /\ spend' = spend + 1 /\ spentToday' = spentToday + 1
      /\ spent' = [spent EXCEPT ![r] = @ + 1]
      /\ malformed' = IF recorded THEN malformed ELSE [malformed EXCEPT ![r] = @ + 1]
      /\ unsaved' = IF kept THEN unsaved + 1 ELSE unsaved
      /\ lost' = IF kept THEN lost ELSE lost + 1

\* An answered call is charged to the budget, and its record, if one is made
\* of it, goes to a run that is still there.
Charged(r, recorded) ==
  LET kept == Live(r) /\ recorded
  IN  /\ spend' = spend + 1 /\ spentToday' = spentToday + 1
      /\ spent' = [spent EXCEPT ![r] = @ + 1]
      /\ malformed' = IF recorded THEN malformed ELSE [malformed EXCEPT ![r] = @ + 1]
      /\ unsaved' = IF kept THEN unsaved + 1 ELSE unsaved
      /\ lost' = IF kept THEN lost ELSE lost + 1

\* Mutant of AttemptEnds: a third attempt.
AttemptEndsLate(r, j) ==
  task' = [task EXCEPT ![r][j] =
             IF @.attempt <= 2 THEN [@ EXCEPT !.attempt = @ + 1] ELSE [@ EXCEPT !.at = "ended"]]

AttemptEnds(r, j) ==
  task' = [task EXCEPT ![r][j] =
             IF @.attempt = 1 THEN [@ EXCEPT !.attempt = 2] ELSE [@ EXCEPT !.at = "ended"]]

(* The call is answered with something its agent can parse.                *)
Parsed(r, j) ==
  LET t == task[r][j]
  IN  /\ t.at = "calling"
      /\ health' = [health EXCEPT ![t.provider] = HT!AfterSuccess(@)]
      /\ Charged(r, TRUE)
      /\ task' = [task EXCEPT ![r][j].at = "ended"]
      /\ IF ~ Live(r) \/ j = Candidate THEN UNCHANGED <<analyzed, again>>
         ELSE IF t.agent = Reviewer
           THEN again' \in {again \union {j}, again \ {j}} /\ UNCHANGED analyzed
         ELSE analyzed' = analyzed \union {j} /\ UNCHANGED again
      /\ UNCHANGED <<phase, round, today, costLogs, run, outcome, crashes>>

(* The call is answered with something its agent cannot parse.  It costs   *)
(* as much; only the deep report analyzer holds it against the provider.   *)
(* The reviewer records it when its parser raises ValueError or TypeError. *)
(* On another error (dimensions that are a list, a score of Infinity) no   *)
(* record is made.                                                         *)
Unparsed(r, j, recorded) ==
  LET t == task[r][j]
  IN  /\ t.at = "calling" /\ (recorded \/ t.agent = Reviewer)
      /\ health' = [health EXCEPT ![t.provider] =
                      IF j = Candidate THEN HT!AfterFailure(HT!AfterSuccess(@))
                      ELSE HT!AfterSuccess(@)]
      /\ Charged(r, recorded)
      /\ AttemptEnds(r, j)
      /\ again' = IF Live(r) /\ t.agent = Reviewer /\ t.attempt = 2 THEN again \ {j} ELSE again
      /\ UNCHANGED <<phase, round, analyzed, today, costLogs, run, outcome, crashes>>

(* The request fails, or the reviewer's timeout ends it.                   *)
RequestFails(r, j) ==
  LET t == task[r][j]
  IN  /\ t.at = "calling"
      /\ health' = [health EXCEPT ![t.provider] = HT!AfterFailure(@)]
      /\ AttemptEnds(r, j)
      /\ again' = IF Live(r) /\ t.agent = Reviewer /\ t.attempt = 2 THEN again \ {j} ELSE again
      /\ UNCHANGED <<spend, phase, round, analyzed, unsaved,
                     today, costLogs, run, outcome, crashes, history>>

-----------------------------------------------------------------------------
AllEnded == \A j \in Jobs : task[run][j].at \in {"none", "ended"}

(* reviewer_node starts a round with the items in S: it asks for a client  *)
(* to read its parameters and fails without one; items that have used up   *)
(* their retries are discarded without a call.                             *)
ReviewRound(S, n) ==
  LET p == ClientFor(Reviewer)
      called == IF n < MAX_RETRIES THEN S ELSE {}
  IN  /\ HandOut(p)
      /\ IF p = NoProvider
           THEN RunFails /\ UNCHANGED <<round, task, again>>
           ELSE /\ phase' = "review" /\ round' = n
                /\ task' = [task EXCEPT ![run] =
                     [j \in Jobs |-> IF j \in called
                        THEN [NoTask EXCEPT !.at = "waiting"]
                        ELSE task[run][j]]]
                /\ again' = again \ (S \ called)
                /\ UNCHANGED <<outcome, unsaved, lost>>
      /\ UNCHANGED <<spend, analyzed, today, costLogs, run, crashes, tallies>>

AnalyzeDone ==
  /\ phase = "analyze" /\ AllEnded
  /\ IF analyzed = {}
       THEN /\ phase' = "persist"
            /\ UNCHANGED <<health, spend, round, task, analyzed, again, unsaved,
                           today, costLogs, run, outcome, crashes, history>>
       ELSE ReviewRound(analyzed, 0)

ReviewDone ==
  /\ phase = "review" /\ AllEnded
  /\ IF again = {} \/ round = MAX_RETRIES
       THEN /\ phase' = "persist"
            /\ UNCHANGED <<health, spend, round, task, analyzed, again, unsaved,
                           today, costLogs, run, outcome, crashes, history>>
       ELSE ReviewRound(again, round + 1)

\* Mutant of SaveCost: a saved record stays among those to save.
SaveCostAgain ==
  /\ phase \in {"persist", "deep_save"} /\ unsaved > 0
  /\ unsaved' \in {unsaved - 1, unsaved}
  /\ costLogs' = costLogs \union
                   {[id |-> Cardinality(costLogs) + 1, run |-> run, day |-> today]}
  /\ UNCHANGED <<health, spend, phase, round, task, analyzed, again,
                 today, run, outcome, crashes, history>>

(* The persist phase and the deep report stage save one record at a time.  *)
SaveCost ==
  /\ phase \in {"persist", "deep_save"} /\ unsaved > 0
  /\ unsaved' = unsaved - 1
  /\ costLogs' = costLogs \union
                   {[id |-> Cardinality(costLogs) + 1, run |-> run, day |-> today]}
  /\ UNCHANGED <<health, spend, phase, round, task, analyzed, again,
                 today, run, outcome, crashes, history>>

RunCompletes ==
  /\ phase' = "idle"
  /\ outcome' = [outcome EXCEPT ![run] = "completed"]

(* A database error fails the run while it persists; in the deep report    *)
(* stage it only fails the stage.                                          *)
SaveFails ==
  /\ DatabaseMayFail
  /\ \/ phase = "persist" /\ RunFails
     \/ phase = "deep_save" /\ RecordsLost /\ RunCompletes
  /\ UNCHANGED <<health, spend, round, task, analyzed, again,
                 today, costLogs, run, crashes, tallies>>

(* Everything is saved: a run without an analyzed item fails, another one  *)
(* goes to the deep report stage, which may select no candidate or find no *)
(* client for it.                                                          *)
Persisted ==
  /\ phase = "persist" /\ unsaved = 0
  /\ IF analyzed = {} THEN RunFails /\ UNCHANGED <<health, task>>
     ELSE \/ RunCompletes /\ UNCHANGED <<health, task, unsaved, lost>>
          \/ LET p == ClientFor(DeepReport)
             IN  /\ HandOut(p)
                 /\ IF p = NoProvider THEN RunCompletes /\ UNCHANGED task
                    ELSE /\ phase' = "deep_report"
                         /\ task' = [task EXCEPT ![run][Candidate] =
                              [at |-> "calling", agent |-> DeepReport,
                               provider |-> p, attempt |-> 1]]
                         /\ UNCHANGED outcome
                 /\ UNCHANGED <<unsaved, lost>>
  /\ UNCHANGED <<spend, round, analyzed, again, today, costLogs, run, crashes, tallies>>

DeepReportDone ==
  /\ phase = "deep_report" /\ task[run][Candidate].at = "ended"
  /\ phase' = "deep_save"
  /\ UNCHANGED <<health, spend, round, task, analyzed, again, unsaved,
                 today, costLogs, run, outcome, crashes, history>>

DeepReportSaved ==
  /\ phase = "deep_save" /\ unsaved = 0
  /\ RunCompletes
  /\ UNCHANGED <<health, spend, round, task, analyzed, again, unsaved,
                 today, costLogs, run, crashes, history>>

-----------------------------------------------------------------------------
(* The first use of the budget on a new date clears it.                    *)
NewDay ==
  /\ today < MaxDays
  /\ today' = today + 1
  /\ spend' = 0
  /\ spentToday' = 0 /\ lost' = 0
  /\ UNCHANGED <<health, phase, round, task, analyzed, again, unsaved,
                 costLogs, run, outcome, crashes, spent, malformed>>

Elapse(p) ==
  /\ health[p].circuit = "open" /\ health[p].elapsed < MAX_COOLDOWN
  /\ health' = [health EXCEPT ![p].elapsed = @ + 1]
  /\ UNCHANGED <<spend, phase, round, task, analyzed, again, unsaved,
                 today, costLogs, run, outcome, crashes, history>>

(* The process dies and starts again: breaker, budget and the run are      *)
(* memory, and the run's row keeps the status "running".                   *)
Crash ==
  /\ crashes < MaxCrashes
  /\ crashes' = crashes + 1
  /\ health' = [p \in Providers |-> HT!NewProvider]
  /\ spend' = 0
  /\ phase' = "idle" /\ round' = 0
  /\ task' = [r \in Runs |-> [j \in Jobs |-> NoTask]]
  /\ analyzed' = {} /\ again' = {} /\ RecordsLost
  /\ UNCHANGED <<today, costLogs, run, outcome, tallies>>

(* All the runs the model allows are over: the process waits for the cron. *)
Idle ==
  /\ run = MaxRuns /\ phase = "idle"
  /\ UNCHANGED vars

Coroutine(r, j) ==
  \/ AnalyzerCalls(r, j) \/ ReviewerCalls(r, j)
  \/ Parsed(r, j) \/ RequestFails(r, j)
  \/ \E recorded \in BOOLEAN : Unparsed(r, j, recorded)

RunStep ==
  \/ \E a \in Analyzers : AnalyzerStarts(a)
  \/ \E r \in Runs, j \in Jobs : Coroutine(r, j)
  \/ AnalyzeDone \/ ReviewDone
  \/ SaveCost \/ SaveFails \/ Persisted
  \/ DeepReportDone \/ DeepReportSaved

Next ==
  \/ StartRun
  \/ RunStep
  \/ NewDay
  \/ \E p \in Providers : Elapse(p)
  \/ Crash
  \/ Idle

Spec == Init /\ [][Next]_vars

(* The event loop keeps running what is ready, and every request ends.     *)
FairSpec == Spec /\ WF_vars(RunStep)

-----------------------------------------------------------------------------
(* No answered call is saved to cost_logs twice, however the records of    *)
(* the graph, the retry rounds and the deep report stage are merged.       *)
NoCostTwice ==
  \A r \in Runs :
    Cardinality(RowsOf(r)) + (IF Live(r) THEN unsaved ELSE 0) <= spent[r]

(* A completed run has a row in cost_logs for every call that was answered,*)
(* those of the retry rounds and the answers the agents could not parse    *)
(* included, but for the reviewer's of which it made no record             *)
(* (reviewer.py:311-327).  data-model.md:202 knows no such exception.      *)
CompletedRunIsCharged ==
  \A r \in Runs :
    outcome[r] = "completed" => Cardinality(RowsOf(r)) + malformed[r] = spent[r]

(* The calls of a day overshoot the hard limit by no more than the clients *)
(* handed out below it can make, two for every item of a run and for every *)
(* slot that reviewers of each earlier run, which go on when it fails,     *)
(* hold, and by the calls that have no record: those are forgotten when    *)
(* the next run or process sets the budget from cost_logs, so that a       *)
(* restart does get past the limit by them (operations.md:94 says it does  *)
(* not).                                                                   *)
OvershootBounded ==
  LET handedOut == 2 * Cardinality(Items) + 2 * (MaxRuns - 1) * Slots[Reviewer]
      belowTheLimit == IF HARD = 0 THEN 0 ELSE HARD - 1
  IN  spentToday <= belowTheLimit + handedOut + lost

(* Every run ends and frees the pipeline for the next one, whatever the    *)
(* breaker and the budget answer meanwhile.                                *)
RunEnds == phase # "idle" ~> phase = "idle"

(* In every process the breaker is that of HealthTracker: a step is one of *)
(* its specification or leaves it alone, with coroutines of failed runs    *)
(* still answering; a process that follows a crash has a new one.          *)
BreakerSpec ==
  HT!Init /\ [][HT!Next \/ (crashes' # crashes /\ HT!Init')]_HT!vars
=============================================================================
