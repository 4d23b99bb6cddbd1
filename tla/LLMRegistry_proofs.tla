------------------------- MODULE LLMRegistry_proofs -------------------------
(***************************************************************************)
(* For every number of runs, items, providers and slots, every chain of    *)
(* fallbacks and every budget: the registry uses the circuit breaker as    *)
(* the callers of HealthTracker do, no cost is saved twice or lost by a    *)
(* run that completes, and the hard limit is overshot by no more than the  *)
(* clients handed out below it can spend.                                  *)
(***************************************************************************)
EXTENDS LLMRegistry, FiniteSetsExt, WellFoundedInduction, FiniteSetTheorems, TLAPS

(* What a coroutine's record may look like: it holds a client from the     *)
(* moment it was handed one, on its first attempt, until it ends; a        *)
(* reviewer has none while it waits for its slot.                          *)
GoodTask(t) ==
  /\ t \in Task
  /\ t.at = "asking" => t.agent \in Analyzers /\ t.provider = NoProvider /\ t.attempt = 1
  /\ t.at = "waiting" /\ t.agent = Reviewer => t.provider = NoProvider /\ t.attempt = 1
  /\ t.at = "waiting" /\ t.agent # Reviewer => t.provider \in Providers
  /\ t.at = "calling" => t.provider \in Providers

TasksGood ==
  /\ task \in [Runs -> [Jobs -> Task]]
  /\ \A r \in Runs, j \in Jobs : GoodTask(task[r][j])

(* The inductive invariant: what a later run finds of its coroutines, and  *)
(* which of them the deep report stage may still start.                    *)
Inv ==
  /\ run \in 0..MaxRuns
  /\ phase # "idle" => run # 0
  /\ TasksGood
  /\ \A r \in Runs, j \in Jobs : r > run => task[r][j] = NoTask
  /\ phase \in {"analyze", "review", "persist"} => task[run][Candidate].at = "none"
  /\ analyzed \subseteq Items /\ again \subseteq Items

-----------------------------------------------------------------------------
(* A set of naturals has a least member, which Min names.                  *)
LEMMA MinIsLeast ==
  ASSUME NEW S, S \subseteq Nat, S # {}
  PROVE  Min(S) \in S /\ \A x \in S : Min(S) <= x
<1>1. PICK m \in S : \A x \in S : ~ (<<x, m>> \in OpToRel(<, Nat))
  BY WFMin, NatLessThanWellFounded, Zenon
<1>2. ASSUME NEW x \in S PROVE ~ (x < m)
  BY <1>1, Zenon DEF OpToRel
<1>3. \A x \in S : m <= x
  BY <1>2
<1> QED
  BY <1>3 DEF Min

(* The client of a coroutine as HealthTracker sees it.                     *)
CallOf(t) ==
  IF t.at \in {"waiting", "calling"} /\ t.provider # NoProvider
    THEN [provider |-> t.provider, attempt |-> t.attempt]
    ELSE NoProvider

Calling == [c \in Runs \X Jobs |-> CallOf(task[c[1]][c[2]])]

BreakerStep == HT!Next \/ UNCHANGED HT!vars

LEMMA CurrentRun == Inv /\ phase # "idle" => run \in Runs
BY BoundAssumption DEF Inv, Runs

LEMMA AgentsAre == Analyzers \subseteq Agents /\ Reviewer \in Agents /\ DeepReport \in Agents
BY DEF Agents

(* get_client hands out nothing, or a provider whose circuit is not open.  *)
LEMMA ClientIsHealthy ==
  ASSUME NEW agent \in Agents, ClientFor(agent) # NoProvider
  PROVE  /\ ClientFor(agent) \in Providers
         /\ HT!IsHealthy(health[ClientFor(agent)])
<1> DEFINE chain == Candidates(agent)
           healthy == Healthy(agent)
<1>1. chain \in Seq(Providers)
  <2>1. Chain[agent] \in Seq(Providers) /\ Chain[agent] # <<>>
    BY AgentAssumption
  <2>2. Tail(Chain[agent]) \in Seq(Providers)
    BY <2>1
  <2> QED
    BY <2>1, <2>2 DEF Candidates
<1>2. healthy = {i \in DOMAIN chain : HT!IsHealthy(health[chain[i]])}
  BY DEF Healthy
<1>3. healthy # {} /\ ClientFor(agent) = chain[Min(healthy)]
  BY DEF ClientFor
<1> HIDE DEF chain, healthy
<1>4. healthy \subseteq Nat
  BY <1>1, <1>2
<1>5. Min(healthy) \in healthy
  BY <1>3, <1>4, MinIsLeast
<1> QED
  BY <1>1, <1>2, <1>3, <1>5

(***************************************************************************)
(* The steps of HealthTracker, stated of the tasks.                        *)
(***************************************************************************)
LEMMA Admits ==
  ASSUME NEW C \in SUBSET (Runs \X Jobs), NEW p \in Providers,
         HT!IsHealthy(health[p]),
         HandOut(p),
         \A c \in C : Calling[c] = NoProvider,
         \A c \in Runs \X Jobs :
           Calling'[c] = IF c \in C THEN [provider |-> p, attempt |-> 1] ELSE Calling[c]
  PROVE  BreakerStep
<1>1. p # NoProvider
  BY NameAssumption
<1>2. health' = [health EXCEPT ![p] = HT!AfterAsking(@)]
  BY <1>1 DEF HandOut
<1>3. Calling' = [c \in Runs \X Jobs |->
                    IF c \in C THEN [provider |-> p, attempt |-> 1] ELSE Calling[c]]
  BY DEF Calling
<1>4. HT!Admit(C, p)
  BY <1>2, <1>3 DEF HT!Admit, Calling, CallOf
<1> QED
  BY <1>4 DEF BreakerStep, HT!Next

(* Steps that change neither a circuit nor a coroutine's client.           *)
LEMMA Stutters ==
  ASSUME UNCHANGED health,
         \A r \in Runs, j \in Jobs : CallOf(task'[r][j]) = CallOf(task[r][j])
  PROVE  BreakerStep
<1>1. Calling' = Calling
  BY DEF Calling
<1> QED
  BY <1>1 DEF BreakerStep, HT!vars, Calling, CallOf

(* The calls of everybody but c stay as they are, c's becomes call.        *)
Becomes(c, call) == Calling' = [Calling EXCEPT ![c] = call]

LEMMA CallBecomes ==
  ASSUME NEW r \in Runs, NEW j \in Jobs, NEW t, TasksGood,
         task' = [task EXCEPT ![r][j] = t]
  PROVE  Becomes(<<r, j>>, CallOf(t))
<1>1. \A s \in Runs, k \in Jobs :
        task'[s][k] = IF s = r /\ k = j THEN t ELSE task[s][k]
  BY DEF TasksGood
<1> DEFINE c == <<r, j>>
<1>2. Calling' = [d \in Runs \X Jobs |-> CallOf(task'[d[1]][d[2]])]
  BY DEF Calling
<1>3. \A d \in Runs \X Jobs : (d = c) <=> (d[1] = r /\ d[2] = j)
  OBVIOUS
<1>4. [Calling EXCEPT ![c] = CallOf(t)]
        = [d \in Runs \X Jobs |-> IF d = c THEN CallOf(t) ELSE CallOf(task[d[1]][d[2]])]
  BY DEF Calling
<1>5. \A d \in Runs \X Jobs :
        CallOf(task'[d[1]][d[2]]) = IF d = c THEN CallOf(t) ELSE CallOf(task[d[1]][d[2]])
  BY <1>1, <1>3
<1> HIDE DEF c
<1>6. Calling' = [Calling EXCEPT ![c] = CallOf(t)]
  BY <1>2, <1>4, <1>5
<1> QED
  BY <1>6 DEF Becomes, c

(* What is left to a call after an attempt (AttemptEnds, NextAttempt).     *)
Retried(call) == IF call.attempt = 1 THEN [call EXCEPT !.attempt = 2] ELSE NoProvider

LEMMA HeldCall ==
  ASSUME NEW r \in Runs, NEW j \in Jobs, TasksGood, task[r][j].at = "calling"
  PROVE  /\ task[r][j].provider \in Providers
         /\ Calling[<<r, j>>] = [provider |-> task[r][j].provider,
                                 attempt |-> task[r][j].attempt]
         /\ Calling[<<r, j>>] # NoProvider
         /\ Calling[<<r, j>>].provider = task[r][j].provider
<1>1. GoodTask(task[r][j])
  BY DEF TasksGood
<1>2. task[r][j].provider \in Providers /\ task[r][j].attempt \in 1..2
  BY <1>1 DEF GoodTask, Task
<1>3. Calling[<<r, j>>] = CallOf(task[r][j])
  BY DEF Calling
<1>4. task[r][j].provider # NoProvider
  BY <1>2, NameAssumption
<1>5. [provider |-> task[r][j].provider, attempt |-> task[r][j].attempt]
        \in [provider : Providers, attempt : 1..2]
  BY <1>2
<1> QED
  BY <1>2, <1>3, <1>4, <1>5, NameAssumption DEF CallOf

LEMMA AttemptEndsRetries ==
  ASSUME NEW r \in Runs, NEW j \in Jobs, TasksGood, task[r][j].at = "calling",
         AttemptEnds(r, j)
  PROVE  Becomes(<<r, j>>, Retried(Calling[<<r, j>>]))
<1> DEFINE t == task[r][j]
           u == IF t.attempt = 1 THEN [t EXCEPT !.attempt = 2] ELSE [t EXCEPT !.at = "ended"]
<1>1. task' = [task EXCEPT ![r][j] = u]
  BY DEF AttemptEnds, TasksGood
<1>2. t \in Task /\ t.provider \in Providers /\ t.provider # NoProvider
  BY HeldCall, NameAssumption DEF TasksGood
<1>3. CallOf(u) = Retried([provider |-> t.provider, attempt |-> t.attempt])
  BY <1>2 DEF CallOf, Retried, Task
<1>4. Becomes(<<r, j>>, CallOf(u))
  <2> HIDE DEF u
  <2> QED
    BY <1>1, CallBecomes
<1> QED
  BY <1>3, <1>4, HeldCall

LEMMA SucceedsOrRetries ==
  ASSUME NEW r \in Runs, NEW j \in Jobs, TasksGood, task[r][j].at = "calling",
         health' = [health EXCEPT ![task[r][j].provider] = HT!AfterSuccess(@)],
         \/ Becomes(<<r, j>>, NoProvider)
         \/ j # Candidate /\ Becomes(<<r, j>>, Retried(Calling[<<r, j>>]))
  PROVE  BreakerStep
<1> DEFINE c == <<r, j>>
<1>1. c \in Runs \X Jobs /\ (c \in Runs \X {Candidate} <=> j = Candidate)
  OBVIOUS
<1>2. /\ Calling[c] # NoProvider
      /\ health' = [health EXCEPT ![Calling[c].provider] = HT!AfterSuccess(@)]
  BY HeldCall
<1> HIDE DEF c
<1>3. HT!Answer(c)
  BY <1>1, <1>2
     DEF HT!Answer, HT!NextAttempt, Becomes, Retried, Calling, CallOf, c
<1> QED
  BY <1>1, <1>3 DEF BreakerStep, HT!Next, HT!Return

LEMMA FailsAndRetries ==
  ASSUME NEW r \in Runs, NEW j \in Jobs, TasksGood, task[r][j].at = "calling",
         health' = [health EXCEPT ![task[r][j].provider] = HT!AfterFailure(@)],
         Becomes(<<r, j>>, Retried(Calling[<<r, j>>]))
  PROVE  BreakerStep
<1> DEFINE c == <<r, j>>
<1>1. c \in Runs \X Jobs
  OBVIOUS
<1>2. /\ Calling[c] # NoProvider
      /\ health' = [health EXCEPT ![Calling[c].provider] = HT!AfterFailure(@)]
  BY HeldCall
<1> HIDE DEF c
<1>3. HT!RequestFails(c)
  BY <1>1, <1>2
     DEF HT!RequestFails, HT!NextAttempt, Becomes, Retried, Calling, CallOf, c
<1> QED
  BY <1>1, <1>3 DEF BreakerStep, HT!Next, HT!Return

LEMMA ReportIsUnparsable ==
  ASSUME NEW r \in Runs, TasksGood, task[r][Candidate].at = "calling",
         health' = [health EXCEPT ![task[r][Candidate].provider] =
                      HT!AfterFailure(HT!AfterSuccess(@))],
         Becomes(<<r, Candidate>>, Retried(Calling[<<r, Candidate>>]))
  PROVE  BreakerStep
<1> DEFINE c == <<r, Candidate>>
<1>1. c \in Runs \X Jobs /\ c \in Runs \X {Candidate}
  BY DEF Jobs
<1>2. /\ Calling[c] # NoProvider
      /\ health' = [health EXCEPT ![Calling[c].provider] =
                      HT!AfterFailure(HT!AfterSuccess(@))]
  BY <1>1, HeldCall
<1> HIDE DEF c
<1>3. HT!ReportUnparsable(c)
  BY <1>1, <1>2
     DEF HT!ReportUnparsable, HT!NextAttempt, Becomes, Retried, Calling, CallOf, c
<1> QED
  BY <1>1, <1>3 DEF BreakerStep, HT!Next, HT!Return

-----------------------------------------------------------------------------
(***************************************************************************)
(* What a step may do to the coroutines without breaking the invariant.    *)
(***************************************************************************)
FutureUntouched == \A r \in Runs, j \in Jobs : r > run => task[r][j] = NoTask

LEMMA RowKeeps ==
  ASSUME Inv, run \in Runs, run' = run, NEW row \in [Jobs -> Task],
         \A j \in Jobs : GoodTask(row[j]),
         task' = [task EXCEPT ![run] = row]
  PROVE  TasksGood' /\ FutureUntouched' /\ \A j \in Jobs : task'[run][j] = row[j]
<1>1. \A s \in Runs : task'[s] = IF s = run THEN row ELSE task[s]
  BY DEF Inv, TasksGood
<1>2. task' \in [Runs -> [Jobs -> Task]]
  BY DEF Inv, TasksGood
<1>3. \A s \in Runs, j \in Jobs : GoodTask(task'[s][j])
  BY <1>1 DEF Inv, TasksGood
<1>4. \A s \in Runs, j \in Jobs : s > run => task'[s][j] = NoTask
  BY <1>1, BoundAssumption DEF Inv, Runs
<1> QED
  BY <1>1, <1>2, <1>3, <1>4 DEF TasksGood, FutureUntouched, GoodTask

LEMMA OneKeeps ==
  ASSUME Inv, NEW r \in Runs, NEW j \in Jobs, task[r][j].at # "none", run' = run,
         NEW t, GoodTask(t),
         task' = [task EXCEPT ![r][j] = t]
  PROVE  /\ TasksGood' /\ FutureUntouched'
         /\ phase \in {"analyze", "review", "persist"} => task'[run][Candidate].at = "none"
<1>1. task' \in [Runs -> [Jobs -> Task]]
  BY DEF Inv, TasksGood, GoodTask
<1>2. \A s \in Runs, k \in Jobs :
        task'[s][k] = IF s = r /\ k = j THEN t ELSE task[s][k]
  BY DEF Inv, TasksGood
<1>3. \A s \in Runs, k \in Jobs : GoodTask(task'[s][k])
  BY <1>2 DEF Inv, TasksGood
<1>4. ~ (r > run)
  BY DEF Inv, NoTask
<1>5. \A s \in Runs, k \in Jobs : s > run => task'[s][k] = NoTask
  BY <1>2, <1>4 DEF Inv
<1>6. phase \in {"analyze", "review", "persist"} => task'[run][Candidate].at = "none"
  <2>1. Candidate \in Jobs
    BY DEF Jobs
  <2>2. phase \in {"analyze", "review", "persist"} => run \in Runs
    BY CurrentRun
  <2> QED
    BY <1>2, <2>1, <2>2 DEF Inv
<1> QED
  BY <1>1, <1>3, <1>5, <1>6 DEF TasksGood, FutureUntouched, GoodTask

LEMMA FreshTasks ==
  /\ NoTask \in Task /\ GoodTask(NoTask) /\ CallOf(NoTask) = NoProvider
  /\ \A a \in Analyzers :
       LET t == [at |-> "asking", agent |-> a, provider |-> NoProvider, attempt |-> 1]
       IN  t \in Task /\ GoodTask(t) /\ CallOf(t) = NoProvider
  /\ LET t == [NoTask EXCEPT !.at = "waiting"]
     IN  t \in Task /\ GoodTask(t) /\ CallOf(t) = NoProvider
<1>1. \A at \in {"none", "asking", "waiting"}, a \in Agents :
        [at |-> at, agent |-> a, provider |-> NoProvider, attempt |-> 1] \in Task
  BY DEF Task
<1>2. [NoTask EXCEPT !.at = "waiting"]
        = [at |-> "waiting", agent |-> Reviewer, provider |-> NoProvider, attempt |-> 1]
  BY DEF NoTask
<1>3. NoTask \in Task /\ GoodTask(NoTask) /\ CallOf(NoTask) = NoProvider
  BY <1>1, AgentsAre DEF GoodTask, CallOf, NoTask
<1>4. \A a \in Analyzers :
        LET t == [at |-> "asking", agent |-> a, provider |-> NoProvider, attempt |-> 1]
        IN  t \in Task /\ GoodTask(t) /\ CallOf(t) = NoProvider
  BY <1>1, AgentsAre DEF GoodTask, CallOf
<1>5. LET t == [at |-> "waiting", agent |-> Reviewer, provider |-> NoProvider, attempt |-> 1]
      IN  t \in Task /\ GoodTask(t) /\ CallOf(t) = NoProvider
  BY <1>1, AgentsAre DEF GoodTask, CallOf
<1> QED
  BY <1>2, <1>3, <1>4, <1>5

LEMMA StartRunKeeps == Inv /\ StartRun => Inv' /\ BreakerStep
<1> SUFFICES ASSUME Inv, StartRun PROVE Inv' /\ BreakerStep
  OBVIOUS
<1> DEFINE row == [j \in Jobs |-> IF j \in Items
                                    THEN [at |-> "asking", agent |-> AnalyzerOf[j],
                                          provider |-> NoProvider, attempt |-> 1]
                                    ELSE NoTask]
<1>1. /\ task' = [task EXCEPT ![run + 1] = row] /\ run' = run + 1
      /\ phase' = "analyze" /\ analyzed' = {} /\ again' = {}
      /\ UNCHANGED health
  BY DEF StartRun
<1>2. run \in Nat /\ run + 1 \in Runs /\ run' \in 0..MaxRuns /\ run' # 0
  <2>1. run \in 0..MaxRuns /\ run < MaxRuns
    BY DEF Inv, StartRun
  <2>2. run \in Nat /\ run + 1 \in 1..MaxRuns
    BY <2>1, BoundAssumption
  <2>3. run' = run + 1 /\ Runs = 1..MaxRuns
    BY <1>1 DEF Runs
  <2> HIDE DEF row
  <2> QED
    BY <2>2, <2>3, BoundAssumption
<1>3. \A j \in Jobs : GoodTask(row[j]) /\ CallOf(row[j]) = NoProvider
  <2>1. \A j \in Items : AnalyzerOf[j] \in Analyzers
    BY AgentAssumption, AgentsAre
  <2> QED
    BY <2>1, FreshTasks
<1>4. row[Candidate].at = "none"
  BY NameAssumption DEF NoTask, Jobs
<1>5. row \in [Jobs -> Task]
  BY <1>3 DEF GoodTask
<1> HIDE DEF row
<1>6. \A s \in Runs : task'[s] = IF s = run + 1 THEN row ELSE task[s]
  BY <1>1, <1>2 DEF Inv, TasksGood
<1>7. \A j \in Jobs : task[run + 1][j] = NoTask
  BY <1>2 DEF Inv
<1>8. BreakerStep
  <2>1. CallOf(NoTask) = NoProvider
    BY DEF CallOf, NoTask
  <2>2. \A s \in Runs, j \in Jobs : CallOf(task'[s][j]) = CallOf(task[s][j])
    BY <1>3, <1>6, <1>7, <2>1
  <2> QED
    BY <1>1, <2>2, Stutters
<1>9. TasksGood'
  <2>1. task' \in [Runs -> [Jobs -> Task]]
    BY <1>1, <1>2, <1>5 DEF Inv, TasksGood
  <2>2. \A s \in Runs, j \in Jobs : GoodTask(task'[s][j])
    BY <1>3, <1>6 DEF Inv, TasksGood
  <2> QED
    BY <2>1, <2>2 DEF TasksGood, GoodTask
<1>10. \A s \in Runs, j \in Jobs : s > run' => task'[s][j] = NoTask
  BY <1>1, <1>2, <1>6 DEF Inv, Runs
<1>11. task'[run'][Candidate].at = "none"
  BY <1>1, <1>2, <1>4, <1>6
<1> QED
  BY <1>1, <1>2, <1>8, <1>9, <1>10, <1>11 DEF Inv

(* The rest of the invariant, for a step within a run.                     *)
LEMMA RestKeeps ==
  ASSUME Inv, UNCHANGED run,
         TasksGood', FutureUntouched',
         phase' = "idle" \/ phase # "idle",
         phase' \in {"analyze", "review", "persist"} => task'[run][Candidate].at = "none",
         analyzed' \subseteq Items, again' \subseteq Items
  PROVE  Inv'
BY DEF Inv, FutureUntouched

LEMMA SameTasks ==
  ASSUME Inv, UNCHANGED <<run, task>>
  PROVE  TasksGood' /\ FutureUntouched'
BY DEF Inv, TasksGood, FutureUntouched, GoodTask

LEMMA AnalyzerStartsKeeps ==
  ASSUME Inv, NEW a \in Analyzers, AnalyzerStarts(a)
  PROVE  Inv' /\ BreakerStep
<1> DEFINE p == ClientFor(a)
           mine == {i \in Items : AnalyzerOf[i] = a}
           row == [j \in Jobs |->
                     IF j \notin mine THEN task[run][j]
                     ELSE [task[run][j] EXCEPT !.provider = p,
                             !.at = IF p = NoProvider THEN "ended" ELSE "waiting"]]
<1>1. /\ phase = "analyze" /\ task' = [task EXCEPT ![run] = row] /\ HandOut(p)
      /\ \A i \in mine : task[run][i].at = "asking"
      /\ UNCHANGED <<run, phase, analyzed, again>>
  BY DEF AnalyzerStarts
<1>2. run \in Runs
  BY <1>1, CurrentRun
<1>3. p # NoProvider => p \in Providers /\ HT!IsHealthy(health[p])
  BY ClientIsHealthy, AgentsAre
<1> HIDE DEF p
<1>4. mine \subseteq Jobs /\ Candidate \notin mine /\ Candidate \in Jobs
  BY NameAssumption DEF Jobs
<1>5. \A j \in Jobs : task[run][j] \in Task /\ GoodTask(task[run][j])
  BY <1>2 DEF Inv, TasksGood
<1>6. ASSUME NEW i \in mine
      PROVE  /\ row[i] \in Task /\ GoodTask(row[i])
             /\ CallOf(task[run][i]) = NoProvider
             /\ CallOf(row[i]) = IF p = NoProvider THEN NoProvider
                                ELSE [provider |-> p, attempt |-> 1]
  <2> DEFINE t == task[run][i]
             at == IF p = NoProvider THEN "ended" ELSE "waiting"
             u == [t EXCEPT !.provider = p, !.at = at]
  <2>1. t \in Task /\ GoodTask(t) /\ t.at = "asking" /\ row[i] = u
    BY <1>1, <1>4, <1>5
  <2>2. p \in Providers \union {NoProvider} /\ at \in {"ended", "waiting"}
    BY <1>3
  <2> HIDE DEF t, at
  <2>3. /\ u \in Task /\ u.at = at /\ u.provider = p
        /\ u.attempt = t.attempt /\ u.agent = t.agent
    BY <2>1, <2>2 DEF Task
  <2> HIDE DEF u
  <2>4. t.agent \in Analyzers /\ t.provider = NoProvider /\ t.attempt = 1
    BY <2>1 DEF GoodTask
  <2>5. t.agent # Reviewer
    BY <2>4, NameAssumption
  <2>6. GoodTask(u)
    BY <2>2, <2>3, <2>4, <2>5 DEF GoodTask, at
  <2>7. CallOf(t) = NoProvider
    BY <2>4 DEF CallOf
  <2>8. CallOf(u) = IF p = NoProvider THEN NoProvider ELSE [provider |-> p, attempt |-> 1]
    BY <2>3, <2>4 DEF CallOf, at
  <2> QED
    BY <2>1, <2>3, <2>6, <2>7, <2>8 DEF t
<1>7. \A j \in Jobs : j \notin mine => row[j] = task[run][j]
  OBVIOUS
<1>8. row \in [Jobs -> Task] /\ \A j \in Jobs : GoodTask(row[j])
  <2>1. \A j \in Jobs : row[j] \in Task /\ GoodTask(row[j])
    BY <1>5, <1>6, <1>7
  <2> QED
    BY <2>1
<1> HIDE DEF row, mine
<1>9. TasksGood' /\ FutureUntouched' /\ \A j \in Jobs : task'[run][j] = row[j]
  BY <1>1, <1>2, <1>8, RowKeeps
<1>10. Inv'
  <2>1. task[run][Candidate].at = "none"
    BY <1>1 DEF Inv
  <2>2. task'[run][Candidate].at = "none"
    BY <1>4, <1>7, <1>9, <2>1
  <2> QED
    BY <1>1, <1>9, <2>2, RestKeeps DEF Inv
<1>11. \A s \in Runs : task'[s] = IF s = run THEN row ELSE task[s]
  BY <1>1, <1>8 DEF Inv, TasksGood
<1>12. BreakerStep
  <2>1. CASE p = NoProvider
    <3>1. \A s \in Runs, j \in Jobs : CallOf(task'[s][j]) = CallOf(task[s][j])
      BY <1>6, <1>7, <1>11, <2>1
    <3>2. UNCHANGED health
      BY <1>1, <2>1 DEF HandOut
    <3> QED
      BY <3>1, <3>2, Stutters
  <2>2. CASE p # NoProvider
    <3> DEFINE C == {run} \X mine
    <3>1. C \subseteq Runs \X Jobs
      BY <1>2, <1>4
    <3>2. \A c \in C : Calling[c] = NoProvider
      BY <1>6, <3>1 DEF Calling
    <3>3. \A c \in Runs \X Jobs :
            Calling'[c] = IF c \in C THEN [provider |-> p, attempt |-> 1] ELSE Calling[c]
      BY <1>6, <1>7, <1>11, <2>2 DEF Calling
    <3> HIDE DEF C
    <3> QED
      BY <1>1, <1>3, <2>2, <3>1, <3>2, <3>3, Admits
  <2> QED
    BY <2>1, <2>2
<1> QED
  BY <1>10, <1>12

LEMMA AnalyzerCallsKeeps ==
  ASSUME Inv, NEW r \in Runs, NEW j \in Jobs, AnalyzerCalls(r, j)
  PROVE  Inv' /\ BreakerStep
<1> DEFINE t == task[r][j]
           u == [t EXCEPT !.at = "calling"]
<1>1. /\ t.at = "waiting" /\ t.agent \in Analyzers /\ task' = [task EXCEPT ![r][j] = u]
      /\ UNCHANGED <<health, run, phase, analyzed, again>>
  BY DEF AnalyzerCalls, Inv, TasksGood
<1>2. t \in Task /\ GoodTask(t)
  BY DEF Inv, TasksGood
<1> HIDE DEF t
<1>3. u \in Task /\ u.at = "calling" /\ u.provider = t.provider /\ u.attempt = t.attempt
  BY <1>2 DEF Task
<1> HIDE DEF u
<1>4. t.provider \in Providers
  BY <1>1, <1>2, NameAssumption DEF GoodTask
<1>5. GoodTask(u) /\ CallOf(u) = CallOf(t)
  BY <1>1, <1>3, <1>4 DEF GoodTask, CallOf
<1>6. /\ TasksGood' /\ FutureUntouched'
      /\ phase \in {"analyze", "review", "persist"} => task'[run][Candidate].at = "none"
  BY <1>1, <1>5, OneKeeps DEF t
<1>7. Inv'
  BY <1>1, <1>6, RestKeeps DEF Inv
<1>8. \A s \in Runs, k \in Jobs : CallOf(task'[s][k]) = CallOf(task[s][k])
  BY <1>1, <1>5 DEF Inv, TasksGood, t
<1> QED
  BY <1>1, <1>7, <1>8, Stutters

LEMMA ReviewerCallsKeeps ==
  ASSUME Inv, NEW r \in Runs, NEW j \in Jobs, ReviewerCalls(r, j)
  PROVE  Inv' /\ BreakerStep
<1> DEFINE p == ClientFor(Reviewer)
           t == task[r][j]
           at == IF p = NoProvider THEN "ended" ELSE "calling"
           u == [t EXCEPT !.provider = p, !.at = at]
<1>1. /\ t.at = "waiting" /\ t.agent = Reviewer /\ task' = [task EXCEPT ![r][j] = u]
      /\ HandOut(p) /\ (phase' = "idle" \/ phase' = phase)
      /\ UNCHANGED <<run, analyzed, again>>
  <2>1. task \in [Runs -> [Jobs -> Task]]
    BY DEF Inv, TasksGood
  <2>2. /\ t.at = "waiting" /\ t.agent = Reviewer /\ HandOut(p)
        /\ task' = [task EXCEPT ![r][j].provider = p, ![r][j].at = at]
        /\ UNCHANGED <<run, analyzed, again>>
    BY DEF ReviewerCalls
  <2>3. phase' = "idle" \/ phase' = phase
    BY DEF ReviewerCalls, RunFails
  <2> HIDE DEF p, at
  <2>4. task' = [task EXCEPT ![r][j] = u]
    BY <2>1, <2>2
  <2> QED
    BY <2>2, <2>3, <2>4
<1>2. t \in Task /\ GoodTask(t)
  BY DEF Inv, TasksGood
<1>3. p # NoProvider => p \in Providers /\ HT!IsHealthy(health[p])
  BY ClientIsHealthy, AgentsAre
<1> HIDE DEF p, t
<1>4. p \in Providers \union {NoProvider} /\ at \in {"ended", "calling"}
  BY <1>3
<1> HIDE DEF at
<1>5. u \in Task /\ u.at = at /\ u.provider = p /\ u.attempt = t.attempt
  BY <1>2, <1>4 DEF Task
<1> HIDE DEF u
<1>6. t.provider = NoProvider /\ t.attempt = 1
  BY <1>1, <1>2 DEF GoodTask
<1>7. GoodTask(u)
  BY <1>4, <1>5 DEF GoodTask, at
<1>8. /\ TasksGood' /\ FutureUntouched'
      /\ phase \in {"analyze", "review", "persist"} => task'[run][Candidate].at = "none"
  BY <1>1, <1>7, OneKeeps DEF t
<1>9. Inv'
  BY <1>1, <1>8, RestKeeps DEF Inv
<1>10. \A s \in Runs, k \in Jobs :
         task'[s][k] = IF s = r /\ k = j THEN u ELSE task[s][k]
  BY <1>1 DEF Inv, TasksGood
<1>11. CallOf(t) = NoProvider
  BY <1>6 DEF CallOf
<1>12. CallOf(u) = IF p = NoProvider THEN NoProvider ELSE [provider |-> p, attempt |-> 1]
  BY <1>5, <1>6 DEF CallOf, at
<1>13. BreakerStep
  <2>1. CASE p = NoProvider
    <3>1. \A s \in Runs, k \in Jobs : CallOf(task'[s][k]) = CallOf(task[s][k])
      BY <1>10, <1>11, <1>12, <2>1 DEF t
    <3>2. UNCHANGED health
      BY <1>1, <2>1 DEF HandOut
    <3> QED
      BY <3>1, <3>2, Stutters
  <2>2. CASE p # NoProvider
    <3> DEFINE C == {<<r, j>>}
    <3>1. C \subseteq Runs \X Jobs
      OBVIOUS
    <3>2. \A c \in C : Calling[c] = NoProvider
      BY <1>11 DEF Calling, t
    <3>3. \A c \in Runs \X Jobs :
            Calling'[c] = IF c \in C THEN [provider |-> p, attempt |-> 1] ELSE Calling[c]
      BY <1>10, <1>12, <2>2 DEF Calling
    <3> HIDE DEF C
    <3> QED
      BY <1>1, <1>3, <2>2, <3>1, <3>2, <3>3, Admits
  <2> QED
    BY <2>1, <2>2
<1> QED
  BY <1>9, <1>13

(* The coroutine of an attempt that has ended.                             *)
LEMMA AttemptEndsKeeps ==
  ASSUME Inv, UNCHANGED run, NEW r \in Runs, NEW j \in Jobs, task[r][j].at = "calling",
         AttemptEnds(r, j) \/ task' = [task EXCEPT ![r][j].at = "ended"]
  PROVE  /\ TasksGood' /\ FutureUntouched'
         /\ phase \in {"analyze", "review", "persist"} => task'[run][Candidate].at = "none"
<1> DEFINE t == task[r][j]
           ended == [t EXCEPT !.at = "ended"]
           second == [t EXCEPT !.attempt = 2]
<1>1. t \in Task /\ GoodTask(t) /\ task \in [Runs -> [Jobs -> Task]]
  BY DEF Inv, TasksGood
<1>2. \/ task' = [task EXCEPT ![r][j] = ended]
      \/ task' = [task EXCEPT ![r][j] = second]
  <2>1. CASE task' = [task EXCEPT ![r][j].at = "ended"]
    BY <1>1, <2>1
  <2>2. CASE AttemptEnds(r, j)
    <3>1. task' = [task EXCEPT ![r][j] = IF t.attempt = 1 THEN second ELSE ended]
      BY <1>1, <2>2 DEF AttemptEnds
    <3> QED
      BY <3>1
  <2> QED
    BY <2>1, <2>2
<1> HIDE DEF t
<1>3. /\ ended \in Task /\ ended.at = "ended"
      /\ second \in Task /\ second.at = t.at /\ second.provider = t.provider
  <2>1. t \in Task
    BY <1>1
  <2>2. ended \in Task /\ ended.at = "ended"
    BY <2>1 DEF Task
  <2>3. second \in Task /\ second.at = t.at /\ second.provider = t.provider
    BY <2>1 DEF Task
  <2> QED
    BY <2>2, <2>3
<1>4. t.at = "calling"
  BY DEF t
<1> HIDE DEF ended, second
<1>5. GoodTask(ended) /\ GoodTask(second)
  BY <1>1, <1>3, <1>4 DEF GoodTask
<1> QED
  BY <1>2, <1>4, <1>5, OneKeeps DEF t

LEMMA ParsedKeeps ==
  ASSUME Inv, NEW r \in Runs, NEW j \in Jobs, Parsed(r, j)
  PROVE  Inv' /\ BreakerStep
<1> DEFINE t == task[r][j]
           u == [t EXCEPT !.at = "ended"]
<1>1. /\ t.at = "calling" /\ health' = [health EXCEPT ![t.provider] = HT!AfterSuccess(@)]
      /\ task' = [task EXCEPT ![r][j].at = "ended"]
      /\ UNCHANGED <<run, phase>>
  BY DEF Parsed
<1>2. analyzed' \subseteq Items /\ again' \subseteq Items
  <2>1. CASE ~ Live(r) \/ j = Candidate
    BY <2>1 DEF Parsed, Inv
  <2>2. CASE ~ (~ Live(r) \/ j = Candidate)
    <3>1. j \in Items
      BY <2>2 DEF Jobs
    <3> QED
      BY <2>2, <3>1 DEF Parsed, Inv
  <2> QED
    BY <2>1, <2>2
<1>3. /\ TasksGood' /\ FutureUntouched'
      /\ phase \in {"analyze", "review", "persist"} => task'[run][Candidate].at = "none"
  BY <1>1, AttemptEndsKeeps
<1>4. Inv'
  BY <1>1, <1>2, <1>3, RestKeeps
<1>5. BreakerStep
  <2>1. TasksGood /\ t \in Task
    BY DEF Inv, TasksGood
  <2>2. task' = [task EXCEPT ![r][j] = u]
    BY <1>1, <2>1 DEF TasksGood
  <2>3. CallOf(u) = NoProvider
    BY <2>1 DEF CallOf, Task
  <2> HIDE DEF u
  <2>4. Becomes(<<r, j>>, NoProvider)
    BY <2>1, <2>2, <2>3, CallBecomes
  <2> QED
    BY <1>1, <2>1, <2>4, SucceedsOrRetries
<1> QED
  BY <1>4, <1>5

LEMMA UnparsedKeeps ==
  ASSUME Inv, NEW r \in Runs, NEW j \in Jobs, NEW recorded \in BOOLEAN,
         Unparsed(r, j, recorded)
  PROVE  Inv' /\ BreakerStep
<1>1. /\ task[r][j].at = "calling" /\ AttemptEnds(r, j)
      /\ again' \subseteq again
      /\ UNCHANGED <<run, phase, analyzed>>
  BY DEF Unparsed
<1>2. /\ TasksGood' /\ FutureUntouched'
      /\ phase \in {"analyze", "review", "persist"} => task'[run][Candidate].at = "none"
  BY <1>1, AttemptEndsKeeps
<1>3. Inv'
  BY <1>1, <1>2, RestKeeps DEF Inv
<1>4. TasksGood /\ Becomes(<<r, j>>, Retried(Calling[<<r, j>>]))
  BY <1>1, AttemptEndsRetries DEF Inv
<1>5. BreakerStep
  <2>1. CASE j = Candidate
    <3>1. health' = [health EXCEPT ![task[r][j].provider] =
                       HT!AfterFailure(HT!AfterSuccess(@))]
      BY <2>1 DEF Unparsed
    <3> QED
      BY <1>1, <1>4, <2>1, <3>1, ReportIsUnparsable
  <2>2. CASE j # Candidate
    <3>1. health' = [health EXCEPT ![task[r][j].provider] = HT!AfterSuccess(@)]
      BY <2>2 DEF Unparsed
    <3> QED
      BY <1>1, <1>4, <2>2, <3>1, SucceedsOrRetries
  <2> QED
    BY <2>1, <2>2
<1> QED
  BY <1>3, <1>5

LEMMA RequestFailsKeeps ==
  ASSUME Inv, NEW r \in Runs, NEW j \in Jobs, RequestFails(r, j)
  PROVE  Inv' /\ BreakerStep
<1>1. /\ task[r][j].at = "calling" /\ AttemptEnds(r, j)
      /\ health' = [health EXCEPT ![task[r][j].provider] = HT!AfterFailure(@)]
      /\ again' \subseteq again
      /\ UNCHANGED <<run, phase, analyzed>>
  BY DEF RequestFails
<1>2. /\ TasksGood' /\ FutureUntouched'
      /\ phase \in {"analyze", "review", "persist"} => task'[run][Candidate].at = "none"
  BY <1>1, AttemptEndsKeeps
<1>3. Inv'
  BY <1>1, <1>2, RestKeeps DEF Inv
<1>4. TasksGood /\ Becomes(<<r, j>>, Retried(Calling[<<r, j>>]))
  BY <1>1, AttemptEndsRetries DEF Inv
<1> QED
  BY <1>1, <1>3, <1>4, FailsAndRetries

LEMMA CoroutineKeeps ==
  ASSUME Inv, NEW r \in Runs, NEW j \in Jobs, Coroutine(r, j)
  PROVE  Inv' /\ BreakerStep
BY AnalyzerCallsKeeps, ReviewerCallsKeeps, ParsedKeeps, UnparsedKeeps, RequestFailsKeeps
   DEF Coroutine

(* Steps of a run that touch neither its coroutines nor the breaker.       *)
LEMMA QuietKeeps ==
  ASSUME Inv, UNCHANGED <<health, run, task, analyzed, again>>,
         phase' = "idle" \/ phase # "idle",
         \/ phase' \in {phase, "idle", "deep_report", "deep_save"}
         \/ phase \in {"analyze", "review"}
  PROVE  Inv' /\ BreakerStep
<1>1. TasksGood' /\ FutureUntouched'
  BY SameTasks
<1>2. Inv'
  BY <1>1, RestKeeps DEF Inv
<1> QED
  BY <1>2, Stutters

LEMMA ReviewRoundKeeps ==
  ASSUME Inv, AllEnded, phase \in {"analyze", "review"},
         NEW S \in SUBSET Items, NEW n, ReviewRound(S, n)
  PROVE  Inv' /\ BreakerStep
<1> DEFINE p == ClientFor(Reviewer)
           called == IF n < MAX_RETRIES THEN S ELSE {}
           waiting == [NoTask EXCEPT !.at = "waiting"]
           row == [j \in Jobs |-> IF j \in called THEN waiting ELSE task[run][j]]
<1>1. HandOut(p) /\ UNCHANGED <<run, analyzed>>
  BY DEF ReviewRound
<1>2. p # NoProvider => p \in Providers /\ HT!IsHealthy(health[p])
  BY ClientIsHealthy, AgentsAre
<1>3. run \in Runs
  BY CurrentRun
<1>4. CASE p = NoProvider
  <2>1. phase' = "idle" /\ UNCHANGED <<task, again>>
    BY <1>4 DEF ReviewRound, RunFails
  <2>2. UNCHANGED health
    BY <1>1, <1>4 DEF HandOut
  <2> QED
    BY <1>1, <2>1, <2>2, QuietKeeps
<1>5. CASE p # NoProvider
  <2>1. /\ phase' = "review" /\ task' = [task EXCEPT ![run] = row]
        /\ again' = again \ (S \ called)
    BY <1>5 DEF ReviewRound
  <2> HIDE DEF p
  <2>2. called \subseteq Items /\ Candidate \notin called /\ Candidate \in Jobs
    BY NameAssumption DEF Jobs
  <2>3. waiting \in Task /\ GoodTask(waiting) /\ CallOf(waiting) = NoProvider
    BY FreshTasks
  <2>4. \A j \in Jobs : task[run][j] \in Task /\ GoodTask(task[run][j])
    BY <1>3 DEF Inv, TasksGood
  <2> HIDE DEF called, waiting
  <2>5. \A j \in Jobs : row[j] \in Task /\ GoodTask(row[j])
    BY <2>3, <2>4
  <2>6. row \in [Jobs -> Task]
    BY <2>5
  <2>7. row[Candidate] = task[run][Candidate]
    BY <2>2
  <2>8. \A j \in Jobs : CallOf(row[j]) = CallOf(task[run][j])
    <3>1. \A j \in Jobs : CallOf(task[run][j]) = NoProvider
      BY DEF AllEnded, CallOf
    <3> QED
      BY <2>3, <3>1
  <2> HIDE DEF row
  <2>9. TasksGood' /\ FutureUntouched' /\ \A j \in Jobs : task'[run][j] = row[j]
    BY <1>1, <1>3, <2>1, <2>5, <2>6, RowKeeps
  <2>10. task'[run][Candidate].at = "none"
    BY <2>2, <2>7, <2>9 DEF Inv
  <2>11. Inv'
    BY <1>1, <2>1, <2>9, <2>10, RestKeeps DEF Inv
  <2>12. \A s \in Runs, j \in Jobs : CallOf(task'[s][j]) = CallOf(task[s][j])
    <3>1. \A s \in Runs : task'[s] = IF s = run THEN row ELSE task[s]
      BY <2>1, <2>6 DEF Inv, TasksGood
    <3> QED
      BY <2>8, <3>1
  <2>13. \A c \in Runs \X Jobs : Calling'[c] = Calling[c]
    BY <2>12 DEF Calling
  <2>14. BreakerStep
    <3> DEFINE C == {}
    <3>1. C \in SUBSET (Runs \X Jobs)
      OBVIOUS
    <3>2. \A c \in C : Calling[c] = NoProvider
      OBVIOUS
    <3>3. \A c \in Runs \X Jobs :
            Calling'[c] = IF c \in C THEN [provider |-> p, attempt |-> 1] ELSE Calling[c]
      BY <2>13
    <3> HIDE DEF C
    <3> QED
      BY <1>1, <1>2, <1>5, <3>1, <3>2, <3>3, Admits
  <2> QED
    BY <2>11, <2>14
<1> QED
  BY <1>4, <1>5

LEMMA AnalyzeDoneKeeps == Inv /\ AnalyzeDone => Inv' /\ BreakerStep
<1> SUFFICES ASSUME Inv, AnalyzeDone PROVE Inv' /\ BreakerStep
  OBVIOUS
<1>1. phase = "analyze" /\ AllEnded /\ analyzed \in SUBSET Items
  BY DEF AnalyzeDone, Inv
<1>2. CASE analyzed = {}
  <2>1. phase' = "persist" /\ UNCHANGED <<health, run, task, analyzed, again>>
    BY <1>2 DEF AnalyzeDone
  <2> QED
    BY <1>1, <2>1, QuietKeeps
<1>3. CASE analyzed # {}
  <2>1. ReviewRound(analyzed, 0)
    BY <1>3 DEF AnalyzeDone
  <2> QED
    BY <1>1, <2>1, ReviewRoundKeeps
<1> QED
  BY <1>2, <1>3

LEMMA ReviewDoneKeeps == Inv /\ ReviewDone => Inv' /\ BreakerStep
<1> SUFFICES ASSUME Inv, ReviewDone PROVE Inv' /\ BreakerStep
  OBVIOUS
<1>1. phase = "review" /\ AllEnded /\ again \in SUBSET Items
  BY DEF ReviewDone, Inv
<1>2. CASE again = {} \/ round = MAX_RETRIES
  <2>1. phase' = "persist" /\ UNCHANGED <<health, run, task, analyzed, again>>
    BY <1>2 DEF ReviewDone
  <2> QED
    BY <1>1, <2>1, QuietKeeps
<1>3. CASE ~ (again = {} \/ round = MAX_RETRIES)
  <2>1. ReviewRound(again, round + 1)
    BY <1>3 DEF ReviewDone
  <2> QED
    BY <1>1, <2>1, ReviewRoundKeeps
<1> QED
  BY <1>2, <1>3

LEMMA PersistedKeeps == Inv /\ Persisted => Inv' /\ BreakerStep
<1> SUFFICES ASSUME Inv, Persisted PROVE Inv' /\ BreakerStep
  OBVIOUS
<1> DEFINE p == ClientFor(DeepReport)
           c == [at |-> "calling", agent |-> DeepReport, provider |-> p, attempt |-> 1]
<1>1. phase = "persist" /\ UNCHANGED <<run, analyzed, again>>
  BY DEF Persisted
<1>2. run \in Runs /\ Candidate \in Jobs /\ task[run][Candidate].at = "none"
  BY <1>1, CurrentRun DEF Inv, Jobs
<1>3. p # NoProvider => p \in Providers /\ HT!IsHealthy(health[p])
  BY ClientIsHealthy, AgentsAre
<1>4. \/ phase' = "idle" /\ UNCHANGED <<health, task>>
      \/ /\ p # NoProvider /\ HandOut(p) /\ phase' = "deep_report"
         /\ task' = [task EXCEPT ![run][Candidate] = c]
  <2>1. CASE analyzed = {}
    BY <2>1 DEF Persisted, RunFails
  <2>2. CASE analyzed # {} /\ RunCompletes /\ UNCHANGED <<health, task>>
    BY <2>2 DEF RunCompletes
  <2>3. CASE /\ analyzed # {} /\ HandOut(p)
             /\ IF p = NoProvider THEN RunCompletes /\ UNCHANGED task
                ELSE /\ phase' = "deep_report"
                     /\ task' = [task EXCEPT ![run][Candidate] = c]
    BY <2>3 DEF RunCompletes, HandOut
  <2> QED
    BY <2>1, <2>2, <2>3 DEF Persisted
<1> HIDE DEF p
<1>5. CASE phase' = "idle" /\ UNCHANGED <<health, task>>
  BY <1>1, <1>5, QuietKeeps
<1>6. CASE /\ p # NoProvider /\ HandOut(p) /\ phase' = "deep_report"
           /\ task' = [task EXCEPT ![run][Candidate] = c]
  <2>1. GoodTask(c) /\ CallOf(c) = [provider |-> p, attempt |-> 1]
    BY <1>3, <1>6, AgentsAre DEF GoodTask, Task, CallOf
  <2> HIDE DEF c
  <2>2. \A s \in Runs, j \in Jobs :
          task'[s][j] = IF s = run /\ j = Candidate THEN c ELSE task[s][j]
    BY <1>2, <1>6 DEF Inv, TasksGood
  <2>3. TasksGood'
    <3>1. task' \in [Runs -> [Jobs -> Task]]
      BY <1>2, <1>6, <2>1 DEF Inv, TasksGood, GoodTask
    <3>2. \A s \in Runs, j \in Jobs : GoodTask(task'[s][j])
      BY <2>1, <2>2 DEF Inv, TasksGood
    <3> QED
      BY <3>1, <3>2 DEF TasksGood, GoodTask
  <2>4. FutureUntouched'
    BY <1>1, <2>2, BoundAssumption DEF Inv, FutureUntouched, Runs
  <2>5. Inv'
    BY <1>1, <1>6, <2>3, <2>4, RestKeeps DEF Inv
  <2>6. BreakerStep
    <3> DEFINE C == {<<run, Candidate>>}
    <3>1. C \in SUBSET (Runs \X Jobs)
      BY <1>2
    <3>2. \A d \in C : Calling[d] = NoProvider
      BY <1>2 DEF Calling, CallOf
    <3>3. \A d \in Runs \X Jobs :
            Calling'[d] = IF d \in C THEN [provider |-> p, attempt |-> 1] ELSE Calling[d]
      BY <2>1, <2>2 DEF Calling
    <3> HIDE DEF C
    <3> QED
      BY <1>3, <1>6, <3>1, <3>2, <3>3, Admits
  <2> QED
    BY <2>5, <2>6
<1> QED
  BY <1>4, <1>5, <1>6

LEMMA RunStepKeeps == Inv /\ RunStep => Inv' /\ BreakerStep
<1> SUFFICES ASSUME Inv, RunStep PROVE Inv' /\ BreakerStep
  OBVIOUS
<1>1. ASSUME NEW a \in Analyzers, AnalyzerStarts(a) PROVE Inv' /\ BreakerStep
  BY <1>1, AnalyzerStartsKeeps
<1>2. ASSUME NEW r \in Runs, NEW j \in Jobs, Coroutine(r, j) PROVE Inv' /\ BreakerStep
  BY <1>2, CoroutineKeeps
<1>3. CASE AnalyzeDone
  BY <1>3, AnalyzeDoneKeeps
<1>4. CASE ReviewDone
  BY <1>4, ReviewDoneKeeps
<1>5. CASE SaveCost
  BY <1>5, QuietKeeps DEF SaveCost
<1>6. CASE SaveFails
  BY <1>6, QuietKeeps DEF SaveFails, RunFails, RunCompletes
<1>7. CASE Persisted
  BY <1>7, PersistedKeeps
<1>8. CASE DeepReportDone
  BY <1>8, QuietKeeps DEF DeepReportDone
<1>9. CASE DeepReportSaved
  BY <1>9, QuietKeeps DEF DeepReportSaved, RunCompletes
<1> QED
  BY <1>1, <1>2, <1>3, <1>4, <1>5, <1>6, <1>7, <1>8, <1>9 DEF RunStep

LEMMA ElapseKeeps ==
  ASSUME Inv, NEW p \in Providers, Elapse(p)
  PROVE  Inv' /\ BreakerStep
<1>1. UNCHANGED <<run, phase, task, analyzed, again>>
  BY DEF Elapse
<1>2. TasksGood' /\ FutureUntouched'
  BY <1>1, SameTasks
<1>3. Inv'
  BY <1>1, <1>2, RestKeeps DEF Inv
<1>4. HT!Elapse(p)
  BY <1>1 DEF Elapse, HT!Elapse
<1> QED
  BY <1>3, <1>4 DEF BreakerStep, HT!Next

(* A new process has no coroutines and a new breaker.                      *)
LEMMA CrashKeeps == Inv /\ Crash => Inv' /\ HT!Init'
<1> SUFFICES ASSUME Inv, Crash PROVE Inv' /\ HT!Init'
  OBVIOUS
<1>1. /\ task' = [r \in Runs |-> [j \in Jobs |-> NoTask]]
      /\ phase' = "idle" /\ analyzed' = {} /\ again' = {} /\ run' = run
      /\ health' = [p \in Providers |-> HT!NewProvider]
  BY DEF Crash
<1>2. NoTask \in Task /\ GoodTask(NoTask) /\ CallOf(NoTask) = NoProvider
  BY FreshTasks
<1>3. TasksGood'
  BY <1>1, <1>2 DEF TasksGood, GoodTask
<1>4. Inv'
  BY <1>1, <1>3 DEF Inv
<1>5. Calling' = [c \in Runs \X Jobs |-> NoProvider]
  BY <1>1, <1>2 DEF Calling
<1>6. HT!Init'
  BY <1>1, <1>5 DEF HT!Init, HT!NewProvider, Calling, CallOf
<1> QED
  BY <1>4, <1>6

LEMMA NextKeeps == Inv /\ [Next]_vars => Inv' /\ (BreakerStep \/ (Crash /\ HT!Init'))
<1> SUFFICES ASSUME Inv, [Next]_vars PROVE Inv' /\ (BreakerStep \/ (Crash /\ HT!Init'))
  OBVIOUS
<1>1. CASE StartRun
  BY <1>1, StartRunKeeps
<1>2. CASE RunStep
  BY <1>2, RunStepKeeps
<1>3. CASE NewDay
  BY <1>3, QuietKeeps DEF NewDay
<1>4. ASSUME NEW p \in Providers, Elapse(p) PROVE Inv' /\ BreakerStep
  BY <1>4, ElapseKeeps
<1>5. CASE Crash
  BY <1>5, CrashKeeps
<1>6. CASE UNCHANGED vars
  BY <1>6, QuietKeeps DEF vars, memory
<1> QED
  BY <1>1, <1>2, <1>3, <1>4, <1>5, <1>6 DEF Next, Idle

LEMMA InitKeeps == Init => Inv /\ HT!Init
<1> SUFFICES ASSUME Init PROVE Inv /\ HT!Init
  OBVIOUS
<1>1. NoTask \in Task /\ GoodTask(NoTask) /\ CallOf(NoTask) = NoProvider
  BY FreshTasks
<1>2. task = [r \in Runs |-> [j \in Jobs |-> NoTask]]
  BY DEF Init
<1>3. Inv
  BY <1>1, <1>2, BoundAssumption DEF Init, Inv, TasksGood
<1>4. Calling = [c \in Runs \X Jobs |-> NoProvider]
  BY <1>1, <1>2 DEF Calling
<1>5. HT!Init
  BY <1>4 DEF Init, HT!Init, Calling, CallOf
<1> QED
  BY <1>3, <1>5

LEMMA Invariance == Spec => []Inv
BY InitKeeps, NextKeeps, PTL DEF Spec

-----------------------------------------------------------------------------
(***************************************************************************)
(* What is proved of the breaker alone, read for the breaker in here.      *)
(***************************************************************************)
HTP == INSTANCE HealthTracker_proofs WITH
  Callers <- Runs \X Jobs,
  ReportCallers <- Runs \X {Candidate},
  NoCall <- NoProvider,
  calling <- [c \in Runs \X Jobs |->
               LET t == task[c[1]][c[2]]
               IN  IF t.at \in {"waiting", "calling"} /\ t.provider # NoProvider
                     THEN [provider |-> t.provider, attempt |-> t.attempt]
                     ELSE NoProvider]

LEMMA TrackerAssumptions ==
  /\ HTP!CooldownAssumption /\ HTP!ThresholdAssumption
  /\ HTP!ReportAssumption /\ HTP!NoCallAssumption
BY BreakerAssumption, NameAssumption
   DEF HTP!CooldownAssumption, HTP!ThresholdAssumption, HTP!ReportAssumption,
       HTP!NoCallAssumption, HTP!Calls, Jobs

LEMMA SameTracker ==
  /\ HT!Init <=> HTP!Init
  /\ HT!Next <=> HTP!Next
  /\ HT!vars = HTP!vars
  /\ HT!TypeOK <=> HTP!TypeOK
  /\ HT!TripsAtThreshold <=> HTP!TripsAtThreshold
  /\ HT!ProbeWaitsForCooldown <=> HTP!ProbeWaitsForCooldown
BY DEF HT!Next, HTP!Next, HT!Init, HTP!Init, HT!vars, HTP!vars,
       HT!Admit, HTP!Admit, HT!Return, HTP!Return, HT!Answer, HTP!Answer,
       HT!RequestFails, HTP!RequestFails, HT!ReportUnparsable, HTP!ReportUnparsable,
       HT!Elapse, HTP!Elapse, HT!NextAttempt, HTP!NextAttempt,
       HT!AfterAsking, HTP!AfterAsking, HT!AfterSuccess, HTP!AfterSuccess,
       HT!AfterFailure, HTP!AfterFailure, HT!IsHealthy, HTP!IsHealthy,
       HT!CooledDown, HTP!CooledDown, HT!CooldownUnits, HTP!CooldownUnits,
       HT!AtMost, HTP!AtMost, HT!Backoff, HTP!Backoff, HT!Counted, HTP!Counted,
       HT!Reopened, HTP!Reopened, HT!NewProvider, HTP!NewProvider,
       HT!TypeOK, HTP!TypeOK, HT!Health, HTP!Health, HT!Circuits, HTP!Circuits,
       HT!Levels, HTP!Levels, HT!Calls, HTP!Calls,
       HT!TripsAtThreshold, HTP!TripsAtThreshold,
       HT!ProbeWaitsForCooldown, HTP!ProbeWaitsForCooldown

(* The registry's circuits keep what HealthTracker promises of every one   *)
(* of them, across crashes too: a closed one is below the threshold, and   *)
(* none is probed before its cooldown.                                     *)
LEMMA BreakerInvariance == Spec => []HTP!IInv
<1>1. HTP!Init => HTP!IInv
  BY TrackerAssumptions, HTP!InitInvariant
<1>2. HTP!IInv /\ [HTP!Next]_HTP!vars => HTP!IInv'
  BY TrackerAssumptions, HTP!NextInvariant
<1>3. Init => HTP!Init
  BY InitKeeps, SameTracker
<1>4. Inv /\ [Next]_vars => [HTP!Next]_HTP!vars \/ HTP!Init'
  <2> SUFFICES ASSUME Inv, [Next]_vars PROVE [HTP!Next]_HTP!vars \/ HTP!Init'
    OBVIOUS
  <2>1. BreakerStep \/ HT!Init'
    BY NextKeeps
  <2>2. HT!Init' => HTP!Init'
    BY SameTracker, PTL
  <2>3. (UNCHANGED HT!vars) => (UNCHANGED HTP!vars)
    BY DEF HT!vars, HTP!vars
  <2> QED
    BY <2>1, <2>2, <2>3, SameTracker DEF BreakerStep
<1> QED
  BY <1>1, <1>2, <1>3, <1>4, Invariance, PTL DEF Spec

THEOREM BreakersAreSafe ==
  Spec => [](HT!TypeOK /\ HT!TripsAtThreshold /\ HT!ProbeWaitsForCooldown)
<1>1. HTP!IInv => HT!TypeOK /\ HT!TripsAtThreshold /\ HT!ProbeWaitsForCooldown
  <2>1. HTP!IInv => HTP!TypeOK /\ HTP!TripsAtThreshold /\ HTP!ProbeWaitsForCooldown
    BY DEF HTP!IInv, HTP!GoodRecord, HTP!TypeOK, HTP!TripsAtThreshold,
           HTP!ProbeWaitsForCooldown
  <2> QED
    BY <2>1, SameTracker
<1> QED
  BY <1>1, BreakerInvariance, PTL

-----------------------------------------------------------------------------
(***************************************************************************)
(* What the coroutines of every run are doing.                             *)
(***************************************************************************)
Open(t) == t.at \in {"asking", "waiting", "calling"}
Quiet(r) == \A j \in Jobs : ~ Open(task[r][j])
Reviewing(r) == {j \in Jobs : task[r][j].at = "calling" /\ task[r][j].agent = Reviewer}

(* Which agent may work for run r on j: an earlier run has left nothing but*)
(* reviewers behind, and the current one has those of its phase.           *)
Expected(r, j, agent) ==
  \/ ~ Live(r) /\ agent = Reviewer /\ j \in Items
  \/ Live(r) /\ phase = "analyze" /\ agent \in Analyzers /\ j \in Items
  \/ Live(r) /\ phase = "review" /\ agent = Reviewer /\ j \in analyzed
  \/ Live(r) /\ phase = "deep_report" /\ agent = DeepReport /\ j = Candidate

Flying ==
  /\ \A r \in Runs, j \in Jobs :
       Open(task[r][j]) => Expected(r, j, task[r][j].agent)
  /\ \A r \in Runs : Cardinality(Reviewing(r)) <= Slots[Reviewer]
  /\ again \subseteq analyzed
  /\ phase = "deep_report" => analyzed # {}

(* A run's status, and that nothing works for a completed one.             *)
Statuses ==
  /\ phase \in Phases /\ outcome \in [Runs -> Outcomes]
  /\ phase # "idle" => outcome[run] = "running"
  /\ \A r \in Runs : /\ r > run => outcome[r] = "none"
                     /\ outcome[r] = "completed" => Quiet(r)

(* The rows of cost_logs against what the runs have spent.                 *)
Ledger ==
  /\ unsaved \in Nat /\ today \in Days
  /\ spent \in [Runs -> Nat] /\ malformed \in [Runs -> Nat]
  /\ costLogs \subseteq Row /\ IsFiniteSet(costLogs)
  /\ \A x \in costLogs : x.id <= Cardinality(costLogs) /\ x.run <= run
  /\ \A r \in Runs : r > run => spent[r] = 0 /\ malformed[r] = 0
  /\ NoCostTwice
  /\ phase # "idle" => Cardinality(RowsOf(run)) + unsaved + malformed[run] = spent[run]
  /\ DatabaseMayFail \/ CompletedRunIsCharged

(* The requests that clients already handed out may still make.            *)
Outstanding ==
  {o \in Runs \X Jobs \X (1..2) :
     CallOf(task[o[1]][o[2]]) # NoProvider /\ o[3] >= task[o[1]][o[2]].attempt}

HandedOut == 2 * Cardinality(Items) + 2 * (MaxRuns - 1) * Slots[Reviewer]
BelowLimit == IF HARD = 0 THEN 0 ELSE HARD - 1

(* Until a process that follows a crash starts its first run, its budget  *)
(* does not hold what the day has cost; and what neither cost_logs nor the *)
(* run in memory has of that is lost.                                      *)
Recorded == spentToday <= spend + lost

Day ==
  /\ spend \in Nat /\ spentToday \in Nat /\ lost \in Nat
  /\ phase = "idle" => unsaved = 0
  /\ Recorded \/ (phase = "idle" /\ \A r \in Runs : Quiet(r))
  /\ spentToday <= LoggedToday + unsaved + lost

Budget == spentToday + Cardinality(Outstanding) <= BelowLimit + HandedOut + lost

-----------------------------------------------------------------------------
(***************************************************************************)
(* The coroutines that fly: who works for which run.                       *)
(***************************************************************************)
LEMMA JobsFinite == IsFiniteSet(Jobs) /\ IsFiniteSet(Items)
<1>1. IsFiniteSet({Candidate})
  BY FS_Singleton
<1> QED
  BY <1>1, ItemsAssumption, FS_Union DEF Jobs

LEMMA ReviewingFinite ==
  ASSUME NEW r \in Runs
  PROVE  /\ IsFiniteSet(Reviewing(r)) /\ Cardinality(Reviewing(r)) \in Nat
         /\ Slots[Reviewer] \in Nat \ {0}
<1>1. IsFiniteSet(Reviewing(r))
  BY JobsFinite, FS_Subset DEF Reviewing
<1> QED
  BY <1>1, FS_CardinalityType, AgentAssumption, AgentsAre

LEMMA AllEndedIsQuiet ==
  ASSUME TasksGood, run \in Runs
  PROVE  AllEnded <=> Quiet(run)
BY DEF AllEnded, Quiet, Open, TasksGood, Task

(* Steps that give no reviewer a slot.                                     *)
LEMMA NoNewReviewer ==
  ASSUME Flying,
         \A r \in Runs, j \in Jobs : (Open(task[r][j]) => Expected(r, j, task[r][j].agent))',
         \A r \in Runs, j \in Jobs :
           task'[r][j].at = "calling" /\ task'[r][j].agent = Reviewer
             => task[r][j].at = "calling" /\ task[r][j].agent = Reviewer,
         again' \subseteq analyzed',
         phase' = "deep_report" => analyzed' # {}
  PROVE  Flying'
<1>1. ASSUME NEW r \in Runs PROVE Cardinality(Reviewing(r)') <= Slots[Reviewer]
  <2>1. Reviewing(r)' \subseteq Reviewing(r)
    BY DEF Reviewing, Open
  <2>2. Cardinality(Reviewing(r)') <= Cardinality(Reviewing(r))
    BY <2>1, ReviewingFinite, FS_Subset
  <2>3. Cardinality(Reviewing(r)') \in Nat
    BY <2>1, ReviewingFinite, FS_Subset, FS_CardinalityType
  <2> QED
    BY <2>2, <2>3, ReviewingFinite DEF Flying
<1> QED
  BY <1>1 DEF Flying, Open

LEMMA StatusesKeep ==
  ASSUME Inv, Flying, Statuses, UNCHANGED run, phase # "idle" => run \in Runs,
         phase' \in Phases,
         \A r \in Runs, j \in Jobs :
           Open(task'[r][j]) => Open(task[r][j]) \/ (r = run /\ phase' # "idle"),
         \/ UNCHANGED outcome /\ (phase' # "idle" => phase # "idle")
         \/ phase # "idle" /\ phase' = "idle" /\ outcome' = [outcome EXCEPT ![run] = "failed"]
         \/ /\ phase # "idle" /\ phase' = "idle" /\ Quiet(run)
            /\ outcome' = [outcome EXCEPT ![run] = "completed"]
  PROVE  Statuses'
<1>1. outcome' \in [Runs -> Outcomes]
  BY DEF Statuses, Outcomes
<1>2. phase' # "idle" => outcome'[run'] = "running"
  BY DEF Statuses
<1>3. ASSUME NEW r \in Runs PROVE r > run' => outcome'[r] = "none"
  BY BoundAssumption DEF Statuses, Inv, Runs
<1>4. ASSUME NEW r \in Runs, outcome'[r] = "completed", NEW j \in Jobs, Open(task'[r][j])
      PROVE  FALSE
  <2>1. ~ (r = run /\ phase' # "idle")
    BY <1>2, <1>4
  <2>2. Open(task[r][j])
    BY <1>4, <2>1
  <2>3. outcome[r] # "completed"
    BY <2>2 DEF Statuses, Quiet
  <2>4. r = run /\ Quiet(run)
    BY <1>4, <2>3 DEF Statuses
  <2> QED
    BY <2>2, <2>4 DEF Quiet
<1> QED
  BY <1>1, <1>2, <1>3, <1>4 DEF Statuses, Quiet, Open

Flight == Flying /\ Statuses

LEMMA StartRunFlies == Inv /\ Flight /\ StartRun => Flight'
<1> SUFFICES ASSUME Inv, Flight, StartRun PROVE Flight'
  OBVIOUS
<1> DEFINE row == [j \in Jobs |-> IF j \in Items
                                    THEN [at |-> "asking", agent |-> AnalyzerOf[j],
                                          provider |-> NoProvider, attempt |-> 1]
                                    ELSE NoTask]
<1>1. /\ phase = "idle" /\ phase' = "analyze" /\ run' = run + 1
      /\ task' = [task EXCEPT ![run + 1] = row]
      /\ analyzed' = {} /\ again' = {}
      /\ outcome' = [outcome EXCEPT ![run + 1] = "running"]
  BY DEF StartRun
<1>2. run \in Nat /\ run + 1 \in Runs
  BY BoundAssumption DEF Inv, StartRun, Runs
<1>3. \A r \in Runs : task'[r] = IF r = run + 1 THEN row ELSE task[r]
  BY <1>1, <1>2 DEF Inv, TasksGood
<1>4. \A j \in Jobs : /\ row[j].at \in {"asking", "none"}
                      /\ row[j].at = "asking" => j \in Items /\ row[j].agent \in Analyzers
  BY AgentAssumption DEF NoTask
<1> HIDE DEF row
<1>5. Flying'
  <2>1. ASSUME NEW r \in Runs, NEW j \in Jobs, Open(task'[r][j])
        PROVE  Expected(r, j, task[r][j].agent)'
    <3>1. CASE r = run + 1
      BY <1>1, <1>3, <1>4, <2>1, <3>1 DEF Expected, Live, Open
    <3>2. CASE r # run + 1
      <4>1. Expected(r, j, task[r][j].agent)
        BY <1>3, <2>1, <3>2 DEF Flight, Flying
      <4> QED
        BY <1>1, <1>3, <3>2, <4>1 DEF Expected, Live
    <3> QED
      BY <3>1, <3>2
  <2>2. ASSUME NEW r \in Runs, NEW j \in Jobs, task'[r][j].at = "calling"
        PROVE  task'[r][j] = task[r][j]
    BY <1>3, <1>4, <2>2
  <2> QED
    BY <1>1, <2>1, <2>2, NoNewReviewer DEF Flight, Open
<1>6. Statuses'
  <2>1. outcome' \in [Runs -> Outcomes] /\ outcome'[run'] = "running"
    BY <1>1, <1>2 DEF Flight, Statuses, Outcomes
  <2>2. ASSUME NEW r \in Runs PROVE r > run' => outcome'[r] = "none"
    BY <1>1, <1>2 DEF Flight, Statuses, Runs
  <2>3. ASSUME NEW r \in Runs, outcome'[r] = "completed" PROVE Quiet(r)'
    BY <1>1, <1>2, <1>3, <2>3 DEF Flight, Statuses, Quiet, Open
  <2>4. phase' \in Phases
    BY <1>1 DEF Phases
  <2> QED
    BY <2>1, <2>2, <2>3, <2>4 DEF Statuses
<1> QED
  BY <1>5, <1>6 DEF Flight

(* Within a run: coroutines that end, are answered, or wait for a slot.    *)
LEMMA CalmFlies ==
  ASSUME Inv, Flight, UNCHANGED <<run, phase, outcome>>,
         \A r \in Runs, j \in Jobs :
           /\ Open(task'[r][j]) => /\ Open(task[r][j])
                                   /\ task'[r][j].agent = task[r][j].agent
           /\ task'[r][j].at = "calling" /\ task'[r][j].agent = Reviewer
                => task[r][j].at = "calling" /\ task[r][j].agent = Reviewer,
         analyzed \subseteq analyzed', again' \subseteq analyzed'
  PROVE  Flight'
<1>1. ASSUME NEW r \in Runs, NEW j \in Jobs, Open(task'[r][j])
      PROVE  Expected(r, j, task[r][j].agent)'
  <2>1. Expected(r, j, task[r][j].agent) /\ task'[r][j].agent = task[r][j].agent
    BY <1>1 DEF Flight, Flying
  <2> QED
    BY <2>1 DEF Expected, Live
<1>2. phase' = "deep_report" => analyzed' # {}
  BY DEF Flight, Flying
<1>3. Flying'
  BY <1>1, <1>2, NoNewReviewer DEF Flight, Open
<1>4. Statuses'
  <2>1. phase' \in Phases /\ (phase # "idle" => run \in Runs)
    BY CurrentRun DEF Flight, Statuses
  <2>2. \A r \in Runs, j \in Jobs : Open(task'[r][j]) => Open(task[r][j])
    OBVIOUS
  <2>3. run' = run /\ outcome' = outcome /\ (phase' # "idle" => phase # "idle")
    OBVIOUS
  <2> QED
    BY <2>1, <2>2, <2>3, StatusesKeep DEF Flight
<1> QED
  BY <1>3, <1>4 DEF Flight

(* The steps that end a run, or go to the next phase when all have ended.  *)
LEMMA QuietFlies ==
  ASSUME Inv, Flight, UNCHANGED <<run, task, analyzed, again>>, run \in Runs,
         phase # "idle", phase' \in Phases, Quiet(run),
         phase' = "deep_report" => analyzed # {},
         \/ phase' # "idle" /\ UNCHANGED outcome
         \/ phase' = "idle" /\ outcome' = [outcome EXCEPT ![run] = "failed"]
         \/ phase' = "idle" /\ outcome' = [outcome EXCEPT ![run] = "completed"]
  PROVE  Flight'
<1>1. ASSUME NEW r \in Runs, NEW j \in Jobs, Open(task'[r][j])
      PROVE  Expected(r, j, task[r][j].agent)'
  <2>1. r # run
    BY <1>1 DEF Quiet
  <2>2. Expected(r, j, task[r][j].agent)
    BY <1>1 DEF Flight, Flying
  <2> QED
    BY <2>1, <2>2 DEF Expected, Live
<1>2. Flying'
  <2>1. again' \subseteq analyzed'
    BY DEF Flight, Flying
  <2> QED
    BY <1>1, <2>1, NoNewReviewer DEF Flight, Open
<1>3. Statuses'
  <2>1. \A r \in Runs, j \in Jobs : Open(task'[r][j]) => Open(task[r][j])
    BY DEF Open
  <2>2. run' = run /\ task' = task
    OBVIOUS
  <2> QED
    BY <2>1, <2>2, StatusesKeep DEF Flight
<1> QED
  BY <1>2, <1>3 DEF Flight

(* What an answer leaves of its coroutine.                                 *)
LEMMA AnsweredTask ==
  ASSUME Inv, NEW r \in Runs, NEW j \in Jobs, task[r][j].at = "calling",
         AttemptEnds(r, j) \/ task' = [task EXCEPT ![r][j].at = "ended"]
  PROVE  \E u \in Task :
           /\ task' = [task EXCEPT ![r][j] = u]
           /\ u.agent = task[r][j].agent
           /\ \/ u.at = "ended"
              \/ u.at = "calling" /\ task[r][j].attempt = 1 /\ u.attempt = 2
<1> DEFINE t == task[r][j]
           ended == [t EXCEPT !.at = "ended"]
           second == [t EXCEPT !.attempt = 2]
<1>1. t \in Task /\ t.at = "calling" /\ task \in [Runs -> [Jobs -> Task]]
  BY DEF Inv, TasksGood
<1>2. \/ task' = [task EXCEPT ![r][j] = ended]
      \/ t.attempt = 1 /\ task' = [task EXCEPT ![r][j] = second]
  <2>1. CASE task' = [task EXCEPT ![r][j].at = "ended"]
    BY <1>1, <2>1
  <2>2. CASE AttemptEnds(r, j)
    <3>1. task' = [task EXCEPT ![r][j] = IF t.attempt = 1 THEN second ELSE ended]
      BY <1>1, <2>2 DEF AttemptEnds
    <3> QED
      BY <3>1
  <2> QED
    BY <2>1, <2>2
<1> HIDE DEF t
<1>3. ended \in Task /\ ended.at = "ended" /\ ended.agent = t.agent
  BY <1>1 DEF Task
<1>4. second \in Task /\ second.at = "calling" /\ second.agent = t.agent /\ second.attempt = 2
  BY <1>1 DEF Task
<1> HIDE DEF ended, second
<1> QED
  BY <1>2, <1>3, <1>4 DEF t

LEMMA AnalyzerStartsFlies ==
  ASSUME Inv, Flight, NEW a \in Analyzers, AnalyzerStarts(a)
  PROVE  Flight'
<1> DEFINE p == ClientFor(a)
           mine == {i \in Items : AnalyzerOf[i] = a}
           row == [j \in Jobs |->
                     IF j \notin mine THEN task[run][j]
                     ELSE [task[run][j] EXCEPT !.provider = p,
                             !.at = IF p = NoProvider THEN "ended" ELSE "waiting"]]
<1>1. /\ phase = "analyze" /\ task' = [task EXCEPT ![run] = row]
      /\ \A i \in mine : task[run][i].at = "asking"
      /\ UNCHANGED <<run, phase, outcome, analyzed, again>>
  BY DEF AnalyzerStarts
<1>2. run \in Runs
  BY <1>1, CurrentRun
<1>3. \A r \in Runs : task'[r] = IF r = run THEN row ELSE task[r]
  BY <1>1, <1>2 DEF Inv, TasksGood
<1>4. \A j \in Jobs : task[run][j] \in Task
  BY <1>2 DEF Inv, TasksGood
<1>5. ASSUME NEW j \in Jobs
      PROVE  \/ row[j] = task[run][j]
             \/ /\ task[run][j].at = "asking" /\ row[j].at \in {"ended", "waiting"}
                /\ row[j].agent = task[run][j].agent
  <2>1. CASE j \in mine
    <3> DEFINE t == task[run][j]
               at == IF p = NoProvider THEN "ended" ELSE "waiting"
    <3>1. t \in Task /\ t.at = "asking" /\ row[j] = [t EXCEPT !.provider = p, !.at = at]
      BY <1>1, <1>4, <2>1
    <3>2. at \in {"ended", "waiting"}
      OBVIOUS
    <3> HIDE DEF t, p, at
    <3>3. [t EXCEPT !.provider = p, !.at = at].at = at
      BY <3>1 DEF Task
    <3>4. [t EXCEPT !.provider = p, !.at = at].agent = t.agent
      BY <3>1 DEF Task
    <3> QED
      BY <3>1, <3>2, <3>3, <3>4 DEF t
  <2>2. CASE j \notin mine
    BY <2>2
  <2> QED
    BY <2>1, <2>2
<1> HIDE DEF row, mine
<1>6. again' \subseteq analyzed'
  BY <1>1 DEF Flight, Flying
<1> QED
  BY <1>1, <1>3, <1>5, <1>6, CalmFlies DEF Open

LEMMA AnalyzerCallsFlies ==
  ASSUME Inv, Flight, NEW r \in Runs, NEW j \in Jobs, AnalyzerCalls(r, j)
  PROVE  Flight'
<1> DEFINE t == task[r][j]
           u == [t EXCEPT !.at = "calling"]
<1>1. /\ t.at = "waiting" /\ t.agent \in Analyzers /\ task' = [task EXCEPT ![r][j] = u]
      /\ UNCHANGED <<run, phase, outcome, analyzed, again>>
  BY DEF AnalyzerCalls, Inv, TasksGood
<1>2. t \in Task
  BY DEF Inv, TasksGood
<1> HIDE DEF t
<1>3. u.agent = t.agent
  BY <1>2 DEF Task
<1>4. t.agent # Reviewer
  BY <1>1, NameAssumption
<1> HIDE DEF u
<1>5. \A s \in Runs, k \in Jobs : task'[s][k] = IF s = r /\ k = j THEN u ELSE task[s][k]
  BY <1>1 DEF Inv, TasksGood
<1>6. again' \subseteq analyzed'
  BY <1>1 DEF Flight, Flying
<1> QED
  BY <1>1, <1>3, <1>4, <1>5, <1>6, CalmFlies DEF Open, t

(* What an answer does to its coroutine and to what the run knows.         *)
LEMMA AnswerFlies ==
  ASSUME Inv, Flight, NEW r \in Runs, NEW j \in Jobs, task[r][j].at = "calling",
         AttemptEnds(r, j) \/ task' = [task EXCEPT ![r][j].at = "ended"],
         UNCHANGED <<run, phase, outcome>>,
         analyzed \subseteq analyzed', again' \subseteq analyzed'
  PROVE  Flight'
<1>1. PICK u : /\ task' = [task EXCEPT ![r][j] = u]
               /\ u.agent = task[r][j].agent
               /\ u.at \in {"ended", "calling"}
  BY AnsweredTask
<1>2. \A s \in Runs, k \in Jobs : task'[s][k] = IF s = r /\ k = j THEN u ELSE task[s][k]
  BY <1>1 DEF Inv, TasksGood
<1> QED
  BY <1>1, <1>2, CalmFlies DEF Open

LEMMA ParsedFlies ==
  ASSUME Inv, Flight, NEW r \in Runs, NEW j \in Jobs, Parsed(r, j)
  PROVE  Flight'
<1>1. /\ task[r][j].at = "calling" /\ task' = [task EXCEPT ![r][j].at = "ended"]
      /\ UNCHANGED <<run, phase, outcome>>
  BY DEF Parsed
<1>2. again \subseteq analyzed
  BY DEF Flight, Flying
<1>3. analyzed \subseteq analyzed' /\ again' \subseteq analyzed'
  <2>1. CASE ~ Live(r) \/ j = Candidate
    BY <1>2, <2>1 DEF Parsed
  <2>2. CASE Live(r) /\ j # Candidate /\ task[r][j].agent # Reviewer
    BY <1>2, <2>2 DEF Parsed
  <2>3. CASE Live(r) /\ j # Candidate /\ task[r][j].agent = Reviewer
    <3>1. Open(task[r][j])
      BY <1>1 DEF Open
    <3>2. Expected(r, j, Reviewer)
      BY <2>3, <3>1 DEF Flight, Flying
    <3>3. j \in analyzed
      BY <2>3, <3>2, NameAssumption DEF Expected
    <3>4. again' \subseteq again \union {j} /\ analyzed' = analyzed
      BY <2>3 DEF Parsed
    <3> QED
      BY <1>2, <3>3, <3>4
  <2> QED
    BY <2>1, <2>2, <2>3
<1> QED
  BY <1>1, <1>3, AnswerFlies

LEMMA UnparsedFlies ==
  ASSUME Inv, Flight, NEW r \in Runs, NEW j \in Jobs, NEW recorded \in BOOLEAN,
         Unparsed(r, j, recorded)
  PROVE  Flight'
<1>1. /\ task[r][j].at = "calling" /\ AttemptEnds(r, j)
      /\ again' \subseteq again /\ UNCHANGED <<run, phase, outcome, analyzed>>
  BY DEF Unparsed
<1>2. again \subseteq analyzed
  BY DEF Flight, Flying
<1> QED
  BY <1>1, <1>2, AnswerFlies

LEMMA RequestFailsFlies ==
  ASSUME Inv, Flight, NEW r \in Runs, NEW j \in Jobs, RequestFails(r, j)
  PROVE  Flight'
<1>1. /\ task[r][j].at = "calling" /\ AttemptEnds(r, j)
      /\ again' \subseteq again /\ UNCHANGED <<run, phase, outcome, analyzed>>
  BY DEF RequestFails
<1>2. again \subseteq analyzed
  BY DEF Flight, Flying
<1> QED
  BY <1>1, <1>2, AnswerFlies

(* A reviewer takes a free slot, or fails its run and leaves the others of *)
(* its round behind.                                                       *)
LEMMA ReviewerCallsFlies ==
  ASSUME Inv, Flight, NEW r \in Runs, NEW j \in Jobs, ReviewerCalls(r, j)
  PROVE  Flight'
<1> DEFINE p == ClientFor(Reviewer)
           t == task[r][j]
           at == IF p = NoProvider THEN "ended" ELSE "calling"
           u == [t EXCEPT !.provider = p, !.at = at]
<1>1. t \in Task /\ task \in [Runs -> [Jobs -> Task]]
  BY DEF Inv, TasksGood
<1>2. /\ t.at = "waiting" /\ t.agent = Reviewer /\ SlotFree(r, Reviewer)
      /\ task' = [task EXCEPT ![r][j] = u]
      /\ UNCHANGED <<run, analyzed, again>>
  <2>1. /\ t.at = "waiting" /\ t.agent = Reviewer /\ SlotFree(r, Reviewer)
        /\ task' = [task EXCEPT ![r][j].provider = p, ![r][j].at = at]
        /\ UNCHANGED <<run, analyzed, again>>
    BY DEF ReviewerCalls
  <2> HIDE DEF p, at
  <2>2. task' = [task EXCEPT ![r][j] = u]
    BY <1>1, <2>1
  <2> QED
    BY <2>1, <2>2
<1>3. \/ /\ p = NoProvider /\ Live(r) /\ phase' = "idle"
         /\ outcome' = [outcome EXCEPT ![run] = "failed"]
      \/ ~ (p = NoProvider /\ Live(r)) /\ UNCHANGED <<phase, outcome>>
  BY DEF ReviewerCalls, RunFails
<1> HIDE DEF t, p
<1>4. u.at = at /\ u.agent = Reviewer
  <2> HIDE DEF at
  <2>1. u.at = at
    BY <1>1 DEF Task
  <2>2. u.agent = t.agent
    BY <1>1 DEF Task
  <2> QED
    BY <1>2, <2>1, <2>2
<1> HIDE DEF u
<1>5. \A s \in Runs, k \in Jobs : task'[s][k] = IF s = r /\ k = j THEN u ELSE task[s][k]
  BY <1>2 DEF Inv, TasksGood
<1>6. \A s \in Runs, k \in Jobs :
        Open(task'[s][k]) => Open(task[s][k]) /\ task'[s][k].agent = task[s][k].agent
  BY <1>2, <1>4, <1>5 DEF Open, t
<1>7. again' \subseteq analyzed'
  BY <1>2 DEF Flight, Flying
<1>8. CASE p = NoProvider /\ Live(r)
  <2>1. u.at = "ended"
    BY <1>4, <1>8
  <2>2. r = run /\ phase # "idle" /\ phase' = "idle" /\ Open(task[r][j])
    BY <1>2, <1>3, <1>8 DEF Live, Open, t
  <2>3. phase = "review" /\ analyzed \subseteq Items
    <3>1. Expected(r, j, Reviewer)
      BY <1>2, <2>2 DEF Flight, Flying, t
    <3> QED
      BY <1>8, <3>1, NameAssumption DEF Expected, Inv, Reviewer, DeepReport
  <2>4. ASSUME NEW s \in Runs, NEW k \in Jobs, Open(task'[s][k])
        PROVE  Expected(s, k, task[s][k].agent)'
    <3>1. Expected(s, k, task[s][k].agent) /\ task'[s][k].agent = task[s][k].agent
      BY <1>6, <2>4 DEF Flight, Flying
    <3> QED
      BY <1>2, <2>2, <2>3, <3>1 DEF Expected, Live
  <2>5. Flying'
    BY <1>5, <1>7, <2>1, <2>2, <2>4, NoNewReviewer DEF Flight, Open
  <2>6. Statuses'
    <3>1. phase' \in Phases /\ run \in Runs
      BY <2>2 DEF Phases
    <3> QED
      BY <1>2, <1>3, <1>6, <1>8, <2>2, <3>1, StatusesKeep DEF Flight
  <2> QED
    BY <2>5, <2>6 DEF Flight
<1>9. CASE p = NoProvider /\ ~ Live(r)
  <2>1. u.at = "ended" /\ UNCHANGED <<phase, outcome>>
    BY <1>3, <1>4, <1>9
  <2> QED
    BY <1>2, <1>5, <1>6, <1>7, <2>1, CalmFlies
<1>10. CASE p # NoProvider
  <2>1. u.at = "calling" /\ UNCHANGED <<phase, outcome>>
    BY <1>3, <1>4, <1>10
  <2>2. ASSUME NEW s \in Runs, NEW k \in Jobs, Open(task'[s][k])
        PROVE  Expected(s, k, task[s][k].agent)'
    <3>1. Expected(s, k, task[s][k].agent) /\ task'[s][k].agent = task[s][k].agent
      BY <1>6, <2>2 DEF Flight, Flying
    <3> QED
      BY <1>2, <2>1, <3>1 DEF Expected, Live
  <2>3. ASSUME NEW s \in Runs PROVE Cardinality(Reviewing(s)') <= Slots[Reviewer]
    <3>1. CASE s # r
      <4>1. Reviewing(s)' = Reviewing(s)
        BY <1>5, <3>1 DEF Reviewing
      <4> QED
        BY <4>1 DEF Flight, Flying
    <3>2. CASE s = r
      <4>1. Reviewing(r)' = Reviewing(r) \union {j}
        BY <1>4, <1>5, <2>1 DEF Reviewing
      <4>2. j \notin Reviewing(r)
        BY <1>2 DEF Reviewing, t
      <4>3. Cardinality(Reviewing(r)') = Cardinality(Reviewing(r)) + 1
        BY <4>1, <4>2, ReviewingFinite, FS_AddElement
      <4>4. Cardinality(Reviewing(r)) < Slots[Reviewer]
        BY <1>2 DEF SlotFree, Reviewing
      <4> QED
        BY <3>2, <4>3, <4>4, ReviewingFinite
    <3> QED
      BY <3>1, <3>2
  <2>4. Flying'
    BY <1>2, <1>7, <2>1, <2>2, <2>3 DEF Flight, Flying, Open
  <2>5. Statuses'
    <3>1. phase' \in Phases /\ (phase # "idle" => run \in Runs)
      BY <2>1, CurrentRun DEF Flight, Statuses
    <3> QED
      BY <1>2, <1>6, <2>1, <3>1, StatusesKeep DEF Flight
  <2> QED
    BY <2>4, <2>5 DEF Flight
<1> QED
  BY <1>8, <1>9, <1>10

(* Nothing works for a run while its results or its costs are saved.       *)
LEMMA SavingIsQuiet ==
  ASSUME Inv, Flight,
         \/ phase \in {"persist", "deep_save"}
         \/ phase = "deep_report" /\ task[run][Candidate].at = "ended"
  PROVE  run \in Runs /\ Quiet(run)
<1>1. run \in Runs /\ Live(run)
  BY CurrentRun DEF Live
<1>2. ASSUME NEW j \in Jobs, Open(task[run][j]) PROVE FALSE
  <2>1. Expected(run, j, task[run][j].agent)
    BY <1>1, <1>2 DEF Flight, Flying
  <2>2. phase = "deep_report" /\ j = Candidate
    BY <1>1, <2>1 DEF Expected
  <2> QED
    BY <1>2, <2>2 DEF Open
<1> QED
  BY <1>1, <1>2 DEF Quiet

LEMMA ReviewRoundFlies ==
  ASSUME Inv, Flight, AllEnded, phase \in {"analyze", "review"},
         NEW S \in SUBSET analyzed, NEW n, ReviewRound(S, n)
  PROVE  Flight'
<1> DEFINE p == ClientFor(Reviewer)
           called == IF n < MAX_RETRIES THEN S ELSE {}
           waiting == [NoTask EXCEPT !.at = "waiting"]
           row == [j \in Jobs |-> IF j \in called THEN waiting ELSE task[run][j]]
<1>1. run \in Runs /\ Quiet(run) /\ UNCHANGED <<run, analyzed>>
  BY CurrentRun, AllEndedIsQuiet DEF Inv, ReviewRound
<1>2. CASE p = NoProvider
  <2>1. /\ phase' = "idle" /\ UNCHANGED <<task, again>>
        /\ outcome' = [outcome EXCEPT ![run] = "failed"]
    BY <1>2 DEF ReviewRound, RunFails
  <2> QED
    BY <1>1, <2>1, QuietFlies DEF Phases
<1>3. CASE p # NoProvider
  <2>1. /\ phase' = "review" /\ task' = [task EXCEPT ![run] = row]
        /\ again' = again \ (S \ called) /\ UNCHANGED outcome
    BY <1>3 DEF ReviewRound
  <2>2. called \subseteq analyzed
    OBVIOUS
  <2>3. waiting.at = "waiting" /\ waiting.agent = Reviewer
    BY DEF NoTask
  <2> HIDE DEF called, waiting
  <2>4. \A j \in Jobs : row[j] = IF j \in called THEN waiting ELSE task[run][j]
    OBVIOUS
  <2>5. \A r \in Runs : task'[r] = IF r = run THEN row ELSE task[r]
    BY <1>1, <2>1 DEF Inv, TasksGood
  <2> HIDE DEF row
  <2>6. ASSUME NEW r \in Runs, NEW j \in Jobs, Open(task'[r][j])
        PROVE  Expected(r, j, task[r][j].agent)'
    <3>1. CASE r = run
      <4>1. j \in called
        BY <1>1, <2>4, <2>5, <2>6, <3>1 DEF Quiet
      <4>2. task'[r][j].agent = Reviewer
        BY <2>3, <2>4, <2>5, <3>1, <4>1
      <4> QED
        BY <1>1, <2>1, <2>2, <3>1, <4>1, <4>2 DEF Expected, Live
    <3>2. CASE r # run
      <4>1. Expected(r, j, task[r][j].agent) /\ task'[r][j] = task[r][j]
        BY <2>5, <2>6, <3>2 DEF Flight, Flying
      <4> QED
        BY <1>1, <3>2, <4>1 DEF Expected, Live
    <3> QED
      BY <3>1, <3>2
  <2>7. \A r \in Runs, j \in Jobs : task'[r][j].at = "calling" => task'[r][j] = task[r][j]
    BY <2>3, <2>4, <2>5
  <2>8. Flying'
    <3>1. again' \subseteq analyzed'
      BY <1>1, <2>1 DEF Flight, Flying
    <3> QED
      BY <2>1, <2>6, <2>7, <3>1, NoNewReviewer DEF Flight, Open
  <2>9. Statuses'
    <3>1. \A r \in Runs, j \in Jobs :
            Open(task'[r][j]) => Open(task[r][j]) \/ (r = run /\ phase' # "idle")
      BY <2>1, <2>5
    <3>2. phase' \in Phases /\ phase # "idle"
      BY <2>1 DEF Phases
    <3> QED
      BY <1>1, <2>1, <3>1, <3>2, StatusesKeep DEF Flight
  <2> QED
    BY <2>8, <2>9 DEF Flight
<1> QED
  BY <1>2, <1>3

LEMMA AnalyzeDoneFlies == Inv /\ Flight /\ AnalyzeDone => Flight'
<1> SUFFICES ASSUME Inv, Flight, AnalyzeDone PROVE Flight'
  OBVIOUS
<1>1. phase = "analyze" /\ AllEnded
  BY DEF AnalyzeDone
<1>2. CASE analyzed = {}
  <2>1. phase' = "persist" /\ UNCHANGED <<run, task, analyzed, again, outcome>>
    BY <1>2 DEF AnalyzeDone
  <2>2. run \in Runs /\ Quiet(run)
    BY <1>1, CurrentRun, AllEndedIsQuiet DEF Inv
  <2> QED
    BY <1>1, <2>1, <2>2, QuietFlies DEF Phases
<1>3. CASE analyzed # {}
  <2>1. ReviewRound(analyzed, 0)
    BY <1>3 DEF AnalyzeDone
  <2> QED
    BY <1>1, <2>1, ReviewRoundFlies
<1> QED
  BY <1>2, <1>3

LEMMA ReviewDoneFlies == Inv /\ Flight /\ ReviewDone => Flight'
<1> SUFFICES ASSUME Inv, Flight, ReviewDone PROVE Flight'
  OBVIOUS
<1>1. phase = "review" /\ AllEnded /\ again \in SUBSET analyzed
  BY DEF ReviewDone, Flight, Flying
<1>2. CASE again = {} \/ round = MAX_RETRIES
  <2>1. phase' = "persist" /\ UNCHANGED <<run, task, analyzed, again, outcome>>
    BY <1>2 DEF ReviewDone
  <2>2. run \in Runs /\ Quiet(run)
    BY <1>1, CurrentRun, AllEndedIsQuiet DEF Inv
  <2> QED
    BY <1>1, <2>1, <2>2, QuietFlies DEF Phases
<1>3. CASE ~ (again = {} \/ round = MAX_RETRIES)
  <2>1. ReviewRound(again, round + 1)
    BY <1>3 DEF ReviewDone
  <2> QED
    BY <1>1, <2>1, ReviewRoundFlies
<1> QED
  BY <1>2, <1>3

LEMMA PersistedFlies == Inv /\ Flight /\ Persisted => Flight'
<1> SUFFICES ASSUME Inv, Flight, Persisted PROVE Flight'
  OBVIOUS
<1> DEFINE p == ClientFor(DeepReport)
           c == [at |-> "calling", agent |-> DeepReport, provider |-> p, attempt |-> 1]
<1>1. phase = "persist" /\ UNCHANGED <<run, analyzed, again>>
  BY DEF Persisted
<1>2. run \in Runs /\ Quiet(run)
  BY <1>1, SavingIsQuiet
<1>3. \/ /\ phase' = "idle" /\ UNCHANGED task
         /\ \/ outcome' = [outcome EXCEPT ![run] = "failed"]
            \/ outcome' = [outcome EXCEPT ![run] = "completed"]
      \/ /\ analyzed # {} /\ phase' = "deep_report" /\ UNCHANGED outcome
         /\ task' = [task EXCEPT ![run][Candidate] = c]
  <2> HIDE DEF p
  <2>1. CASE analyzed = {}
    BY <2>1 DEF Persisted, RunFails
  <2>2. CASE analyzed # {}
    BY <2>2 DEF Persisted, RunCompletes, p
  <2> QED
    BY <2>1, <2>2
<1>4. CASE phase' = "idle"
  BY <1>1, <1>2, <1>3, <1>4, QuietFlies DEF Phases
<1>5. CASE phase' # "idle"
  <2>1. /\ analyzed # {} /\ phase' = "deep_report" /\ UNCHANGED outcome
        /\ task' = [task EXCEPT ![run][Candidate] = c]
    BY <1>3, <1>5
  <2>2. c.agent = DeepReport /\ c.agent # Reviewer
    BY DEF DeepReport, Reviewer
  <2> HIDE DEF c
  <2>3. \A r \in Runs, j \in Jobs :
          task'[r][j] = IF r = run /\ j = Candidate THEN c ELSE task[r][j]
    BY <1>2, <2>1 DEF Inv, TasksGood
  <2>4. ASSUME NEW r \in Runs, NEW j \in Jobs, Open(task'[r][j])
        PROVE  Expected(r, j, task[r][j].agent)'
    <3>1. CASE r = run
      <4>1. j = Candidate
        BY <1>2, <2>3, <2>4, <3>1 DEF Quiet
      <4> QED
        BY <1>1, <2>1, <2>2, <2>3, <3>1, <4>1 DEF Expected, Live
    <3>2. CASE r # run
      <4>1. Expected(r, j, task[r][j].agent) /\ task'[r][j] = task[r][j]
        BY <2>3, <2>4, <3>2 DEF Flight, Flying
      <4> QED
        BY <1>1, <3>2, <4>1 DEF Expected, Live
    <3> QED
      BY <3>1, <3>2
  <2>5. Flying'
    <3>1. again' \subseteq analyzed' /\ analyzed' # {}
      BY <1>1, <2>1 DEF Flight, Flying
    <3> QED
      BY <2>2, <2>3, <2>4, <3>1, NoNewReviewer DEF Flight, Open
  <2>6. Statuses'
    <3>1. \A r \in Runs, j \in Jobs :
            Open(task'[r][j]) => Open(task[r][j]) \/ (r = run /\ phase' # "idle")
      BY <2>1, <2>3
    <3>2. phase' \in Phases /\ phase # "idle"
      BY <1>1, <2>1 DEF Phases
    <3> QED
      BY <1>1, <1>2, <2>1, <3>1, <3>2, StatusesKeep DEF Flight
  <2> QED
    BY <2>5, <2>6 DEF Flight
<1> QED
  BY <1>4, <1>5

(* A crash leaves nobody behind.                                           *)
LEMMA CrashFlies == Inv /\ Flight /\ Crash => Flight'
<1> SUFFICES ASSUME Inv, Flight, Crash PROVE Flight'
  OBVIOUS
<1>1. /\ phase' = "idle" /\ UNCHANGED <<run, outcome>>
      /\ analyzed' = {} /\ again' = {}
  BY DEF Crash
<1>2. \A r \in Runs, j \in Jobs : ~ Open(task'[r][j]) /\ task'[r][j].at # "calling"
  BY DEF Crash, Open, NoTask
<1>3. Flying'
  BY <1>1, <1>2, NoNewReviewer DEF Flight, Open
<1>4. Statuses'
  BY <1>1, <1>2, CurrentRun, StatusesKeep DEF Flight, Phases
<1> QED
  BY <1>3, <1>4 DEF Flight

LEMMA NextFlies == Inv /\ Flight /\ [Next]_vars => Flight'
<1> SUFFICES ASSUME Inv, Flight, [Next]_vars PROVE Flight'
  OBVIOUS
<1>1. ASSUME UNCHANGED <<run, phase, outcome, task, analyzed, again>> PROVE Flight'
  BY <1>1, CalmFlies DEF Flight, Flying
<1>2. CASE StartRun
  BY <1>2, StartRunFlies
<1>3. ASSUME NEW a \in Analyzers, AnalyzerStarts(a) PROVE Flight'
  BY <1>3, AnalyzerStartsFlies
<1>4. ASSUME NEW r \in Runs, NEW j \in Jobs, Coroutine(r, j) PROVE Flight'
  BY <1>4, AnalyzerCallsFlies, ReviewerCallsFlies, ParsedFlies, UnparsedFlies,
     RequestFailsFlies DEF Coroutine
<1>5. CASE AnalyzeDone
  BY <1>5, AnalyzeDoneFlies
<1>6. CASE ReviewDone
  BY <1>6, ReviewDoneFlies
<1>7. CASE SaveCost
  BY <1>1, <1>7 DEF SaveCost
<1>8. CASE SaveFails
  BY <1>8, SavingIsQuiet, QuietFlies DEF SaveFails, RunFails, RunCompletes, Phases
<1>9. CASE Persisted
  BY <1>9, PersistedFlies
<1>10. CASE DeepReportDone
  BY <1>10, SavingIsQuiet, QuietFlies DEF DeepReportDone, Phases
<1>11. CASE DeepReportSaved
  BY <1>11, SavingIsQuiet, QuietFlies DEF DeepReportSaved, RunCompletes, Phases
<1>12. CASE NewDay
  BY <1>1, <1>12 DEF NewDay
<1>13. ASSUME NEW p \in Providers, Elapse(p) PROVE Flight'
  BY <1>1, <1>13 DEF Elapse
<1>14. CASE Crash
  BY <1>14, CrashFlies
<1>15. CASE UNCHANGED vars
  BY <1>1, <1>15 DEF vars, memory
<1> QED
  BY <1>2, <1>3, <1>4, <1>5, <1>6, <1>7, <1>8, <1>9, <1>10, <1>11, <1>12, <1>13, <1>14,
     <1>15 DEF Next, RunStep, Idle

LEMMA InitFlies == Init => Flight
<1> SUFFICES ASSUME Init PROVE Flight
  OBVIOUS
<1>1. \A r \in Runs, j \in Jobs : task[r][j].at = "none"
  BY DEF Init, NoTask
<1>2. \A r \in Runs, j \in Jobs : ~ Open(task[r][j])
  BY <1>1 DEF Open
<1>3. ASSUME NEW r \in Runs PROVE Cardinality(Reviewing(r)) <= Slots[Reviewer]
  <2>1. Reviewing(r) = {}
    BY <1>1 DEF Reviewing
  <2> QED
    BY <2>1, ReviewingFinite, FS_EmptySet
<1> QED
  BY <1>2, <1>3 DEF Init, Flight, Flying, Statuses, Quiet, Phases, Outcomes

LEMMA FlightInvariance == Spec => []Flight
BY InitFlies, NextFlies, Invariance, PTL DEF Spec

-----------------------------------------------------------------------------
(***************************************************************************)
(* What the calls cost, and what of it is in cost_logs.                    *)
(***************************************************************************)
LEMMA RowsFinite ==
  ASSUME Ledger, NEW r
  PROVE  IsFiniteSet(RowsOf(r)) /\ Cardinality(RowsOf(r)) \in Nat
<1>1. RowsOf(r) \subseteq costLogs
  BY DEF RowsOf
<1> QED
  BY <1>1, FS_Subset, FS_CardinalityType DEF Ledger

(* Steps that neither charge a call nor save one.                          *)
LEMMA LedgerStays ==
  ASSUME Ledger, UNCHANGED <<run, costLogs, spent, malformed>>,
         today' \in Days, unsaved' \in Nat,
         phase' # "idle" => phase # "idle" /\ unsaved' = unsaved,
         \A r \in Runs :
           outcome'[r] = "completed" =>
             \/ outcome[r] = "completed"
             \/ r = run /\ phase # "idle" /\ (DatabaseMayFail \/ unsaved = 0)
  PROVE  Ledger'
<1>1. \A r \in Runs : RowsOf(r)' = RowsOf(r) /\ Cardinality(RowsOf(r)) \in Nat
  BY RowsFinite DEF RowsOf
<1>2. ASSUME NEW r \in Runs
      PROVE  Cardinality(RowsOf(r)') + (IF Live(r)' THEN unsaved' ELSE 0) <= spent'[r]
  <2>1. /\ Cardinality(RowsOf(r)) \in Nat /\ unsaved \in Nat /\ spent[r] \in Nat
        /\ Cardinality(RowsOf(r)) + (IF Live(r) THEN unsaved ELSE 0) <= spent[r]
    BY <1>1 DEF Ledger, NoCostTwice
  <2>2. Live(r)' => Live(r) /\ unsaved' = unsaved
    BY DEF Live
  <2> QED
    BY <1>1, <2>1, <2>2
<1>3. NoCostTwice'
  BY <1>2 DEF NoCostTwice
<1>4. phase' # "idle" => Cardinality(RowsOf(run)') + unsaved' + malformed'[run] = spent'[run]
  BY DEF Ledger, RowsOf
<1>5. DatabaseMayFail \/ CompletedRunIsCharged'
  <2> SUFFICES ASSUME ~ DatabaseMayFail, NEW r \in Runs, outcome'[r] = "completed"
               PROVE  Cardinality(RowsOf(r)') + malformed'[r] = spent'[r]
    BY DEF CompletedRunIsCharged
  <2>1. CASE outcome[r] = "completed"
    BY <1>1, <2>1 DEF Ledger, CompletedRunIsCharged
  <2>2. CASE r = run /\ phase # "idle" /\ unsaved = 0
    <3>1. /\ Cardinality(RowsOf(r)) + unsaved + malformed[r] = spent[r]
          /\ malformed[r] \in Nat
      BY <2>2 DEF Ledger
    <3> QED  BY <1>1, <2>2, <3>1
  <2> QED
    BY <2>1, <2>2
<1> QED
  BY <1>3, <1>4, <1>5 DEF Ledger, RowsOf

LEMMA ChargedKeeps ==
  ASSUME Inv, Flight, Ledger, NEW r \in Runs, NEW j \in Jobs, Open(task[r][j]),
         NEW recorded \in BOOLEAN, Charged(r, recorded),
         UNCHANGED <<run, phase, costLogs, today, outcome>>
  PROVE  Ledger'
<1>1. /\ spent' = [spent EXCEPT ![r] = @ + 1]
      /\ unsaved' = IF Live(r) /\ recorded THEN unsaved + 1 ELSE unsaved
      /\ malformed' = IF recorded THEN malformed ELSE [malformed EXCEPT ![r] = @ + 1]
  BY DEF Charged
<1>2. outcome[r] # "completed" /\ r <= run
  <2>1. task[r][j] # NoTask
    BY DEF Open, NoTask
  <2>2. ~ (r > run)
    BY <2>1 DEF Inv
  <2> QED
    BY <2>2, BoundAssumption DEF Flight, Statuses, Quiet, Inv, Runs
<1>3. /\ spent \in [Runs -> Nat] /\ unsaved \in Nat /\ malformed \in [Runs -> Nat]
      /\ \A s \in Runs :
           /\ spent'[s] = IF s = r THEN spent[s] + 1 ELSE spent[s]
           /\ malformed'[s] = IF s = r /\ ~ recorded THEN malformed[s] + 1 ELSE malformed[s]
  BY <1>1 DEF Ledger
<1>4. \A s \in Runs : RowsOf(s)' = RowsOf(s) /\ Cardinality(RowsOf(s)) \in Nat
  BY RowsFinite DEF RowsOf
<1>5. ASSUME NEW s \in Runs
      PROVE  Cardinality(RowsOf(s)') + (IF Live(s)' THEN unsaved' ELSE 0) <= spent'[s]
  <2>1. /\ Cardinality(RowsOf(s)) \in Nat /\ spent[s] \in Nat
        /\ Cardinality(RowsOf(s)) + (IF Live(s) THEN unsaved ELSE 0) <= spent[s]
    BY <1>3, <1>4 DEF Ledger, NoCostTwice
  <2>2. Live(s)' <=> Live(s)
    BY DEF Live
  <2>3. CASE s = r
    BY <1>1, <1>3, <1>4, <2>1, <2>2, <2>3
  <2>4. CASE s # r
    <3>1. Live(s) => unsaved' = unsaved
      BY <1>1, <2>4 DEF Live
    <3> QED
      BY <1>3, <1>4, <2>1, <2>2, <2>4, <3>1
  <2> QED
    BY <2>3, <2>4
<1>6. phase' # "idle" =>
        Cardinality(RowsOf(run)') + unsaved' + malformed'[run'] = spent'[run']
  <2> SUFFICES ASSUME phase # "idle"
               PROVE  Cardinality(RowsOf(run)) + unsaved' + malformed'[run] = spent'[run]
    BY <1>4, CurrentRun
  <2>1. run \in Runs /\ Cardinality(RowsOf(run)) \in Nat /\ malformed[run] \in Nat
        /\ Cardinality(RowsOf(run)) + unsaved + malformed[run] = spent[run]
    BY <1>4, CurrentRun DEF Ledger
  <2> QED
    BY <1>1, <1>3, <2>1 DEF Live
<1>7. DatabaseMayFail \/ CompletedRunIsCharged'
  BY <1>2, <1>3, <1>4 DEF Ledger, CompletedRunIsCharged
<1>8. spent' \in [Runs -> Nat] /\ unsaved' \in Nat /\ malformed' \in [Runs -> Nat]
      /\ \A s \in Runs : s > run' => spent'[s] = 0 /\ malformed'[s] = 0
  <2>1. spent' \in [Runs -> Nat] /\ unsaved' \in Nat /\ malformed' \in [Runs -> Nat]
    <3>1. spent[r] + 1 \in Nat /\ malformed[r] + 1 \in Nat /\ unsaved + 1 \in Nat
      BY <1>3
    <3> QED
      BY <1>1, <1>3, <3>1
  <2>2. ASSUME NEW s \in Runs, s > run PROVE s # r /\ spent[s] = 0 /\ malformed[s] = 0
    BY <1>2, <2>2, BoundAssumption DEF Ledger, Inv, Runs
  <2>3. ASSUME NEW s \in Runs, s > run PROVE spent'[s] = 0 /\ malformed'[s] = 0
    BY <1>3, <2>2, <2>3
  <2> QED
    BY <2>1, <2>3
<1>9. /\ costLogs' \subseteq Row /\ IsFiniteSet(costLogs')
      /\ \A x \in costLogs' : x.id <= Cardinality(costLogs') /\ x.run <= run'
  BY DEF Ledger
<1>10. NoCostTwice'
  BY <1>5 DEF NoCostTwice
<1> QED
  BY <1>6, <1>7, <1>8, <1>9, <1>10 DEF Ledger

(* A record moves from the run's memory to a new row.                      *)
LEMMA SaveCostKeeps == Inv /\ Flight /\ Ledger /\ SaveCost => Ledger'
<1> SUFFICES ASSUME Inv, Flight, Ledger, SaveCost PROVE Ledger'
  OBVIOUS
<1> DEFINE n == Cardinality(costLogs)
           new == [id |-> n + 1, run |-> run, day |-> today]
<1>1. /\ phase # "idle" /\ unsaved > 0 /\ unsaved' = unsaved - 1
      /\ costLogs' = costLogs \union {new}
      /\ UNCHANGED <<run, phase, spent, malformed, outcome, today>>
  BY DEF SaveCost, history, tallies
<1>2. /\ IsFiniteSet(costLogs) /\ costLogs \subseteq Row /\ today \in Days
      /\ unsaved \in Nat /\ spent \in [Runs -> Nat] /\ n \in Nat
      /\ malformed \in [Runs -> Nat]
      /\ \A x \in costLogs : x.id <= n /\ x.run <= run
  BY FS_CardinalityType DEF Ledger
<1>3. run \in Runs /\ run \in Nat /\ outcome[run] # "completed"
  BY <1>1, CurrentRun, BoundAssumption DEF Flight, Statuses, Inv
<1> HIDE DEF n
<1>4. new \in Row /\ new.run = run /\ new.id = n + 1
  BY <1>2, <1>3 DEF Row
<1> HIDE DEF new
<1>5. new \notin costLogs
  BY <1>2, <1>4
<1>6. IsFiniteSet(costLogs') /\ Cardinality(costLogs') = n + 1
  BY <1>1, <1>2, <1>5, FS_AddElement DEF n
<1>7. \A r \in Runs : RowsOf(r)' = IF r = run THEN RowsOf(r) \union {new} ELSE RowsOf(r)
  BY <1>1, <1>4 DEF RowsOf
<1>8. ASSUME NEW r \in Runs
      PROVE  /\ Cardinality(RowsOf(r)) \in Nat
             /\ Cardinality(RowsOf(r)') = IF r = run THEN Cardinality(RowsOf(r)) + 1
                                          ELSE Cardinality(RowsOf(r))
  <2>1. IsFiniteSet(RowsOf(r)) /\ Cardinality(RowsOf(r)) \in Nat /\ new \notin RowsOf(r)
    BY <1>5, RowsFinite DEF RowsOf
  <2> QED
    BY <1>7, <2>1, FS_AddElement
<1>9. NoCostTwice'
  <2> SUFFICES ASSUME NEW r \in Runs
               PROVE  Cardinality(RowsOf(r)') + (IF Live(r)' THEN unsaved' ELSE 0) <= spent'[r]
    BY DEF NoCostTwice
  <2>1. Cardinality(RowsOf(r)) + (IF Live(r) THEN unsaved ELSE 0) <= spent[r]
    BY DEF Ledger, NoCostTwice
  <2>2. (Live(r)' <=> Live(r)) /\ (Live(r) <=> r = run)
    BY <1>1 DEF Live
  <2> QED
    BY <1>1, <1>2, <1>8, <2>1, <2>2
<1>10. Cardinality(RowsOf(run)') + unsaved' + malformed'[run'] = spent'[run']
  BY <1>1, <1>2, <1>3, <1>8 DEF Ledger
<1>11. DatabaseMayFail \/ CompletedRunIsCharged'
  BY <1>1, <1>3, <1>8 DEF Ledger, CompletedRunIsCharged
<1>12. /\ costLogs' \subseteq Row
       /\ \A x \in costLogs' : x.id <= Cardinality(costLogs') /\ x.run <= run'
  <2>1. ASSUME NEW x \in costLogs PROVE x.id <= n + 1
    <3>1. x.id \in Nat /\ x.id <= n
      BY <1>2, <2>1 DEF Row
    <3> QED
      BY <1>2, <3>1
  <2> QED
    BY <1>1, <1>2, <1>3, <1>4, <1>6, <2>1
<1>13. unsaved' \in Nat /\ spent' = spent /\ malformed' = malformed /\ today' \in Days
  BY <1>1, <1>2
<1> QED
  BY <1>1, <1>6, <1>9, <1>10, <1>11, <1>12, <1>13 DEF Ledger

LEMMA StartRunKeepsLedger == Inv /\ Flight /\ Ledger /\ StartRun => Ledger'
<1> SUFFICES ASSUME Inv, Flight, Ledger, StartRun PROVE Ledger'
  OBVIOUS
<1>1. /\ phase = "idle" /\ run' = run + 1 /\ unsaved' = 0
      /\ outcome' = [outcome EXCEPT ![run + 1] = "running"]
      /\ UNCHANGED <<costLogs, spent, malformed, today>>
  BY DEF StartRun
<1>2. run \in Nat /\ run + 1 \in Runs /\ run + 1 > run
  BY BoundAssumption DEF Inv, StartRun, Runs
<1>3. \A r \in Runs : RowsOf(r)' = RowsOf(r) /\ Cardinality(RowsOf(r)) \in Nat
  BY <1>1, RowsFinite DEF RowsOf
<1>4. /\ RowsOf(run + 1) = {} /\ Cardinality(RowsOf(run + 1)) = 0
      /\ spent[run + 1] = 0 /\ malformed[run + 1] = 0
  <2>1. \A x \in costLogs : x.run # run + 1
    BY <1>2 DEF Ledger, Row, Runs
  <2>2. RowsOf(run + 1) = {}
    BY <2>1 DEF RowsOf
  <2> QED
    BY <1>2, <2>2, FS_EmptySet DEF Ledger
<1>5. NoCostTwice'
  <2> SUFFICES ASSUME NEW r \in Runs
               PROVE  Cardinality(RowsOf(r)') + (IF Live(r)' THEN unsaved' ELSE 0) <= spent'[r]
    BY DEF NoCostTwice
  <2>1. Cardinality(RowsOf(r)) + (IF Live(r) THEN unsaved ELSE 0) <= spent[r]
    BY DEF Ledger, NoCostTwice
  <2>2. ~ Live(r)
    BY <1>1 DEF Live
  <2> QED
    BY <1>1, <1>3, <2>1, <2>2
<1>6. Cardinality(RowsOf(run)') + unsaved' + malformed'[run'] = spent'[run']
  <2>1. RowsOf(run)' = RowsOf(run + 1)
    BY <1>1 DEF RowsOf
  <2> QED
    BY <1>1, <1>4, <2>1
<1>7. DatabaseMayFail \/ CompletedRunIsCharged'
  BY <1>1, <1>2, <1>3 DEF Ledger, CompletedRunIsCharged, Flight, Statuses
<1>8. /\ \A x \in costLogs' : x.run <= run'
      /\ \A r \in Runs : r > run' => spent'[r] = 0 /\ malformed'[r] = 0
  BY <1>1, <1>2 DEF Ledger, Row, Runs
<1> QED
  BY <1>1, <1>5, <1>6, <1>7, <1>8 DEF Ledger

LEMMA NextKeepsLedger == Inv /\ Flight /\ Ledger /\ [Next]_vars => Ledger'
<1> SUFFICES ASSUME Inv, Flight, Ledger, [Next]_vars PROVE Ledger'
  OBVIOUS
<1>1. ASSUME UNCHANGED <<run, phase, costLogs, spent, malformed, unsaved, outcome>>, today' \in Days
      PROVE  Ledger'
  BY <1>1, LedgerStays DEF Ledger
<1>2. today \in Days /\ unsaved \in Nat
  BY DEF Ledger
<1>3. ASSUME RunFails, phase # "idle", UNCHANGED <<run, costLogs, spent, malformed, today>> PROVE Ledger'
  <2>1. phase' = "idle" /\ unsaved' = 0 /\ outcome' = [outcome EXCEPT ![run] = "failed"]
    BY <1>3 DEF RunFails, RecordsLost
  <2>2. \A r \in Runs : outcome'[r] = "completed" => outcome[r] = "completed"
    BY <2>1 DEF Flight, Statuses
  <2> QED
    BY <1>2, <1>3, <2>1, <2>2, LedgerStays
<1>4. ASSUME RunCompletes, phase # "idle", DatabaseMayFail \/ unsaved = 0, unsaved' \in Nat,
             UNCHANGED <<run, costLogs, spent, malformed, today>>
      PROVE  Ledger'
  <2>1. phase' = "idle" /\ outcome' = [outcome EXCEPT ![run] = "completed"]
    BY <1>4 DEF RunCompletes
  <2>2. \A r \in Runs : outcome'[r] = "completed" => outcome[r] = "completed" \/ r = run
    BY <2>1 DEF Flight, Statuses
  <2> QED
    BY <1>2, <1>4, <2>1, <2>2, LedgerStays
<1>5. ASSUME phase # "idle", phase' # "idle",
             UNCHANGED <<run, costLogs, spent, malformed, unsaved, outcome, today>>
      PROVE  Ledger'
  BY <1>2, <1>5, LedgerStays
<1>6. CASE StartRun
  BY <1>6, StartRunKeepsLedger
<1>7. ASSUME NEW a \in Analyzers, AnalyzerStarts(a) PROVE Ledger'
  BY <1>1, <1>2, <1>7 DEF AnalyzerStarts, history, tallies
<1>8. ASSUME NEW r \in Runs, NEW j \in Jobs, Coroutine(r, j) PROVE Ledger'
  <2>1. CASE AnalyzerCalls(r, j)
    BY <1>1, <1>2, <2>1 DEF AnalyzerCalls, history, tallies
  <2>2. CASE ReviewerCalls(r, j)
    <3>1. UNCHANGED <<run, costLogs, spent, malformed, today>>
      BY <2>2 DEF ReviewerCalls, tallies
    <3>2. CASE ClientFor(Reviewer) = NoProvider /\ Live(r)
      BY <1>3, <2>2, <3>1, <3>2 DEF ReviewerCalls, Live
    <3>3. CASE ~ (ClientFor(Reviewer) = NoProvider /\ Live(r))
      BY <1>1, <1>2, <2>2, <3>1, <3>3 DEF ReviewerCalls
    <3> QED
      BY <3>2, <3>3
  <2>3. ASSUME Parsed(r, j) \/ \E recorded \in BOOLEAN : Unparsed(r, j, recorded)
        PROVE  Ledger'
    <3>1. PICK recorded \in BOOLEAN : Charged(r, recorded)
      BY <2>3 DEF Parsed, Unparsed
    <3> QED  BY <2>3, <3>1, ChargedKeeps DEF Parsed, Unparsed, Open
  <2>4. CASE RequestFails(r, j)
    BY <1>1, <1>2, <2>4 DEF RequestFails, history, tallies
  <2> QED
    BY <1>8, <2>1, <2>2, <2>3, <2>4 DEF Coroutine
<1>9. ASSUME NEW S, NEW n, ReviewRound(S, n), phase # "idle" PROVE Ledger'
  <2>1. UNCHANGED <<run, costLogs, spent, malformed, today>>
    BY <1>9 DEF ReviewRound, tallies
  <2>2. CASE ClientFor(Reviewer) = NoProvider
    BY <1>3, <1>9, <2>1, <2>2 DEF ReviewRound
  <2>3. CASE ClientFor(Reviewer) # NoProvider
    BY <1>5, <1>9, <2>1, <2>3 DEF ReviewRound
  <2> QED
    BY <2>2, <2>3
<1>10. CASE AnalyzeDone
  <2>1. CASE analyzed = {}
    BY <1>5, <1>10, <2>1 DEF AnalyzeDone, history, tallies
  <2>2. CASE analyzed # {}
    BY <1>9, <1>10, <2>2 DEF AnalyzeDone
  <2> QED
    BY <2>1, <2>2
<1>11. CASE ReviewDone
  <2>1. CASE again = {} \/ round = MAX_RETRIES
    BY <1>5, <1>11, <2>1 DEF ReviewDone, history, tallies
  <2>2. CASE ~ (again = {} \/ round = MAX_RETRIES)
    BY <1>9, <1>11, <2>2 DEF ReviewDone
  <2> QED
    BY <2>1, <2>2
<1>12. CASE SaveCost
  BY <1>12, SaveCostKeeps
<1>13. CASE SaveFails
  BY <1>3, <1>4, <1>13 DEF SaveFails, RecordsLost, tallies
<1>14. CASE Persisted
  <2>1. phase # "idle" /\ unsaved = 0 /\ UNCHANGED <<run, costLogs, spent, malformed, today>>
    BY <1>14 DEF Persisted, tallies
  <2>2. \/ RunFails
        \/ RunCompletes /\ UNCHANGED unsaved
        \/ phase' # "idle" /\ UNCHANGED <<outcome, unsaved>>
    <3>1. CASE analyzed = {}
      BY <1>14, <3>1 DEF Persisted
    <3>2. CASE analyzed # {}
      BY <1>14, <3>2 DEF Persisted
    <3> QED
      BY <3>1, <3>2
  <2> QED
    BY <1>2, <1>3, <1>4, <1>5, <2>1, <2>2
<1>15. CASE DeepReportDone
  BY <1>5, <1>15 DEF DeepReportDone, history, tallies
<1>16. CASE DeepReportSaved
  BY <1>2, <1>4, <1>16 DEF DeepReportSaved, history, tallies
<1>17. CASE NewDay
  <2>1. today' \in Days
    BY <1>2, <1>17, BoundAssumption DEF NewDay, Days
  <2> QED
    BY <1>1, <1>17, <2>1 DEF NewDay
<1>18. ASSUME NEW p \in Providers, Elapse(p) PROVE Ledger'
  BY <1>1, <1>2, <1>18 DEF Elapse, history, tallies
<1>19. CASE Crash
  BY <1>2, <1>19, LedgerStays DEF Crash, RecordsLost, tallies
<1>20. CASE UNCHANGED vars
  BY <1>1, <1>2, <1>20 DEF vars, memory, history, tallies
<1> QED
  BY <1>6, <1>7, <1>8, <1>10, <1>11, <1>12, <1>13, <1>14, <1>15, <1>16, <1>17, <1>18,
     <1>19, <1>20 DEF Next, RunStep, Idle

LEMMA InitLedger == Init => Ledger
<1> SUFFICES ASSUME Init PROVE Ledger
  OBVIOUS
<1>1. costLogs = {} /\ \A r : RowsOf(r) = {}
  BY DEF Init, RowsOf
<1>2. \A r : Cardinality(RowsOf(r)) = 0 /\ IsFiniteSet(costLogs)
  BY <1>1, FS_EmptySet
<1>3. today \in Days
  BY BoundAssumption DEF Init, Days
<1> QED
  BY <1>1, <1>2, <1>3 DEF Init, Ledger, NoCostTwice, CompletedRunIsCharged, Live

LEMMA LedgerInvariance == Spec => []Ledger
BY InitLedger, NextKeepsLedger, Invariance, FlightInvariance, PTL DEF Spec

(* No answered call is saved to cost_logs twice, in any run, whatever      *)
(* fails and whenever the process dies.                                    *)
THEOREM NoCostIsSavedTwice == Spec => []NoCostTwice
BY LedgerInvariance, PTL DEF Ledger

(* A run that completes has a row for every call that was answered, but    *)
(* for the reviewer's answers of which it made no record, as long as the   *)
(* database does not refuse a row.                                         *)
THEOREM CompletedRunsAreCharged ==
  ~ DatabaseMayFail => (Spec => []CompletedRunIsCharged)
<1> SUFFICES ASSUME ~ DatabaseMayFail PROVE Spec => []CompletedRunIsCharged
  OBVIOUS
<1>1. Ledger => CompletedRunIsCharged
  BY DEF Ledger
<1> QED
  BY <1>1, LedgerInvariance, PTL

-----------------------------------------------------------------------------
(***************************************************************************)
(* The day's calls: what the budget knows of them, and what is on record.  *)
(***************************************************************************)
LEMMA LoggedIsFinite == Ledger => LoggedToday \in Nat
<1> SUFFICES ASSUME Ledger PROVE LoggedToday \in Nat
  OBVIOUS
<1>1. {x \in costLogs : x.day = today} \subseteq costLogs
  OBVIOUS
<1> QED
  BY <1>1, FS_Subset, FS_CardinalityType DEF LoggedToday, Ledger

LEMMA LoggedIsFiniteNext == Ledger' => (LoggedToday \in Nat)'
BY LoggedIsFinite, PTL

(* What is moved from the records in memory to the lost ones, or added to  *)
(* the lost ones, leaves a bound on both in place.                         *)
LEMMA SameSum ==
  \A s, l, u, k, u1, k1 \in Nat :
    s <= l + u + k /\ u1 + k1 = u + k => s <= l + u1 + k1
OBVIOUS

LEMMA Slack ==
  \A s, b, k, k1 \in Nat : s <= b + k /\ k <= k1 => s <= b + k1
OBVIOUS

(* Steps that charge and save nothing: the records in memory are kept or   *)
(* lost.                                                                   *)
LEMMA DayStays ==
  ASSUME Ledger, Day, UNCHANGED <<costLogs, today, spend, spentToday>>,
         UNCHANGED <<unsaved, lost>> \/ RecordsLost,
         phase' = "idle" => phase = "idle" \/ unsaved = 0 \/ RecordsLost,
         Recorded \/ UNCHANGED <<phase, task>>
  PROVE  Day'
<1>1. LoggedToday' = LoggedToday /\ LoggedToday \in Nat
  BY LoggedIsFinite DEF LoggedToday
<1>2. /\ unsaved \in Nat /\ lost \in Nat /\ spend \in Nat /\ spentToday \in Nat
      /\ spentToday <= LoggedToday + unsaved + lost
      /\ spend' = spend /\ spentToday' = spentToday
  BY DEF Day, Ledger
<1>3. /\ unsaved' \in Nat /\ lost' \in Nat /\ lost <= lost'
      /\ unsaved' + lost' = unsaved + lost
  BY <1>2 DEF RecordsLost
<1>4. phase' = "idle" => unsaved' = 0
  BY <1>2 DEF Day, RecordsLost
<1>5. Recorded => Recorded'
  <2>1. ASSUME Recorded PROVE spentToday' <= spend' + lost'
    <3>1. spentToday <= spend + lost
      BY <2>1 DEF Recorded
    <3> QED
      BY <1>2, <1>3, <3>1, Slack
  <2> QED
    BY <2>1 DEF Recorded
<1>6. UNCHANGED <<phase, task>> =>
        (phase = "idle" /\ (\A r \in Runs : Quiet(r))
           => (phase = "idle" /\ \A r \in Runs : Quiet(r))')
  BY DEF Quiet, Open
<1>7. Recorded' \/ (phase = "idle" /\ \A r \in Runs : Quiet(r))'
  BY <1>5, <1>6 DEF Day
<1>8. spentToday' <= LoggedToday' + unsaved' + lost'
  BY <1>1, <1>2, <1>3, SameSum
<1> QED
  BY <1>2, <1>3, <1>4, <1>7, <1>8 DEF Day

(* An answered call is one of the day's, in the budget, and on record or   *)
(* lost.                                                                   *)
LEMMA ChargedDay ==
  ASSUME Ledger, Day, Recorded, NEW r \in Runs, NEW recorded \in BOOLEAN,
         Charged(r, recorded), UNCHANGED <<costLogs, today, phase>>
  PROVE  Day'
<1>1. LoggedToday' = LoggedToday /\ LoggedToday \in Nat
  BY LoggedIsFinite DEF LoggedToday
<1>2. /\ unsaved \in Nat /\ lost \in Nat /\ spend \in Nat /\ spentToday \in Nat
      /\ spentToday <= LoggedToday + unsaved + lost /\ spentToday <= spend + lost
  BY DEF Day, Ledger, Recorded
<1>3. /\ spend' = spend + 1 /\ spentToday' = spentToday + 1
      /\ \/ unsaved' = unsaved + 1 /\ lost' = lost /\ Live(r)
         \/ unsaved' = unsaved /\ lost' = lost + 1
  BY DEF Charged
<1>4. phase' = "idle" => unsaved' = 0
  BY <1>3 DEF Day, Live
<1>5. Recorded'
  BY <1>2, <1>3 DEF Recorded
<1>6. spentToday' <= LoggedToday' + unsaved' + lost'
  BY <1>1, <1>2, <1>3
<1>7. spend' \in Nat /\ spentToday' \in Nat /\ lost' \in Nat
  BY <1>2, <1>3 DEF Day
<1> QED
  BY <1>4, <1>5, <1>6, <1>7 DEF Day

(* A record that is saved is a row of the day.                             *)
LEMMA SaveCostDay == Ledger /\ Day /\ SaveCost => Day'
<1> SUFFICES ASSUME Ledger, Day, SaveCost PROVE Day'
  OBVIOUS
<1> DEFINE n == Cardinality(costLogs)
           new == [id |-> n + 1, run |-> run, day |-> today]
           ofToday == {x \in costLogs : x.day = today}
<1>1. /\ phase # "idle" /\ unsaved > 0 /\ unsaved' = unsaved - 1
      /\ costLogs' = costLogs \union {new}
      /\ UNCHANGED <<phase, today, spend, spentToday, lost>>
  BY DEF SaveCost, history, tallies
<1>2. IsFiniteSet(ofToday) /\ Cardinality(ofToday) \in Nat
  <2>1. ofToday \subseteq costLogs
    OBVIOUS
  <2> QED
    BY <2>1, FS_Subset, FS_CardinalityType DEF Ledger
<1>3. new \notin ofToday
  <2>1. n \in Nat /\ \A x \in costLogs : x.id \in Nat /\ x.id <= n
    BY FS_CardinalityType DEF Ledger, Row
  <2>2. new.id = n + 1
    OBVIOUS
  <2> HIDE DEF new, n
  <2> QED
    BY <2>1, <2>2
<1>4. new.day = today
  OBVIOUS
<1> HIDE DEF new
<1>5. LoggedToday' = Cardinality(ofToday \union {new}) /\ LoggedToday = Cardinality(ofToday)
  <2>1. {x \in costLogs : x.day = today}' = ofToday \union {new}
    BY <1>1, <1>4
  <2> QED
    BY <2>1 DEF LoggedToday
<1>6. LoggedToday' = LoggedToday + 1 /\ LoggedToday \in Nat
  BY <1>2, <1>3, <1>5, FS_AddElement
<1>7. /\ unsaved \in Nat /\ lost \in Nat /\ spentToday \in Nat /\ spend \in Nat
      /\ spentToday <= LoggedToday + unsaved + lost /\ spentToday <= spend + lost
  BY <1>1 DEF Day, Ledger, Recorded
<1>8. Recorded' /\ spentToday' <= LoggedToday' + unsaved' + lost'
  BY <1>1, <1>6, <1>7 DEF Recorded
<1> QED
  BY <1>1, <1>8 DEF Day

(* A run starts from what cost_logs holds, a day from nothing, and a       *)
(* process that dies loses what its run has not saved.                     *)
LEMMA DayIsSet == Ledger /\ Ledger' /\ Day /\ (StartRun \/ NewDay \/ Crash) => Day'
<1> SUFFICES ASSUME Ledger, Ledger', Day, StartRun \/ NewDay \/ Crash PROVE Day'
  OBVIOUS
<1>1. LoggedToday \in Nat /\ LoggedToday' \in Nat
  BY LoggedIsFinite, LoggedIsFiniteNext
<1>2. /\ unsaved \in Nat /\ lost \in Nat /\ spend \in Nat /\ spentToday \in Nat
      /\ spentToday <= LoggedToday + unsaved + lost
  BY DEF Day, Ledger
<1>3. CASE StartRun
  <2>1. /\ unsaved = 0 /\ unsaved' = 0 /\ phase' = "analyze"
        /\ spend' = LoggedToday /\ LoggedToday' = LoggedToday
        /\ UNCHANGED <<spentToday, lost>>
    BY <1>3 DEF StartRun, Day, LoggedToday
  <2>2. Recorded' /\ spentToday' <= LoggedToday' + unsaved' + lost'
    BY <1>1, <1>2, <2>1 DEF Recorded
  <2> QED
    BY <1>1, <1>2, <2>1, <2>2 DEF Day
<1>4. CASE NewDay
  <2>1. /\ spend' = 0 /\ spentToday' = 0 /\ lost' = 0
        /\ phase' = phase /\ unsaved' = unsaved
    BY <1>4 DEF NewDay
  <2>2. Recorded' /\ spentToday' <= LoggedToday' + unsaved' + lost'
    <3>1. \A l, u \in Nat : 0 <= l + u + 0
      OBVIOUS
    <3>2. 0 <= LoggedToday' + unsaved + 0
      BY <1>1, <1>2, <3>1
    <3>3. spentToday' <= LoggedToday' + unsaved' + lost'
      BY <2>1, <3>2
    <3>4. spentToday' <= spend' + lost'
      BY <2>1
    <3> QED
      BY <3>3, <3>4 DEF Recorded
  <2> QED
    BY <2>1, <2>2 DEF Day
<1>5. CASE Crash
  <2>1. /\ spend' = 0 /\ phase' = "idle" /\ unsaved' = 0 /\ lost' = lost + unsaved
        /\ UNCHANGED <<costLogs, today, spentToday>>
        /\ task' = [r \in Runs |-> [j \in Jobs |-> NoTask]]
    BY <1>5 DEF Crash, RecordsLost, tallies
  <2>2. (\A r \in Runs : Quiet(r))'
    BY <2>1 DEF Quiet, Open, NoTask
  <2>3. LoggedToday' = LoggedToday
    BY <2>1 DEF LoggedToday
  <2>4. spentToday' <= LoggedToday' + unsaved' + lost' /\ lost' \in Nat
    BY <1>1, <1>2, <2>1, <2>3
  <2> QED
    BY <2>1, <2>2, <2>4 DEF Day
<1> QED
  BY <1>3, <1>4, <1>5

(* What is asked or answered is so by a run or a coroutine, which a process*)
(* has only after it set its budget.                                       *)
LEMMA AtWorkIsRecorded ==
  ASSUME Day, phase # "idle" \/ \E r \in Runs, j \in Jobs : Open(task[r][j])
  PROVE  Recorded
BY DEF Day, Quiet

LEMMA NextKeepsDay == Ledger /\ Ledger' /\ Day /\ [Next]_vars => Day'
<1> SUFFICES ASSUME Ledger, Ledger', Day, [Next]_vars PROVE Day'
  OBVIOUS
<1>1. ASSUME UNCHANGED <<history, spend, costLogs, today, unsaved>>,
             phase' = "idle" => phase = "idle" \/ unsaved = 0,
             Recorded \/ UNCHANGED <<phase, task>>
      PROVE  Day'
  BY <1>1, DayStays DEF history, tallies
<1>2. ASSUME RecordsLost, Recorded, UNCHANGED <<tallies, spend, costLogs, today>> PROVE Day'
  BY <1>2, DayStays DEF tallies
<1>3. phase # "idle" => Recorded
  BY AtWorkIsRecorded
<1>4. CASE StartRun \/ NewDay \/ Crash
  BY <1>4, DayIsSet
<1>5. ASSUME NEW a \in Analyzers, AnalyzerStarts(a) PROVE Day'
  BY <1>1, <1>3, <1>5 DEF AnalyzerStarts
<1>6. ASSUME NEW r \in Runs, NEW j \in Jobs, Coroutine(r, j) PROVE Day'
  <2>1. Recorded
    <3>1. Open(task[r][j])
      BY <1>6 DEF Coroutine, AnalyzerCalls, ReviewerCalls, Parsed, Unparsed, RequestFails, Open
    <3> QED
      BY <3>1, AtWorkIsRecorded
  <2>2. CASE AnalyzerCalls(r, j)
    BY <1>1, <2>1, <2>2 DEF AnalyzerCalls
  <2>3. CASE ReviewerCalls(r, j)
    <3>1. UNCHANGED <<tallies, spend, costLogs, today>>
      BY <2>3 DEF ReviewerCalls
    <3>2. CASE ClientFor(Reviewer) = NoProvider /\ Live(r)
      BY <1>2, <2>1, <2>3, <3>1, <3>2 DEF ReviewerCalls, RunFails
    <3>3. CASE ~ (ClientFor(Reviewer) = NoProvider /\ Live(r))
      <4>1. UNCHANGED <<phase, unsaved, lost>>
        BY <2>3, <3>3 DEF ReviewerCalls
      <4> QED
        BY <1>1, <2>1, <3>1, <4>1 DEF history
    <3> QED
      BY <3>2, <3>3
  <2>4. ASSUME Parsed(r, j) \/ \E recorded \in BOOLEAN : Unparsed(r, j, recorded)
        PROVE  Day'
    <3>1. PICK recorded \in BOOLEAN : Charged(r, recorded)
      BY <2>4 DEF Parsed, Unparsed
    <3>2. UNCHANGED <<costLogs, today, phase>>
      BY <2>4 DEF Parsed, Unparsed
    <3> QED
      BY <2>1, <3>1, <3>2, ChargedDay
  <2>5. CASE RequestFails(r, j)
    BY <1>1, <2>1, <2>5 DEF RequestFails
  <2> QED
    BY <1>6, <2>2, <2>3, <2>4, <2>5 DEF Coroutine
<1>7. ASSUME NEW S, NEW n, ReviewRound(S, n), phase # "idle" PROVE Day'
  <2>1. UNCHANGED <<tallies, spend, costLogs, today>>
    BY <1>7 DEF ReviewRound
  <2>2. CASE ClientFor(Reviewer) = NoProvider
    BY <1>2, <1>3, <1>7, <2>1, <2>2 DEF ReviewRound, RunFails
  <2>3. CASE ClientFor(Reviewer) # NoProvider
    <3>1. phase' = "review" /\ UNCHANGED <<unsaved, lost>>
      BY <1>7, <2>3 DEF ReviewRound
    <3> QED
      BY <1>1, <1>3, <1>7, <2>1, <3>1 DEF history
  <2> QED
    BY <2>2, <2>3
<1>8. CASE AnalyzeDone
  <2>1. CASE analyzed = {}
    BY <1>1, <1>3, <1>8, <2>1 DEF AnalyzeDone
  <2>2. CASE analyzed # {}
    BY <1>7, <1>8, <2>2 DEF AnalyzeDone
  <2> QED
    BY <2>1, <2>2
<1>9. CASE ReviewDone
  <2>1. CASE again = {} \/ round = MAX_RETRIES
    BY <1>1, <1>3, <1>9, <2>1 DEF ReviewDone
  <2>2. CASE ~ (again = {} \/ round = MAX_RETRIES)
    BY <1>7, <1>9, <2>2 DEF ReviewDone
  <2> QED
    BY <2>1, <2>2
<1>10. CASE SaveCost
  BY <1>10, SaveCostDay
<1>11. CASE SaveFails
  BY <1>2, <1>3, <1>11 DEF SaveFails, RunFails
<1>12. CASE Persisted
  <2>1. phase # "idle" /\ unsaved = 0 /\ UNCHANGED <<tallies, spend, costLogs, today>>
    BY <1>12 DEF Persisted
  <2>2. RecordsLost \/ UNCHANGED <<unsaved, lost>>
    <3>1. CASE analyzed = {}
      BY <1>12, <3>1 DEF Persisted, RunFails
    <3>2. CASE analyzed # {}
      BY <1>12, <3>2 DEF Persisted
    <3> QED
      BY <3>1, <3>2
  <2> QED
    BY <1>1, <1>2, <1>3, <2>1, <2>2 DEF history
<1>13. CASE DeepReportDone
  BY <1>1, <1>3, <1>13 DEF DeepReportDone
<1>14. CASE DeepReportSaved
  BY <1>1, <1>3, <1>14 DEF DeepReportSaved
<1>15. ASSUME NEW p \in Providers, Elapse(p) PROVE Day'
  BY <1>1, <1>15 DEF Elapse
<1>16. CASE UNCHANGED vars
  BY <1>1, <1>16 DEF vars, memory
<1> QED
  BY <1>4, <1>5, <1>6, <1>8, <1>9, <1>10, <1>11, <1>12, <1>13, <1>14, <1>15, <1>16
     DEF Next, RunStep, Idle

LEMMA InitDay == Init => Day
<1> SUFFICES ASSUME Init PROVE Day
  OBVIOUS
<1>1. LoggedToday \in Nat
  BY InitLedger, LoggedIsFinite
<1> QED
  BY <1>1 DEF Init, Day, Recorded

LEMMA DayInvariance == Spec => []Day
BY InitDay, NextKeepsDay, LedgerInvariance, PTL DEF Spec

-----------------------------------------------------------------------------
(***************************************************************************)
(* The hard limit: what the clients already handed out can still spend.    *)
(***************************************************************************)
OutstandingOf(r) == {o \in Outstanding : o[1] = r}
OutstandingBefore(n) == {o \in Outstanding : o[1] < n}

LEMMA ProductOfTwo ==
  ASSUME NEW S, IsFiniteSet(S), NEW r
  PROVE  /\ IsFiniteSet({r} \X S \X (1..2))
         /\ Cardinality({r} \X S \X (1..2)) = 2 * Cardinality(S)
<1> DEFINE f == [c \in S \X (1..2) |-> <<r, c[1], c[2]>>]
           T == {r} \X S \X (1..2)
<1>1. IsFiniteSet(1..2) /\ Cardinality(1..2) = 2
  <2>1. 1..2 = {1} \union {2} /\ IsFiniteSet({1}) /\ Cardinality({1}) = 1
    BY FS_Singleton
  <2>2. 2 \notin {1}
    OBVIOUS
  <2> QED
    BY <2>1, <2>2, FS_AddElement
<1>2. /\ IsFiniteSet(S \X (1..2)) /\ Cardinality(S \X (1..2)) = Cardinality(S) * 2
      /\ Cardinality(S) \in Nat
  BY <1>1, FS_Product, FS_CardinalityType
<1>3. f \in Bijection(S \X (1..2), T)
  <2>1. f \in [S \X (1..2) -> T]
    OBVIOUS
  <2>2. \A a, b \in S \X (1..2) : f[a] = f[b] => a = b
    OBVIOUS
  <2>3. \A t \in T : \E a \in S \X (1..2) : f[a] = t
    <3> SUFFICES ASSUME NEW t \in T PROVE \E a \in S \X (1..2) : f[a] = t
      OBVIOUS
    <3>1. <<t[2], t[3]>> \in S \X (1..2) /\ f[<<t[2], t[3]>>] = t
      OBVIOUS
    <3> QED
      BY <3>1
  <2> HIDE DEF f, T
  <2> QED
    BY <2>1, <2>2, <2>3 DEF Bijection, Injection, Surjection, IsInjective
<1> HIDE DEF f, T
<1>4. IsFiniteSet(T) /\ Cardinality(T) = Cardinality(S \X (1..2))
  BY <1>2, <1>3, FS_Bijection DEF ExistsBijection
<1> QED
  BY <1>2, <1>4 DEF T

LEMMA Slice ==
  ASSUME NEW r, NEW S, IsFiniteSet(S), OutstandingOf(r) \subseteq {r} \X S \X (1..2)
  PROVE  /\ IsFiniteSet(OutstandingOf(r)) /\ Cardinality(OutstandingOf(r)) \in Nat
         /\ Cardinality(OutstandingOf(r)) <= 2 * Cardinality(S)
<1>1. /\ IsFiniteSet({r} \X S \X (1..2))
      /\ Cardinality({r} \X S \X (1..2)) = 2 * Cardinality(S)
  BY ProductOfTwo
<1> QED
  BY <1>1, FS_Subset, FS_CardinalityType

(* A coroutine that holds a client, and for whom it works.                 *)
LEMMA HolderIsExpected ==
  ASSUME Inv, Flight, NEW o \in Outstanding
  PROVE  /\ o[1] \in Runs /\ o[2] \in Jobs /\ o[3] \in 1..2 /\ o = <<o[1], o[2], o[3]>>
         /\ Expected(o[1], o[2], task[o[1]][o[2]].agent)
         /\ task[o[1]][o[2]].agent = Reviewer => task[o[1]][o[2]].at = "calling"
         /\ ~ (o[1] > run)
<1>1. /\ o[1] \in Runs /\ o[2] \in Jobs /\ o[3] \in 1..2 /\ o = <<o[1], o[2], o[3]>>
      /\ CallOf(task[o[1]][o[2]]) # NoProvider
  BY DEF Outstanding
<1> DEFINE t == task[o[1]][o[2]]
<1>2. t.at \in {"waiting", "calling"} /\ t.provider # NoProvider
  BY <1>1 DEF CallOf
<1>3. GoodTask(t)
  BY <1>1 DEF Inv, TasksGood
<1>4. t.agent = Reviewer => t.at = "calling"
  BY <1>2, <1>3 DEF GoodTask
<1>5. Expected(o[1], o[2], t.agent)
  BY <1>1, <1>2 DEF Flight, Flying, Open
<1>6. ~ (o[1] > run)
  BY <1>1, <1>2 DEF Inv, NoTask
<1> QED
  BY <1>1, <1>4, <1>5, <1>6

(* An earlier run can still spend what the reviewers it left behind hold.  *)
LEMMA EarlierRunHolds ==
  ASSUME Inv, Flight, NEW r \in Runs, r # run
  PROVE  /\ IsFiniteSet(OutstandingOf(r)) /\ Cardinality(OutstandingOf(r)) \in Nat
         /\ Cardinality(OutstandingOf(r)) <= 2 * Slots[Reviewer]
<1>1. ASSUME NEW o \in OutstandingOf(r) PROVE o \in {r} \X Reviewing(r) \X (1..2)
  <2>1. o \in Outstanding /\ o[1] = r
    BY DEF OutstandingOf
  <2>2. task[r][o[2]].agent = Reviewer
    BY <2>1, HolderIsExpected DEF Expected, Live
  <2>3. o = <<o[1], o[2], o[3]>> /\ o[2] \in Reviewing(r) /\ o[3] \in 1..2
    BY <2>1, <2>2, HolderIsExpected DEF Reviewing
  <2> QED
    BY <2>1, <2>3
<1>2. OutstandingOf(r) \subseteq {r} \X Reviewing(r) \X (1..2)
  BY <1>1
<1>3. Cardinality(Reviewing(r)) <= Slots[Reviewer]
  BY DEF Flight, Flying
<1> QED
  BY <1>2, <1>3, ReviewingFinite, Slice

(* The current run: at most two requests for each of its items.            *)
LEMMA CurrentRunHolds ==
  ASSUME Inv, Flight, run \in Runs
  PROVE  /\ IsFiniteSet(OutstandingOf(run)) /\ Cardinality(OutstandingOf(run)) \in Nat
         /\ Cardinality(OutstandingOf(run)) <= 2 * Cardinality(Items)
<1>1. analyzed \subseteq Items /\ Cardinality(Items) \in Nat
  BY ItemsAssumption, FS_CardinalityType DEF Inv
<1>2. CASE phase = "deep_report"
  <2>1. ASSUME NEW o \in OutstandingOf(run) PROVE o \in {run} \X {Candidate} \X (1..2)
    <3>1. o \in Outstanding /\ o[1] = run
      BY DEF OutstandingOf
    <3>2. o = <<o[1], o[2], o[3]>> /\ o[2] = Candidate /\ o[3] \in 1..2
      BY <1>2, <3>1, HolderIsExpected DEF Expected, Live
    <3> QED
      BY <3>1, <3>2
  <2>2. OutstandingOf(run) \subseteq {run} \X {Candidate} \X (1..2)
    BY <2>1
  <2>3. IsFiniteSet({Candidate}) /\ Cardinality({Candidate}) = 1
    BY FS_Singleton
  <2>4. Cardinality(Items) # 0
    BY <1>1, <1>2, ItemsAssumption, FS_EmptySet DEF Flight, Flying
  <2> QED
    BY <1>1, <2>2, <2>3, <2>4, Slice
<1>3. CASE phase # "deep_report"
  <2>1. ASSUME NEW o \in OutstandingOf(run) PROVE o \in {run} \X Items \X (1..2)
    <3>1. o \in Outstanding /\ o[1] = run
      BY DEF OutstandingOf
    <3>2. o = <<o[1], o[2], o[3]>> /\ o[2] \in Items /\ o[3] \in 1..2
      BY <1>1, <1>3, <3>1, HolderIsExpected DEF Expected, Live
    <3> QED
      BY <3>1, <3>2
  <2>2. OutstandingOf(run) \subseteq {run} \X Items \X (1..2)
    BY <2>1
  <2> QED
    BY <2>2, ItemsAssumption, Slice
<1> QED
  BY <1>2, <1>3

LEMMA UnionAtMost ==
  ASSUME NEW S, NEW T, IsFiniteSet(S), IsFiniteSet(T)
  PROVE  /\ IsFiniteSet(S \union T) /\ Cardinality(S \union T) \in Nat
         /\ Cardinality(S \union T) <= Cardinality(S) + Cardinality(T)
<1>1. /\ IsFiniteSet(S \union T) /\ IsFiniteSet(S \intersect T)
      /\ Cardinality(S \union T) = Cardinality(S) + Cardinality(T) - Cardinality(S \intersect T)
  BY FS_Union, FS_Intersection
<1>2. /\ Cardinality(S) \in Nat /\ Cardinality(T) \in Nat
      /\ Cardinality(S \intersect T) \in Nat /\ Cardinality(S \union T) \in Nat
  BY <1>1, FS_CardinalityType
<1> QED
  BY <1>1, <1>2

LEMMA OneRunMore ==
  ASSUME NEW a \in Nat, NEW b \in Nat, NEW k \in Nat
  PROVE  2 * (a + b) * k = 2 * a * k + 2 * b * k
OBVIOUS

(* The runs before the n-th, one after the other.                          *)
LEMMA EarlierRunsHold ==
  ASSUME Inv, Flight
  PROVE  \A n \in 1..run :
           /\ IsFiniteSet(OutstandingBefore(n))
           /\ Cardinality(OutstandingBefore(n)) <= 2 * (n - 1) * Slots[Reviewer]
<1> DEFINE k == Slots[Reviewer]
           Bounded(n) == /\ IsFiniteSet(OutstandingBefore(n))
                         /\ Cardinality(OutstandingBefore(n)) <= 2 * (n - 1) * k
           Bad == {n \in 1..run : ~ Bounded(n)}
<1>1. run \in Nat /\ run <= MaxRuns /\ k \in Nat
  BY BoundAssumption, AgentAssumption, AgentsAre DEF Inv
<1> HIDE DEF k
<1> SUFFICES ASSUME Bad # {} PROVE FALSE
  BY DEF k
<1>2. Bad \subseteq Nat
  BY <1>1
<1>3. PICK m \in Bad : \A n \in Bad : m <= n
  <2> HIDE DEF Bad
  <2> QED
    BY <1>2, MinIsLeast
<1>4. m \in 1..run /\ ~ Bounded(m) /\ m \in Nat
  BY <1>1
<1>5. CASE m = 1
  <2>1. OutstandingBefore(1) = {}
    BY DEF OutstandingBefore, Outstanding, Runs
  <2>2. IsFiniteSet({}) /\ Cardinality({}) = 0
    BY FS_EmptySet
  <2>3. 2 * (1 - 1) * k = 0
    BY <1>1
  <2>4. Bounded(1)
    <3>1. IsFiniteSet(OutstandingBefore(1)) /\ Cardinality(OutstandingBefore(1)) = 0
      BY <2>1, <2>2
    <3> QED
      BY <2>3, <3>1
  <2> HIDE DEF Bounded
  <2> QED
    BY <1>4, <1>5, <2>4
<1>6. CASE m # 1
  <2> DEFINE p == m - 1
  <2>1. p \in 1..run /\ p \in Runs /\ p # run /\ m = p + 1 /\ p - 1 \in Nat
    BY <1>1, <1>4, <1>6, BoundAssumption DEF Runs
  <2> HIDE DEF p
  <2>2. Bounded(p)
    <3>1. ~ (m <= p)
      BY <2>1
    <3> QED
      BY <1>3, <2>1, <3>1
  <2>3. /\ IsFiniteSet(OutstandingOf(p)) /\ Cardinality(OutstandingOf(p)) \in Nat
        /\ Cardinality(OutstandingOf(p)) <= 2 * k
    BY <2>1, EarlierRunHolds DEF k
  <2>4. OutstandingBefore(m) = OutstandingBefore(p) \union OutstandingOf(p)
    BY <2>1 DEF OutstandingBefore, OutstandingOf, Outstanding, Runs
  <2>5. /\ IsFiniteSet(OutstandingBefore(m)) /\ Cardinality(OutstandingBefore(p)) \in Nat
        /\ Cardinality(OutstandingBefore(m)) \in Nat
        /\ Cardinality(OutstandingBefore(m))
             <= Cardinality(OutstandingBefore(p)) + Cardinality(OutstandingOf(p))
    BY <2>2, <2>3, <2>4, UnionAtMost, FS_CardinalityType
  <2>6. 2 * (m - 1) * k = 2 * (p - 1) * k + 2 * k /\ 2 * (p - 1) * k \in Nat
    <3>1. 2 * ((p - 1) + 1) * k = 2 * (p - 1) * k + 2 * 1 * k
      BY <1>1, <2>1, OneRunMore
    <3>2. m - 1 = (p - 1) + 1
      BY <2>1
    <3>3. \A a \in Nat : 2 * a * k \in Nat
      BY <1>1
    <3> QED
      BY <1>1, <2>1, <3>1, <3>2, <3>3
  <2>7. Bounded(m)
    BY <1>1, <2>2, <2>3, <2>5, <2>6
  <2> QED
    BY <1>4, <2>7
<1> QED
  BY <1>5, <1>6

FewOutstanding ==
  /\ IsFiniteSet(Outstanding) /\ Cardinality(Outstanding) \in Nat
  /\ Cardinality(Outstanding) <= HandedOut /\ HandedOut \in Nat

LEMMA HandedOutBounds == Inv /\ Flight => FewOutstanding
<1> SUFFICES ASSUME Inv, Flight PROVE FewOutstanding
  OBVIOUS
<1> DEFINE k == Slots[Reviewer]
<1>1. /\ run \in 0..MaxRuns /\ MaxRuns \in Nat \ {0} /\ k \in Nat
      /\ Cardinality(Items) \in Nat
  BY BoundAssumption, AgentAssumption, AgentsAre, ItemsAssumption, FS_CardinalityType DEF Inv
<1>2. HandedOut = 2 * Cardinality(Items) + 2 * (MaxRuns - 1) * k
  BY DEF HandedOut
<1> HIDE DEF k
<1>3. \A a \in Nat : 2 * a * k \in Nat
  BY <1>1
<1>4. HandedOut \in Nat
  <2>1. MaxRuns - 1 \in Nat
    BY <1>1
  <2>2. 2 * (MaxRuns - 1) * k \in Nat
    BY <1>3, <2>1
  <2> QED
    BY <1>1, <1>2, <2>2
<1>5. CASE run = 0
  <2>1. Outstanding = {}
    <3>1. ASSUME NEW o \in Outstanding PROVE FALSE
      BY <1>5, HolderIsExpected DEF Runs
    <3> QED
      BY <3>1
  <2> QED
    BY <1>4, <2>1, FS_EmptySet DEF FewOutstanding
<1>6. CASE run # 0
  <2>1. run \in 1..run /\ run \in Runs /\ run - 1 \in Nat /\ MaxRuns - run \in Nat
    BY <1>1, <1>6 DEF Runs
  <2>2. /\ IsFiniteSet(OutstandingBefore(run))
        /\ Cardinality(OutstandingBefore(run)) <= 2 * (run - 1) * k
    BY <2>1, EarlierRunsHold DEF k
  <2>3. Outstanding = OutstandingBefore(run) \union OutstandingOf(run)
    <3>1. ASSUME NEW o \in Outstanding PROVE o[1] < run \/ o[1] = run
      BY <1>1, HolderIsExpected DEF Runs
    <3> QED
      BY <3>1 DEF OutstandingBefore, OutstandingOf
  <2>4. /\ IsFiniteSet(OutstandingOf(run)) /\ Cardinality(OutstandingOf(run)) \in Nat
        /\ Cardinality(OutstandingOf(run)) <= 2 * Cardinality(Items)
    BY <2>1, CurrentRunHolds
  <2>5. /\ IsFiniteSet(Outstanding) /\ Cardinality(Outstanding) \in Nat
        /\ Cardinality(OutstandingBefore(run)) \in Nat
        /\ Cardinality(Outstanding)
             <= Cardinality(OutstandingBefore(run)) + Cardinality(OutstandingOf(run))
    BY <2>2, <2>3, <2>4, UnionAtMost, FS_CardinalityType
  <2>6. 2 * (run - 1) * k <= 2 * (MaxRuns - 1) * k
    <3>1. 2 * ((run - 1) + (MaxRuns - run)) * k
            = 2 * (run - 1) * k + 2 * (MaxRuns - run) * k
      BY <1>1, <2>1, OneRunMore
    <3>2. MaxRuns - 1 = (run - 1) + (MaxRuns - run)
      BY <1>1
    <3>3. 2 * (run - 1) * k \in Nat /\ 2 * (MaxRuns - run) * k \in Nat
      BY <1>3, <2>1
    <3> QED
      BY <3>1, <3>2, <3>3
  <2>7. 2 * (run - 1) * k \in Nat /\ 2 * (MaxRuns - 1) * k \in Nat
    <3>1. MaxRuns - 1 \in Nat
      BY <1>1
    <3> QED
      BY <1>3, <2>1, <3>1
  <2> QED
    BY <1>1, <1>2, <1>4, <2>2, <2>4, <2>5, <2>6, <2>7 DEF FewOutstanding
<1> QED
  BY <1>5, <1>6

(* The day's tally stays, and what is lost stays lost.                     *)
SameDay == spentToday' = spentToday /\ lost' \in Nat /\ lost <= lost'

(* Steps that hand no client out and leave the calls of the day as they are.*)
LEMMA NothingHandedOut ==
  ASSUME Inv, Flight, Day, Budget, SameDay, Outstanding' \subseteq Outstanding
  PROVE  Budget'
<1>1. /\ IsFiniteSet(Outstanding) /\ Cardinality(Outstanding) \in Nat /\ HandedOut \in Nat
  BY HandedOutBounds DEF FewOutstanding
<1>2. /\ Cardinality(Outstanding') \in Nat
      /\ Cardinality(Outstanding') <= Cardinality(Outstanding)
  BY <1>1, FS_Subset, FS_CardinalityType
<1>3. BelowLimit \in Nat
  BY LimitAssumption DEF BelowLimit
<1> QED
  BY <1>1, <1>2, <1>3 DEF Budget, Day, HandedOut, SameDay

LEMMA HandedOutBoundsNext == Inv' /\ Flight' => FewOutstanding'
BY HandedOutBounds, PTL

(* A client is only handed out below the hard limit, of which the budget   *)
(* knows the calls that are on record.                                     *)
LEMMA BelowTheLimit ==
  ASSUME Inv', Flight', Day, Budget, SameDay, Recorded, spend < HARD
  PROVE  Budget'
<1>1. Cardinality(Outstanding') \in Nat /\ Cardinality(Outstanding') <= HandedOut /\ HandedOut \in Nat
  BY HandedOutBoundsNext DEF FewOutstanding, HandedOut
<1>2. spend <= BelowLimit /\ BelowLimit \in Nat
  BY LimitAssumption DEF BelowLimit, Day
<1>3. /\ spentToday' = spentToday /\ spentToday \in Nat /\ spentToday <= spend + lost
      /\ spend \in Nat /\ lost \in Nat /\ lost' \in Nat /\ lost <= lost'
  BY DEF Day, Recorded, SameDay
<1> QED
  BY <1>1, <1>2, <1>3 DEF Budget, HandedOut

(* A new day has cost nothing yet.                                         *)
LEMMA NothingSpent ==
  ASSUME Inv', Flight', spentToday' = 0, lost' = 0
  PROVE  Budget'
<1>1. Cardinality(Outstanding') \in Nat /\ Cardinality(Outstanding') <= HandedOut /\ HandedOut \in Nat
  BY HandedOutBoundsNext DEF FewOutstanding, HandedOut
<1>2. BelowLimit \in Nat
  BY LimitAssumption DEF BelowLimit
<1> QED
  BY <1>1, <1>2 DEF Budget, HandedOut, BelowLimit

LEMMA SameOutstanding ==
  ASSUME \A r \in Runs, j \in Jobs :
           CallOf(task'[r][j]) # NoProvider
             => CallOf(task[r][j]) # NoProvider /\ task[r][j].attempt <= task'[r][j].attempt,
         TasksGood, TasksGood'
  PROVE  Outstanding' \subseteq Outstanding
<1> SUFFICES ASSUME NEW r \in Runs, NEW j \in Jobs, NEW k \in 1..2,
                    CallOf(task'[r][j]) # NoProvider, k >= task'[r][j].attempt
             PROVE  CallOf(task[r][j]) # NoProvider /\ k >= task[r][j].attempt
  BY DEF Outstanding, CallOf
<1>1. task[r][j].attempt \in 1..2 /\ task'[r][j].attempt \in 1..2
  BY DEF TasksGood, Task
<1> QED
  BY <1>1

(* An answer is charged, and takes from what its client could still spend; *)
(* a request that fails takes from it too.                                 *)
LEMMA AnswerKeepsBudget ==
  ASSUME Inv, Inv', Flight, Day, Budget, NEW r \in Runs, NEW j \in Jobs,
         task[r][j].at = "calling",
         AttemptEnds(r, j) \/ task' = [task EXCEPT ![r][j].at = "ended"],
         spentToday' \in {spentToday, spentToday + 1},
         lost' \in Nat, lost <= lost'
  PROVE  Budget'
<1> DEFINE t == task[r][j]
           o == <<r, j, t.attempt>>
<1>1. t \in Task /\ CallOf(t) # NoProvider
  <2>1. TasksGood
    BY DEF Inv
  <2>2. Calling[<<r, j>>] # NoProvider /\ Calling[<<r, j>>] = CallOf(t)
    BY <2>1, HeldCall DEF Calling
  <2> QED
    BY <2>1, <2>2 DEF TasksGood
<1>2. o \in Outstanding
  BY <1>1 DEF Outstanding, Task
<1>3. PICK u \in Task :
        /\ task' = [task EXCEPT ![r][j] = u]
        /\ u.at = "ended" \/ (t.attempt = 1 /\ u.attempt = 2)
  BY AnsweredTask
<1>4. \A s \in Runs, k \in Jobs : task'[s][k] = IF s = r /\ k = j THEN u ELSE task[s][k]
  BY <1>3 DEF Inv, TasksGood
<1>5. CallOf(u) = NoProvider \/ u.attempt > t.attempt
  BY <1>3 DEF CallOf
<1>6. Outstanding' \subseteq Outstanding
  <2>1. \A s \in Runs, k \in Jobs :
          CallOf(task'[s][k]) # NoProvider
            => CallOf(task[s][k]) # NoProvider /\ task[s][k].attempt <= task'[s][k].attempt
    BY <1>1, <1>3, <1>4, <1>5 DEF Inv, TasksGood, Task
  <2> QED
    BY <2>1, SameOutstanding DEF Inv
<1>7. o \notin Outstanding'
  <2>1. o \in Outstanding' => CallOf(task'[r][j]) # NoProvider /\ t.attempt >= task'[r][j].attempt
    BY DEF Outstanding, CallOf
  <2> QED
    BY <1>1, <1>3, <1>4, <1>5, <2>1 DEF Task
<1>8. /\ IsFiniteSet(Outstanding) /\ Cardinality(Outstanding) \in Nat /\ HandedOut \in Nat
  BY HandedOutBounds DEF FewOutstanding
<1> HIDE DEF o, t
<1>9. /\ Cardinality(Outstanding') \in Nat
      /\ Cardinality(Outstanding') <= Cardinality(Outstanding) - 1
  <2>1. Outstanding' \subseteq Outstanding \ {o}
    BY <1>6, <1>7
  <2>2. /\ IsFiniteSet(Outstanding \ {o})
        /\ Cardinality(Outstanding \ {o}) = Cardinality(Outstanding) - 1
    BY <1>2, <1>8, FS_RemoveElement
  <2> QED
    BY <2>1, <2>2, FS_Subset, FS_CardinalityType
<1>10. BelowLimit \in Nat /\ spentToday \in Nat /\ lost \in Nat
  BY LimitAssumption DEF BelowLimit, Day
<1> QED
  BY <1>8, <1>9, <1>10 DEF Budget, HandedOut

(* A coroutine whose agent is handed p.                                    *)
LEMMA HandedBelowTheLimit ==
  ASSUME NEW agent, ClientFor(agent) # NoProvider
  PROVE  ~ (spend >= HARD)
BY DEF ClientFor, HardExceeded

LEMMA AdmissionKeepsBudget ==
  ASSUME Inv', Flight', Day, Budget, SameDay, Recorded,
         NEW agent, ClientFor(agent) # NoProvider
  PROVE  Budget'
<1>1. spend < HARD
  BY HandedBelowTheLimit, LimitAssumption DEF Day
<1> QED
  BY <1>1, BelowTheLimit

LEMMA SameTasksKeepBudget ==
  ASSUME Inv, Flight, Day, Budget, SameDay, UNCHANGED task
  PROVE  Budget'
<1>1. Outstanding' = Outstanding
  BY DEF Outstanding, CallOf
<1> QED
  BY <1>1, NothingHandedOut

LEMMA AnalyzerStartsKeepsBudget ==
  ASSUME Inv, Inv', Flight, Flight', Day, Budget, NEW a \in Analyzers, AnalyzerStarts(a)
  PROVE  Budget'
<1> DEFINE p == ClientFor(a)
           mine == {i \in Items : AnalyzerOf[i] = a}
           row == [j \in Jobs |->
                     IF j \notin mine THEN task[run][j]
                     ELSE [task[run][j] EXCEPT !.provider = p,
                             !.at = IF p = NoProvider THEN "ended" ELSE "waiting"]]
<1>1. /\ phase = "analyze" /\ task' = [task EXCEPT ![run] = row]
      /\ SameDay
  <2>1. UNCHANGED history
    BY DEF AnalyzerStarts
  <2>2. SameDay
    BY <2>1 DEF history, tallies, SameDay, Day
  <2> QED
    BY <2>2 DEF AnalyzerStarts
<1>2. CASE p # NoProvider
  BY <1>1, <1>2, AdmissionKeepsBudget, AtWorkIsRecorded
<1>3. CASE p = NoProvider
  <2>1. run \in Runs
    BY <1>1, CurrentRun
  <2>2. \A r \in Runs : task'[r] = IF r = run THEN row ELSE task[r]
    BY <1>1, <2>1 DEF Inv, TasksGood
  <2>3. ASSUME NEW j \in Jobs
        PROVE  row[j] = task[run][j] \/ CallOf(row[j]) = NoProvider
    <3>1. CASE j \in mine
      <4> DEFINE t == task[run][j]
                 at == IF p = NoProvider THEN "ended" ELSE "waiting"
      <4>1. t \in Task /\ at = "ended" /\ row[j] = [t EXCEPT !.provider = p, !.at = at]
        BY <1>3, <2>1, <3>1 DEF Inv, TasksGood
      <4> HIDE DEF t, p, at
      <4>2. [t EXCEPT !.provider = p, !.at = at].at = at
        BY <4>1 DEF Task
      <4> QED
        BY <4>1, <4>2 DEF CallOf
    <3>2. CASE j \notin mine
      BY <3>2
    <3> QED
      BY <3>1, <3>2
  <2> HIDE DEF row, mine, p
  <2>4. \A r \in Runs, j \in Jobs :
          CallOf(task'[r][j]) # NoProvider
            => CallOf(task[r][j]) # NoProvider /\ task[r][j].attempt <= task'[r][j].attempt
    BY <2>2, <2>3 DEF Inv, TasksGood, Task
  <2>5. Outstanding' \subseteq Outstanding
    BY <2>4, SameOutstanding DEF Inv
  <2> QED
    BY <1>1, <2>5, NothingHandedOut
<1> QED
  BY <1>2, <1>3

LEMMA AnalyzerCallsKeepsBudget ==
  ASSUME Inv, Inv', Flight, Day, Budget, NEW r \in Runs, NEW j \in Jobs, AnalyzerCalls(r, j)
  PROVE  Budget'
<1> DEFINE t == task[r][j]
           u == [t EXCEPT !.at = "calling"]
<1>1. /\ t.at = "waiting" /\ task' = [task EXCEPT ![r][j] = u]
      /\ SameDay /\ t \in Task
  BY DEF AnalyzerCalls, Inv, TasksGood, history, tallies, SameDay, Day
<1> HIDE DEF t
<1>2. u.at = "calling" /\ u.provider = t.provider /\ u.attempt = t.attempt /\ u \in Task
  BY <1>1 DEF Task
<1> HIDE DEF u
<1>3. \A s \in Runs, k \in Jobs : task'[s][k] = IF s = r /\ k = j THEN u ELSE task[s][k]
  BY <1>1 DEF Inv, TasksGood
<1>4. CallOf(u) = CallOf(t)
  BY <1>1, <1>2 DEF CallOf
<1>5. \A s \in Runs, k \in Jobs :
        CallOf(task'[s][k]) # NoProvider
          => CallOf(task[s][k]) # NoProvider /\ task[s][k].attempt <= task'[s][k].attempt
  BY <1>1, <1>2, <1>3, <1>4 DEF Inv, TasksGood, Task, t
<1>6. Outstanding' \subseteq Outstanding
  BY <1>5, SameOutstanding DEF Inv
<1> QED
  BY <1>1, <1>6, NothingHandedOut

LEMMA ReviewerCallsKeepsBudget ==
  ASSUME Inv, Inv', Flight, Flight', Ledger, Day, Budget, NEW r \in Runs, NEW j \in Jobs, ReviewerCalls(r, j)
  PROVE  Budget'
<1> DEFINE p == ClientFor(Reviewer)
           t == task[r][j]
           at == IF p = NoProvider THEN "ended" ELSE "calling"
           u == [t EXCEPT !.provider = p, !.at = at]
<1>1. SameDay /\ Recorded
  <2>1. Open(t)
    BY DEF ReviewerCalls, Open
  <2>2. UNCHANGED tallies /\ (RecordsLost \/ UNCHANGED lost)
    BY DEF ReviewerCalls, RunFails
  <2> QED
    BY <2>1, <2>2, AtWorkIsRecorded DEF tallies, RecordsLost, SameDay, Day, Ledger
<1>2. CASE p # NoProvider
  BY <1>1, <1>2, AdmissionKeepsBudget
<1>3. CASE p = NoProvider
  <2>1. t \in Task /\ task \in [Runs -> [Jobs -> Task]] /\ at = "ended"
    BY <1>3 DEF Inv, TasksGood
  <2>2. task' = [task EXCEPT ![r][j] = u]
    <3>1. task' = [task EXCEPT ![r][j].provider = p, ![r][j].at = at]
      BY DEF ReviewerCalls
    <3> HIDE DEF p, at
    <3> QED
      BY <2>1, <3>1
  <2> HIDE DEF p, at, t
  <2>3. u.at = at
    BY <2>1 DEF Task
  <2> HIDE DEF u
  <2>4. \A s \in Runs, k \in Jobs : task'[s][k] = IF s = r /\ k = j THEN u ELSE task[s][k]
    BY <2>2 DEF Inv, TasksGood
  <2>5. CallOf(u) = NoProvider
    BY <2>1, <2>3 DEF CallOf
  <2>6. \A s \in Runs, k \in Jobs :
          CallOf(task'[s][k]) # NoProvider
            => CallOf(task[s][k]) # NoProvider /\ task[s][k].attempt <= task'[s][k].attempt
    <3>1. ASSUME NEW s \in Runs, NEW k \in Jobs
          PROVE  task[s][k].attempt <= task[s][k].attempt
      <4>1. task[s][k] \in Task
        BY DEF Inv, TasksGood
      <4>2. task[s][k].attempt \in 1..2
        BY <4>1 DEF Task
      <4> QED
        BY <4>2
    <3> QED
      BY <2>4, <2>5, <3>1
  <2>7. Outstanding' \subseteq Outstanding
    BY <2>6, SameOutstanding DEF Inv
  <2> QED
    BY <1>1, <2>7, NothingHandedOut
<1> QED
  BY <1>2, <1>3

LEMMA ReviewRoundKeepsBudget ==
  ASSUME Inv, Inv', Flight, Flight', Ledger, Day, Budget, NEW S, NEW n, ReviewRound(S, n),
         phase # "idle"
  PROVE  Budget'
<1>1. SameDay /\ Recorded
  <2>1. UNCHANGED tallies /\ (RecordsLost \/ UNCHANGED lost)
    BY DEF ReviewRound, RunFails
  <2> QED
    BY <2>1, AtWorkIsRecorded DEF tallies, RecordsLost, SameDay, Day, Ledger
<1>2. CASE ClientFor(Reviewer) # NoProvider
  BY <1>1, <1>2, AdmissionKeepsBudget
<1>3. CASE ClientFor(Reviewer) = NoProvider
  BY <1>1, <1>3, SameTasksKeepBudget DEF ReviewRound
<1> QED
  BY <1>2, <1>3

LEMMA NextKeepsBudget ==
  Inv /\ Inv' /\ Flight /\ Flight' /\ Ledger /\ Day /\ Day' /\ Budget /\ [Next]_vars
    => Budget'
<1> SUFFICES ASSUME Inv, Inv', Flight, Flight', Ledger, Day, Day', Budget, [Next]_vars
             PROVE  Budget'
  OBVIOUS
<1>0. ASSUME UNCHANGED tallies, RecordsLost \/ UNCHANGED lost PROVE SameDay
  BY <1>0 DEF tallies, RecordsLost, SameDay, Day, Ledger
<1>1. ASSUME UNCHANGED <<tallies, task>>, RecordsLost \/ UNCHANGED lost PROVE Budget'
  BY <1>0, <1>1, SameTasksKeepBudget
<1>2. CASE StartRun
  <2>1. SameDay
    BY <1>2 DEF StartRun, SameDay, Day
  <2>2. \A r \in Runs, j \in Jobs :
          task'[r][j] = task[r][j] \/ CallOf(task'[r][j]) = NoProvider
    BY <1>2 DEF StartRun, CallOf, NoTask, Inv, TasksGood
  <2>3. \A r \in Runs, j \in Jobs : task[r][j].attempt \in 1..2
    BY DEF Inv, TasksGood, Task
  <2>4. Outstanding' \subseteq Outstanding
    BY <2>2, <2>3, SameOutstanding DEF Inv
  <2> QED
    BY <2>1, <2>4, NothingHandedOut
<1>3. ASSUME NEW a \in Analyzers, AnalyzerStarts(a) PROVE Budget'
  BY <1>3, AnalyzerStartsKeepsBudget
<1>4. ASSUME NEW r \in Runs, NEW j \in Jobs, Coroutine(r, j) PROVE Budget'
  <2>1. CASE AnalyzerCalls(r, j)
    BY <2>1, AnalyzerCallsKeepsBudget
  <2>2. CASE ReviewerCalls(r, j)
    BY <2>2, ReviewerCallsKeepsBudget
  <2>3. ASSUME NEW recorded \in BOOLEAN, Charged(r, recorded)
        PROVE  spentToday' = spentToday + 1 /\ lost' \in Nat /\ lost <= lost'
    BY <2>3 DEF Charged, Day
  <2>4. CASE Parsed(r, j)
    BY <2>3, <2>4, AnswerKeepsBudget DEF Parsed
  <2>5. ASSUME NEW recorded \in BOOLEAN, Unparsed(r, j, recorded) PROVE Budget'
    BY <2>3, <2>5, AnswerKeepsBudget DEF Unparsed
  <2>6. CASE RequestFails(r, j)
    BY <2>6, AnswerKeepsBudget DEF RequestFails, history, tallies, Day
  <2> QED
    BY <1>4, <2>1, <2>2, <2>4, <2>5, <2>6 DEF Coroutine
<1>5. CASE AnalyzeDone
  <2>1. CASE analyzed = {}
    BY <1>1, <1>5, <2>1 DEF AnalyzeDone, history
  <2>2. CASE analyzed # {}
    BY <1>5, <2>2, ReviewRoundKeepsBudget DEF AnalyzeDone
  <2> QED
    BY <2>1, <2>2
<1>6. CASE ReviewDone
  <2>1. CASE again = {} \/ round = MAX_RETRIES
    BY <1>1, <1>6, <2>1 DEF ReviewDone, history
  <2>2. CASE ~ (again = {} \/ round = MAX_RETRIES)
    BY <1>6, <2>2, ReviewRoundKeepsBudget DEF ReviewDone
  <2> QED
    BY <2>1, <2>2
<1>7. CASE SaveCost
  BY <1>1, <1>7 DEF SaveCost, history
<1>8. CASE SaveFails
  BY <1>1, <1>8 DEF SaveFails, RunFails
<1>9. CASE Persisted
  <2>1. SameDay /\ Recorded
    <3>1. CASE analyzed = {}
      BY <1>0, <1>9, <3>1, AtWorkIsRecorded DEF Persisted, RunFails
    <3>2. CASE analyzed # {}
      BY <1>0, <1>9, <3>2, AtWorkIsRecorded DEF Persisted
    <3> QED
      BY <3>1, <3>2
  <2>2. CASE ClientFor(DeepReport) # NoProvider
    BY <2>1, <2>2, AdmissionKeepsBudget
  <2>3. CASE ClientFor(DeepReport) = NoProvider
    <3>1. UNCHANGED task
      BY <1>9, <2>3 DEF Persisted
    <3> QED
      BY <2>1, <3>1, SameTasksKeepBudget
  <2> QED
    BY <2>2, <2>3
<1>10. CASE DeepReportDone
  BY <1>1, <1>10 DEF DeepReportDone, history
<1>11. CASE DeepReportSaved
  BY <1>1, <1>11 DEF DeepReportSaved, history
<1>12. CASE NewDay
  BY <1>12, NothingSpent DEF NewDay
<1>13. ASSUME NEW p \in Providers, Elapse(p) PROVE Budget'
  BY <1>1, <1>13 DEF Elapse, history
<1>14. CASE Crash
  <2>1. UNCHANGED tallies /\ RecordsLost /\ task' = [r \in Runs |-> [j \in Jobs |-> NoTask]]
    BY <1>14 DEF Crash
  <2>2. Outstanding' = {}
    BY <2>1 DEF Outstanding, CallOf, NoTask
  <2> QED
    BY <1>0, <2>1, <2>2, NothingHandedOut
<1>15. CASE UNCHANGED vars
  BY <1>1, <1>15 DEF vars, memory, history
<1> QED
  BY <1>2, <1>3, <1>4, <1>5, <1>6, <1>7, <1>8, <1>9, <1>10, <1>11, <1>12, <1>13, <1>14,
     <1>15 DEF Next, RunStep, Idle

LEMMA InitBudget == Init => Budget
<1> SUFFICES ASSUME Init PROVE Budget
  OBVIOUS
<1>1. Outstanding = {}
  BY FreshTasks DEF Init, Outstanding
<1>2. Cardinality(Outstanding) = 0 /\ HandedOut \in Nat
  BY <1>1, FS_EmptySet, InitKeeps, InitFlies, HandedOutBounds DEF FewOutstanding
<1>3. spentToday = 0 /\ lost = 0 /\ BelowLimit \in Nat
  BY LimitAssumption DEF Init, BelowLimit
<1> QED
  BY <1>2, <1>3 DEF Budget

LEMMA BudgetInvariance == Spec => []Budget
<1>1. Inv /\ [Next]_vars => Inv'
  BY NextKeeps
<1> QED
  BY <1>1, InitBudget, NextFlies, NextKeepsBudget, Invariance, FlightInvariance,
     LedgerInvariance, DayInvariance, PTL DEF Spec

(* However many runs fail and leave reviewers behind, whenever the process *)
(* dies and the date changes: the calls of a day overshoot the hard limit  *)
(* by no more than the clients handed out below it can make and the calls  *)
(* of which the record is lost.                                            *)
THEOREM OvershootIsBounded == Spec => []OvershootBounded
<1>1. Inv /\ Flight /\ Day /\ Budget => OvershootBounded
  <2> SUFFICES ASSUME Inv, Flight, Day, Budget PROVE OvershootBounded
    OBVIOUS
  <2>1. /\ Cardinality(Outstanding) \in Nat /\ HandedOut \in Nat
        /\ spentToday \in Nat /\ lost \in Nat /\ BelowLimit \in Nat
        /\ spentToday + Cardinality(Outstanding) <= BelowLimit + HandedOut + lost
    BY HandedOutBounds, LimitAssumption DEF FewOutstanding, Budget, Day, BelowLimit
  <2>2. spentToday <= BelowLimit + HandedOut + lost
    BY <2>1
  <2> QED
    BY <2>2 DEF OvershootBounded, HandedOut, BelowLimit
<1> QED
  BY <1>1, Invariance, FlightInvariance, DayInvariance, BudgetInvariance, PTL

(* The counters of rounds and crashes keep within their bounds.            *)
LEMMA Counters == Spec => [](round \in 0..MAX_RETRIES /\ crashes \in 0..MaxCrashes)
<1> DEFINE Counted == round \in 0..MAX_RETRIES /\ crashes \in 0..MaxCrashes
<1>1. Init => Counted
  BY BoundAssumption DEF Init, MAX_RETRIES
<1>2. Counted /\ [Next]_vars => Counted'
  <2> SUFFICES ASSUME Counted, [Next]_vars PROVE Counted'
    OBVIOUS
  <2>1. ASSUME NEW r \in Runs, NEW j \in Jobs, Coroutine(r, j)
        PROVE  UNCHANGED <<round, crashes>>
    BY <2>1 DEF Coroutine, AnalyzerCalls, ReviewerCalls, Parsed, Unparsed, RequestFails
  <2>2. CASE RunStep
    <3>1. round' \in {round, 0} \/ (round # MAX_RETRIES /\ round' = round + 1)
      BY <2>1, <2>2 DEF RunStep, AnalyzerStarts, AnalyzeDone, ReviewDone, ReviewRound,
         SaveCost, SaveFails, Persisted, DeepReportDone, DeepReportSaved
    <3>2. crashes' = crashes
      BY <2>1, <2>2 DEF RunStep, AnalyzerStarts, AnalyzeDone, ReviewDone, ReviewRound,
         SaveCost, SaveFails, Persisted, DeepReportDone, DeepReportSaved
    <3> QED
      BY <3>1, <3>2, BoundAssumption DEF MAX_RETRIES
  <2>3. CASE ~ RunStep
    <3>1. round' \in {round, 0}
      BY <2>3 DEF Next, vars, memory, StartRun, NewDay, Elapse, Idle, Crash
    <3>2. crashes' = crashes \/ (crashes < MaxCrashes /\ crashes' = crashes + 1)
      BY <2>3 DEF Next, vars, memory, StartRun, NewDay, Elapse, Idle, Crash
    <3> QED
      BY <3>1, <3>2, BoundAssumption DEF MAX_RETRIES
  <2> QED
    BY <2>2, <2>3
<1> QED
  BY <1>1, <1>2, PTL DEF Spec

(* Every variable keeps its type: no counter of costs falls below zero, an *)
(* item to review again is one that was analyzed, and a crash at any point *)
(* leaves states that the next start of the process can be in.             *)
THEOREM TypeCorrect == Spec => []TypeOK
<1> DEFINE Counted == round \in 0..MAX_RETRIES /\ crashes \in 0..MaxCrashes
<1>1. Inv /\ Flight /\ Ledger /\ Day /\ Counted /\ HT!TypeOK => TypeOK
  BY DEF Inv, TasksGood, Flight, Flying, Statuses, Ledger, Day, HT!TypeOK, TypeOK
<1>2. Spec => []Counted
  BY Counters
<1>3. Spec => []HT!TypeOK
  BY BreakersAreSafe, PTL
<1> QED
  BY <1>1, <1>2, <1>3, Invariance, FlightInvariance, LedgerInvariance, DayInvariance, PTL

(* The runs' coroutines ask the breaker, answer it and wait for it in no   *)
(* other way than the callers HealthTracker describes: what is shown of    *)
(* the breaker alone holds of it in the registry, with coroutines of       *)
(* failed runs still answering, until a crash starts a new one.            *)
THEOREM ImplementsHealthTracker == Spec => BreakerSpec
<1>1. Init => Inv /\ HT!Init
  BY InitKeeps
<1>2. Inv /\ crashes \in Nat /\ [Next]_vars =>
        [HT!Next \/ (crashes' # crashes /\ HT!Init')]_HT!vars
  <2> SUFFICES ASSUME Inv, crashes \in Nat, [Next]_vars
               PROVE  BreakerStep \/ (crashes' # crashes /\ HT!Init')
    BY DEF BreakerStep
  <2>1. BreakerStep \/ (Crash /\ HT!Init')
    BY NextKeeps
  <2>2. ASSUME Crash PROVE crashes' # crashes
    <3>1. crashes' = crashes + 1
      BY <2>2 DEF Crash
    <3> QED
      BY <3>1
  <2> QED
    BY <2>1, <2>2
<1>3. crashes \in 0..MaxCrashes => crashes \in Nat
  BY BoundAssumption
<1> QED
  BY <1>1, <1>2, <1>3, Invariance, Counters, PTL DEF Spec, BreakerSpec
=============================================================================
