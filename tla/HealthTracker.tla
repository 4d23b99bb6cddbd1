--------------------------- MODULE HealthTracker ---------------------------
(***************************************************************************)
(* The circuit breaker the LLM registry keeps for every provider           *)
(* (src/core/health.py), with the calls that are in flight while it        *)
(* changes.  A call is admitted when it asks for a client and answers much *)
(* later, so an answer may meet a circuit that has moved on since.         *)
(*                                                                         *)
(* Time is counted in units of the shortest distance that matters; elapsed *)
(* is time.time() - opened_at, which stops mattering at MAX_COOLDOWN.      *)
(***************************************************************************)
EXTENDS Naturals

CONSTANTS
  Providers,           \* names of the providers in llm.yaml
  Callers,             \* coroutines that may have one LLM call in flight each
  ReportCallers,       \* those of them that are deep report analyzers
  NoCall,              \* "no call in flight"
  BASE_COOLDOWN,
  MAX_COOLDOWN,
  FAILURE_THRESHOLD

\* Doubling stops at the fifth step: 16 * BASE_COOLDOWN is above the maximum.
Backoff == <<1, 2, 4, 8, 16>>
Levels == 1..5

ASSUME CooldownAssumption ==
  /\ BASE_COOLDOWN \in Nat \ {0}
  /\ MAX_COOLDOWN \in Nat
  /\ BASE_COOLDOWN <= MAX_COOLDOWN
  /\ MAX_COOLDOWN <= 16 * BASE_COOLDOWN
ASSUME ReportAssumption == ReportCallers \subseteq Callers
ASSUME ThresholdAssumption == FAILURE_THRESHOLD \in Nat \ {0}

VARIABLES
  health,    \* health[p]: the record _state[p] of the tracker
  calling    \* calling[c]: the client c holds and its attempt, or NoCall

vars == <<health, calling>>

Circuits == {"closed", "open", "half_open"}

Health == [ circuit        : Circuits,
            error_count    : 0..FAILURE_THRESHOLD,
            cooldown_level : Levels,
            elapsed        : 0..MAX_COOLDOWN ]

Calls == [provider : Providers, attempt : 1..2]
ASSUME NoCallAssumption == NoCall \notin Calls

TypeOK ==
  /\ health \in [Providers -> Health]
  /\ calling \in [Callers -> Calls \union {NoCall}]

-----------------------------------------------------------------------------
(***************************************************************************)
(* The tracker's methods, as functions of one provider's record.  Counters *)
(* are compared with a limit only, so they stop at it.                     *)
(***************************************************************************)
NewProvider == [circuit |-> "closed", error_count |-> 0,
                cooldown_level |-> 1, elapsed |-> 0]

AtMost(n, limit) == IF n < limit THEN n ELSE limit

CooldownUnits(h) == AtMost(BASE_COOLDOWN * Backoff[h.cooldown_level], MAX_COOLDOWN)

\* Mutant of CooledDown: one unit too early.
CooledDownEarly(h) == h.elapsed + 1 >= CooldownUnits(h)

CooledDown(h) == h.elapsed >= CooldownUnits(h)

\* The answer of is_healthy, and what asking it does to the record.
IsHealthy(h) == h.circuit = "open" => CooledDown(h)

AfterAsking(h) ==
  IF h.circuit = "open" /\ CooledDown(h) THEN [h EXCEPT !.circuit = "half_open"] ELSE h

\* Mutants of AfterSuccess: the level counted from zero; a probe's success is
\* forgotten.
AfterSuccessLevelZero(h) ==
  [h EXCEPT !.error_count = 0, !.cooldown_level = 0,
            !.circuit = IF @ = "half_open" THEN "closed" ELSE @]
AfterSuccessNoClose(h) ==
  [h EXCEPT !.error_count = 0, !.cooldown_level = 1]

AfterSuccess(h) ==
  [h EXCEPT !.error_count = 0,
            !.cooldown_level = 1,
            !.circuit = IF @ = "half_open" THEN "closed" ELSE @]

Reopened(h) ==
  [h EXCEPT !.circuit = "open", !.elapsed = 0,
            !.cooldown_level = AtMost(@ + 1, 5)]

Counted(h) == [h EXCEPT !.error_count = AtMost(@ + 1, FAILURE_THRESHOLD)]

\* Mutants of AfterFailure: the threshold compared with ">"; a failure that
\* arrives while the circuit is open opens it again.
AfterFailureLate(h) ==
  LET counted == Counted(h)
  IN  IF h.circuit = "half_open" THEN Reopened(counted)
      ELSE IF counted.error_count > FAILURE_THRESHOLD /\ h.circuit = "closed"
        THEN [counted EXCEPT !.circuit = "open", !.elapsed = 0]
      ELSE counted
AfterFailureRestarts(h) ==
  LET counted == Counted(h)
  IN  IF h.circuit = "half_open" THEN Reopened(counted)
      ELSE IF counted.error_count >= FAILURE_THRESHOLD
        THEN [counted EXCEPT !.circuit = "open", !.elapsed = 0]
      ELSE counted

AfterFailure(h) ==
  LET counted == Counted(h)
  IN  IF h.circuit = "half_open"
        THEN Reopened(counted)
      ELSE IF counted.error_count >= FAILURE_THRESHOLD /\ h.circuit = "closed"
        THEN [counted EXCEPT !.circuit = "open", !.elapsed = 0]
      ELSE counted

-----------------------------------------------------------------------------
Init ==
  /\ health = [p \in Providers |-> NewProvider]
  /\ calling = [c \in Callers |-> NoCall]

(* The callers in C are given provider p: get_client found its circuit not *)
(* open.  The coroutines of one gather ask one after the other, and all    *)
(* get the same answer; reviewer_node asks only to read the agent's        *)
(* parameters, and no call follows.                                        *)
Admit(C, p) ==
  /\ \A c \in C : calling[c] = NoCall
  /\ IsHealthy(health[p])
  /\ health' = [health EXCEPT ![p] = AfterAsking(@)]
  /\ calling' = [c \in Callers |->
                   IF c \in C THEN [provider |-> p, attempt |-> 1] ELSE calling[c]]

(* A caller makes two attempts with the client it was given, whatever the  *)
(* circuit has become after the first.                                     *)
NextAttempt(c) ==
  calling' = [calling EXCEPT ![c] = IF @.attempt = 1 THEN [@ EXCEPT !.attempt = 2] ELSE NoCall]

(* The provider answers: a usable answer ends the call, an answer the      *)
(* analyzer or the reviewer cannot parse costs it an attempt.              *)
Answer(c) ==
  /\ calling[c] # NoCall
  /\ health' = [health EXCEPT ![calling[c].provider] = AfterSuccess(@)]
  /\ \/ calling' = [calling EXCEPT ![c] = NoCall]
     \/ c \notin ReportCallers /\ NextAttempt(c)

(* The request fails or times out.                                         *)
RequestFails(c) ==
  /\ calling[c] # NoCall
  /\ health' = [health EXCEPT ![calling[c].provider] = AfterFailure(@)]
  /\ NextAttempt(c)

(* The deep report analyzer records a success when the answer arrives and  *)
(* a failure when it cannot parse it.                                      *)
ReportUnparsable(c) ==
  /\ c \in ReportCallers
  /\ calling[c] # NoCall
  /\ health' = [health EXCEPT ![calling[c].provider] = AfterFailure(AfterSuccess(@))]
  /\ NextAttempt(c)

(* Time passes for an open circuit.                                        *)
Elapse(p) ==
  /\ health[p].circuit = "open"
  /\ health[p].elapsed < MAX_COOLDOWN
  /\ health' = [health EXCEPT ![p].elapsed = @ + 1]
  /\ UNCHANGED calling

Return(c) == Answer(c) \/ RequestFails(c) \/ ReportUnparsable(c)

Next ==
  \/ \E C \in SUBSET Callers, p \in Providers : Admit(C, p)
  \/ \E c \in Callers : Return(c)
  \/ \E p \in Providers : Elapse(p)

Spec == Init /\ [][Next]_vars

(***************************************************************************)
(* Time passes, every attempt ends (the client library bounds a request,   *)
(* the reviewer bounds its own), and the cron triggers keep asking for a   *)
(* client.                                                                 *)
(***************************************************************************)
Fairness ==
  /\ \A p \in Providers : WF_vars(Elapse(p))
  /\ \A c \in Callers : WF_vars(Return(c))
  /\ \A p \in Providers : SF_vars(\E C \in SUBSET Callers : Admit(C, p))

FairSpec == Spec /\ Fairness

-----------------------------------------------------------------------------
(* A provider that has failed FAILURE_THRESHOLD times in a row is never    *)
(* left in service, however the failures of different callers interleave.  *)
TripsAtThreshold ==
  \A p \in Providers :
    health[p].circuit = "closed" => health[p].error_count < FAILURE_THRESHOLD

(* A provider is probed only after at least the base cooldown, although a  *)
(* late success may reset the cooldown level while the circuit is open.    *)
ProbeWaitsForCooldown ==
  \A p \in Providers :
    health[p].circuit = "half_open" => health[p].elapsed >= BASE_COOLDOWN

(* Nothing but a probe ends a cooldown, and nothing restarts it: of the    *)
(* calls that were in flight when the circuit opened, a late success does  *)
(* not close it, and a late failure does not open it anew.                 *)
OpenUntilProbed ==
  [][\A p \in Providers : health[p].circuit = "open" =>
       \/ health'[p].circuit = "half_open"
       \/ health'[p].circuit = "open" /\ health'[p].elapsed >= health[p].elapsed]_vars

(* When requests stop failing, the circuit closes and stays closed.        *)
RecoversWithProvider ==
  <>[][~ \E c \in Callers : RequestFails(c)]_vars
    => <>[](\A p \in Providers : health[p].circuit = "closed")

=============================================================================
