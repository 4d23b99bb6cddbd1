------------------------ MODULE HealthTracker_proofs ------------------------
(***************************************************************************)
(* The circuit breaker's safety for every number of providers and callers, *)
(* every failure threshold and every cooldown.                             *)
(***************************************************************************)
EXTENDS HealthTracker, TLAPS

(* What the tracker's methods do to one provider's record, whoever calls   *)
(* them: the part of the invariant that speaks of a single circuit.        *)
GoodRecord(h) ==
  /\ h \in Health
  /\ h.circuit = "closed" => h.error_count < FAILURE_THRESHOLD
  /\ h.circuit = "half_open" => h.elapsed >= BASE_COOLDOWN

(* The backoff table: every entry of Backoff is a positive number.         *)
LEMMA BackoffPositive ==
  ASSUME NEW l \in Levels
  PROVE  Backoff[l] \in Nat /\ Backoff[l] >= 1
<1>1. l \in {1, 2, 3, 4, 5}
  BY DEF Levels
<1>2. /\ Backoff[1] = 1 /\ Backoff[2] = 2 /\ Backoff[3] = 4
      /\ Backoff[4] = 8 /\ Backoff[5] = 16
  BY DEF Backoff
<1> QED
  BY <1>1, <1>2

(* A cooldown is never shorter than BASE_COOLDOWN nor longer than          *)
(* MAX_COOLDOWN, at any level (_cooldown_seconds).                         *)
LEMMA CooldownBounds ==
  ASSUME NEW h \in Health
  PROVE  /\ CooldownUnits(h) \in Nat
         /\ BASE_COOLDOWN <= CooldownUnits(h)
         /\ CooldownUnits(h) <= MAX_COOLDOWN
<1> DEFINE b == Backoff[h.cooldown_level]
<1>1. b \in Nat /\ b >= 1
  BY BackoffPositive DEF Health
<1> HIDE DEF b
<1>2. BASE_COOLDOWN \in Nat /\ MAX_COOLDOWN \in Nat /\ BASE_COOLDOWN <= MAX_COOLDOWN
  BY CooldownAssumption
<1>3. BASE_COOLDOWN * b \in Nat /\ BASE_COOLDOWN <= BASE_COOLDOWN * b
  <2>1. PICK k \in Nat : b = k + 1
    <3>1. b - 1 \in Nat /\ b = (b - 1) + 1
      BY <1>1
    <3> QED
      BY <3>1
  <2>2. BASE_COOLDOWN * b = BASE_COOLDOWN * k + BASE_COOLDOWN
    BY <1>2, <2>1
  <2>3. BASE_COOLDOWN * k \in Nat
    BY <1>2, <2>1
  <2> QED
    BY <1>2, <2>2, <2>3
<1>4. CooldownUnits(h) = AtMost(BASE_COOLDOWN * b, MAX_COOLDOWN)
  BY DEF CooldownUnits, b
<1> QED
  BY <1>2, <1>3, <1>4 DEF AtMost

(* A new circuit is good.                                                  *)
LEMMA NewProviderGood == GoodRecord(NewProvider)
BY ThresholdAssumption, CooldownAssumption
   DEF GoodRecord, NewProvider, Health, Circuits, Levels

(* is_healthy opens a probe only when the cooldown is over.                *)
LEMMA AskingKeepsGood ==
  ASSUME NEW h, GoodRecord(h)
  PROVE  GoodRecord(AfterAsking(h))
<1>1. CASE h.circuit = "open" /\ CooledDown(h)
  <2>1. h.elapsed >= BASE_COOLDOWN
    BY <1>1, CooldownBounds, CooldownAssumption DEF GoodRecord, CooledDown, Health
  <2>2. AfterAsking(h) = [h EXCEPT !.circuit = "half_open"]
    BY <1>1 DEF AfterAsking
  <2> QED
    BY <2>1, <2>2 DEF GoodRecord, Health, Circuits
<1>2. CASE ~ (h.circuit = "open" /\ CooledDown(h))
  BY <1>2 DEF AfterAsking
<1> QED
  BY <1>1, <1>2

(* record_success keeps the record good.                                   *)
LEMMA SuccessKeepsGood ==
  ASSUME NEW h, GoodRecord(h)
  PROVE  GoodRecord(AfterSuccess(h))
<1>1. /\ FAILURE_THRESHOLD \in Nat /\ 0 < FAILURE_THRESHOLD
      /\ 0 \in 0..FAILURE_THRESHOLD
      /\ 1 \in Levels
  BY ThresholdAssumption DEF Levels
<1>2. /\ AfterSuccess(h) \in Health
      /\ AfterSuccess(h).error_count = 0
      /\ AfterSuccess(h).circuit # "half_open"
  <2>1. CASE h.circuit = "half_open"
    BY <1>1, <2>1 DEF GoodRecord, AfterSuccess, Health, Circuits
  <2>2. CASE h.circuit # "half_open"
    BY <1>1, <2>2 DEF GoodRecord, AfterSuccess, Health, Circuits
  <2> QED
    BY <2>1, <2>2
<1> QED
  BY <1>1, <1>2 DEF GoodRecord

(* record_failure keeps the record good: no failure that reaches the       *)
(* threshold leaves the circuit closed.                                    *)
LEMMA FailureKeepsGood ==
  ASSUME NEW h, GoodRecord(h)
  PROVE  GoodRecord(AfterFailure(h))
<1> DEFINE c == Counted(h)
<1>1. /\ c \in Health
      /\ c.circuit = h.circuit
      /\ c.elapsed = h.elapsed
  BY ThresholdAssumption DEF GoodRecord, Counted, AtMost, Health
<1>2. /\ c.error_count \in 0..FAILURE_THRESHOLD
      /\ c.cooldown_level \in Levels
  BY <1>1 DEF Health
<1> HIDE DEF c
<1>3. CASE h.circuit = "half_open"
  <2>1. AfterFailure(h) = Reopened(c)
    BY <1>3 DEF AfterFailure, c
  <2>2. AtMost(c.cooldown_level + 1, 5) \in Levels /\ 0 \in 0..MAX_COOLDOWN
    BY <1>2, CooldownAssumption DEF AtMost, Levels
  <2>3. Reopened(c) \in Health /\ Reopened(c).circuit = "open"
    BY <1>1, <2>2 DEF Reopened, Health, Circuits
  <2> QED
    BY <2>1, <2>3 DEF GoodRecord
<1>4. CASE c.error_count >= FAILURE_THRESHOLD /\ h.circuit = "closed"
  <2>1. AfterFailure(h) = [c EXCEPT !.circuit = "open", !.elapsed = 0]
    BY <1>4 DEF AfterFailure, c
  <2>2. 0 \in 0..MAX_COOLDOWN
    BY CooldownAssumption
  <2> QED
    BY <1>1, <2>1, <2>2 DEF GoodRecord, Health, Circuits
<1>5. CASE ~ (h.circuit = "half_open")
           /\ ~ (c.error_count >= FAILURE_THRESHOLD /\ h.circuit = "closed")
  <2>1. AfterFailure(h) = c
    BY <1>5 DEF AfterFailure, c
  <2> QED
    BY <1>1, <1>2, <1>5, <2>1, ThresholdAssumption DEF GoodRecord
<1> QED
  BY <1>3, <1>4, <1>5

-----------------------------------------------------------------------------
(* The inductive invariant: every record is good, every call is a call.    *)
IInv ==
  /\ health \in [Providers -> Health]
  /\ \A p \in Providers : GoodRecord(health[p])
  /\ calling \in [Callers -> Calls \union {NoCall}]

(* NextAttempt keeps the calls well formed: a caller with a call in flight *)
(* goes to its second attempt or ends.                                     *)
LEMMA NextAttemptType ==
  ASSUME NEW c \in Callers, calling \in [Callers -> Calls \union {NoCall}],
         calling[c] # NoCall, NextAttempt(c)
  PROVE  calling' \in [Callers -> Calls \union {NoCall}]
<1>1. calling[c] \in Calls
  OBVIOUS
<1>2. [calling[c] EXCEPT !.attempt = 2] \in Calls
  BY <1>1 DEF Calls
<1> QED
  BY <1>2 DEF NextAttempt

(* Replacing one provider's record by a good one keeps all records good.   *)
LEMMA OneRecordChanges ==
  ASSUME IInv, NEW p \in Providers, NEW h, GoodRecord(h),
         health' = [health EXCEPT ![p] = h]
  PROVE  /\ health' \in [Providers -> Health]
         /\ \A q \in Providers : GoodRecord(health'[q])
<1>1. h \in Health
  BY DEF GoodRecord
<1>2. health' \in [Providers -> Health]
  BY <1>1 DEF IInv
<1>3. ASSUME NEW q \in Providers PROVE GoodRecord(health'[q])
  <2>1. CASE q = p
    BY <2>1 DEF IInv
  <2>2. CASE q # p
    BY <2>2 DEF IInv
  <2> QED
    BY <2>1, <2>2
<1> QED
  BY <1>2, <1>3

(* A tracker without records satisfies the invariant.                      *)
LEMMA InitInvariant == Init => IInv
<1> SUFFICES ASSUME Init PROVE IInv
  OBVIOUS
<1>1. \A p \in Providers : health[p] = NewProvider
  BY DEF Init
<1>2. NewProvider \in Health
  BY NewProviderGood DEF GoodRecord
<1> QED
  BY <1>1, <1>2, NewProviderGood DEF Init, IInv

(* Every step of the callers and of the clock keeps the invariant.         *)
LEMMA NextInvariant == IInv /\ [Next]_vars => IInv'
<1> SUFFICES ASSUME IInv, [Next]_vars PROVE IInv'
  OBVIOUS
<1>1. ASSUME NEW C \in SUBSET Callers, NEW p \in Providers, Admit(C, p) PROVE IInv'
  <2>1. GoodRecord(AfterAsking(health[p]))
    BY AskingKeepsGood DEF IInv
  <2>2. health' \in [Providers -> Health] /\ \A q \in Providers : GoodRecord(health'[q])
    BY <1>1, <2>1, OneRecordChanges DEF Admit
  <2>3. [provider |-> p, attempt |-> 1] \in Calls
    BY DEF Calls
  <2> QED
    BY <1>1, <2>2, <2>3 DEF IInv, Admit
<1>2. ASSUME NEW c \in Callers, Return(c) PROVE IInv'
  <2> DEFINE p == calling[c].provider
  <2>1. calling[c] # NoCall
    BY <1>2 DEF Return, Answer, RequestFails, ReportUnparsable
  <2>2. p \in Providers
    BY <2>1 DEF IInv, Calls
  <2> HIDE DEF p
  <2>3. CASE Answer(c)
    <3>1. health' = [health EXCEPT ![p] = AfterSuccess(health[p])]
      BY <2>3 DEF Answer, p
    <3>2. GoodRecord(AfterSuccess(health[p]))
      BY <2>2, SuccessKeepsGood DEF IInv
    <3>3. health' \in [Providers -> Health] /\ \A q \in Providers : GoodRecord(health'[q])
      BY <2>2, <3>1, <3>2, OneRecordChanges
    <3>4. calling' \in [Callers -> Calls \union {NoCall}]
      <4>1. CASE calling' = [calling EXCEPT ![c] = NoCall]
        BY <4>1 DEF IInv
      <4>2. CASE NextAttempt(c)
        BY <2>1, <4>2, NextAttemptType DEF IInv
      <4> QED
        BY <2>3, <4>1, <4>2 DEF Answer
    <3> QED
      BY <3>3, <3>4 DEF IInv
  <2>4. CASE RequestFails(c)
    <3>1. health' = [health EXCEPT ![p] = AfterFailure(health[p])]
      BY <2>4 DEF RequestFails, p
    <3>2. GoodRecord(AfterFailure(health[p]))
      BY <2>2, FailureKeepsGood DEF IInv
    <3>3. health' \in [Providers -> Health] /\ \A q \in Providers : GoodRecord(health'[q])
      BY <2>2, <3>1, <3>2, OneRecordChanges
    <3>4. calling' \in [Callers -> Calls \union {NoCall}]
      BY <2>1, <2>4, NextAttemptType DEF RequestFails, IInv
    <3> QED
      BY <3>3, <3>4 DEF IInv
  <2>5. CASE ReportUnparsable(c)
    <3>1. health' = [health EXCEPT ![p] = AfterFailure(AfterSuccess(health[p]))]
      BY <2>5 DEF ReportUnparsable, p
    <3>2. GoodRecord(AfterFailure(AfterSuccess(health[p])))
      BY <2>2, SuccessKeepsGood, FailureKeepsGood DEF IInv
    <3>3. health' \in [Providers -> Health] /\ \A q \in Providers : GoodRecord(health'[q])
      BY <2>2, <3>1, <3>2, OneRecordChanges
    <3>4. calling' \in [Callers -> Calls \union {NoCall}]
      BY <2>1, <2>5, NextAttemptType DEF ReportUnparsable, IInv
    <3> QED
      BY <3>3, <3>4 DEF IInv
  <2> QED
    BY <1>2, <2>3, <2>4, <2>5 DEF Return
<1>3. ASSUME NEW p \in Providers, Elapse(p) PROVE IInv'
  <2> DEFINE h == [health[p] EXCEPT !.elapsed = health[p].elapsed + 1]
  <2>1. health[p] \in Health
    BY DEF IInv
  <2>2. health[p].elapsed + 1 \in 0..MAX_COOLDOWN
    BY <1>3, <2>1, CooldownAssumption DEF Elapse, Health
  <2>3. GoodRecord(h)
    BY <1>3, <2>1, <2>2 DEF Elapse, GoodRecord, Health
  <2>4. health' = [health EXCEPT ![p] = h]
    BY <1>3 DEF Elapse
  <2> HIDE DEF h
  <2> QED
    BY <1>3, <2>3, <2>4, OneRecordChanges DEF IInv, Elapse
<1>4. CASE UNCHANGED vars
  BY <1>4 DEF IInv, vars
<1> QED
  BY <1>1, <1>2, <1>3, <1>4 DEF Next

(* The invariant holds in every reachable state.                           *)
LEMMA Invariance == Spec => []IInv
BY InitInvariant, NextInvariant, PTL DEF Spec

(* The tracker's state and the calls in flight are always well formed.     *)
THEOREM TypeCorrect == Spec => []TypeOK
<1>1. IInv => TypeOK
  BY DEF IInv, TypeOK
<1> QED
  BY <1>1, Invariance, PTL

(* A provider that has failed FAILURE_THRESHOLD times in a row is out of   *)
(* service (record_failure), for any number of concurrent callers.         *)
THEOREM TripsAtThresholdAlways == Spec => []TripsAtThreshold
<1>1. IInv => TripsAtThreshold
  BY DEF IInv, GoodRecord, TripsAtThreshold
<1> QED
  BY <1>1, Invariance, PTL

(* No provider is probed before the base cooldown is over (is_healthy),    *)
(* whatever a late success did to its cooldown level.                      *)
THEOREM ProbeWaitsAlways == Spec => []ProbeWaitsForCooldown
<1>1. IInv => ProbeWaitsForCooldown
  BY DEF IInv, GoodRecord, ProbeWaitsForCooldown
<1> QED
  BY <1>1, Invariance, PTL

-----------------------------------------------------------------------------
(* What a single step may do to the record of an open circuit: make it a   *)
(* probe, or leave it on its way there.                                    *)
LegalStep(h, g) ==
  h.circuit = "open" => \/ g.circuit = "half_open"
                        \/ g.circuit = "open" /\ g.elapsed >= h.elapsed

(* Every method of the tracker takes legal steps only.                     *)
LEMMA MethodsAreLegal ==
  ASSUME NEW h, GoodRecord(h)
  PROVE  /\ LegalStep(h, h)
         /\ LegalStep(h, AfterAsking(h))
         /\ LegalStep(h, AfterSuccess(h))
         /\ LegalStep(h, AfterFailure(h))
         /\ LegalStep(h, AfterFailure(AfterSuccess(h)))
         /\ LegalStep(h, [h EXCEPT !.elapsed = h.elapsed + 1])
<1>1. h \in Health /\ h.elapsed \in Nat
  BY CooldownAssumption DEF GoodRecord, Health
<1>2. LegalStep(h, h)
  BY <1>1 DEF LegalStep
<1>3. LegalStep(h, AfterAsking(h))
  BY <1>1 DEF LegalStep, AfterAsking, Health
<1>4. /\ AfterSuccess(h) \in Health
      /\ AfterSuccess(h).elapsed = h.elapsed
      /\ h.circuit = "open" => AfterSuccess(h).circuit = "open"
  <2>1. AfterSuccess(h) \in Health
    BY SuccessKeepsGood DEF GoodRecord
  <2> QED
    BY <1>1, <2>1 DEF AfterSuccess, Health
<1>5. ASSUME NEW g \in Health
      PROVE  g.circuit = "open" => /\ AfterFailure(g).circuit = "open"
                                   /\ AfterFailure(g).elapsed = g.elapsed
  <2> SUFFICES ASSUME g.circuit = "open"
               PROVE  /\ AfterFailure(g).circuit = "open"
                      /\ AfterFailure(g).elapsed = g.elapsed
    OBVIOUS
  <2>1. AfterFailure(g) = Counted(g)
    BY DEF AfterFailure
  <2> QED
    BY <2>1 DEF Counted, Health
<1>6. LegalStep(h, AfterSuccess(h))
  BY <1>1, <1>4 DEF LegalStep
<1>7. ASSUME NEW g \in Health, g.elapsed = h.elapsed,
             h.circuit = "open" => g.circuit = "open"
      PROVE  LegalStep(h, AfterFailure(g))
  BY <1>1, <1>5, <1>7 DEF LegalStep
<1>8. LegalStep(h, [h EXCEPT !.elapsed = h.elapsed + 1])
  BY <1>1 DEF LegalStep, Health
<1> QED
  BY <1>1, <1>2, <1>3, <1>4, <1>6, <1>7, <1>8

(* Every step of the system is a legal step of every provider's record.    *)
LEMMA StepsAreLegal ==
  ASSUME IInv, [Next]_vars
  PROVE  \A p \in Providers : LegalStep(health[p], health'[p])
<1> SUFFICES ASSUME NEW p \in Providers PROVE LegalStep(health[p], health'[p])
  OBVIOUS
<1>1. GoodRecord(health[p]) /\ health \in [Providers -> Health]
  BY DEF IInv
<1> DEFINE h == health[p]
<1>2. /\ LegalStep(h, h)
      /\ LegalStep(h, AfterAsking(h))
      /\ LegalStep(h, AfterSuccess(h))
      /\ LegalStep(h, AfterFailure(h))
      /\ LegalStep(h, AfterFailure(AfterSuccess(h)))
      /\ LegalStep(h, [h EXCEPT !.elapsed = h.elapsed + 1])
  BY <1>1, MethodsAreLegal
<1>3. ASSUME NEW C \in SUBSET Callers, NEW q \in Providers, Admit(C, q)
      PROVE  LegalStep(h, health'[p])
  BY <1>1, <1>2, <1>3 DEF Admit
<1>4. ASSUME NEW c \in Callers, Return(c)
      PROVE  LegalStep(h, health'[p])
  BY <1>1, <1>2, <1>4 DEF Return, Answer, RequestFails, ReportUnparsable
<1>5. ASSUME NEW q \in Providers, Elapse(q)
      PROVE  LegalStep(h, health'[p])
  BY <1>1, <1>2, <1>5 DEF Elapse
<1>6. CASE UNCHANGED vars
  BY <1>2, <1>6 DEF vars
<1> QED
  BY <1>3, <1>4, <1>5, <1>6 DEF Next

(* Late successes do not close a circuit and late failures do not restart  *)
(* its cooldown (record_success, record_failure), in any order.            *)
THEOREM OpenUntilProbedAlways == Spec => OpenUntilProbed
<1>1. IInv /\ [Next]_vars =>
        [\A p \in Providers : health[p].circuit = "open" =>
           \/ health'[p].circuit = "half_open"
           \/ health'[p].circuit = "open" /\ health'[p].elapsed >= health[p].elapsed]_vars
  BY StepsAreLegal DEF LegalStep
<1> QED
  BY <1>1, Invariance, PTL DEF Spec, OpenUntilProbed
=============================================================================
