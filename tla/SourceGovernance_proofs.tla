----------------------- MODULE SourceGovernance_proofs -----------------------
(***************************************************************************)
(* The governance of sources for any configured and found sources, any     *)
(* outcomes of runs, days, runs, edits and restarts.                       *)
(***************************************************************************)
EXTENDS SourceGovernance, FiniteSetsExt, WellFoundedInduction, FiniteSetTheorems, TLAPS

(* A set of naturals has a least member, which Min names: the latest days. *)
LEMMA MinIsLeast ==
  ASSUME NEW S, S \subseteq Nat, S # {}
  PROVE  Min(S) \in S /\ \A x \in S : Min(S) <= x
<1>1. PICK m \in S : \A x \in S : ~ (<<x, m>> \in OpToRel(<, Nat))
  BY WFMin, NatLessThanWellFounded, Zenon
<1>2. ASSUME NEW x \in S PROVE ~ (x < m)
  BY <1>1, Zenon DEF OpToRel
<1>3. \A x \in S : m <= x
  BY <1>2
<1> QED
  BY <1>3 DEF Min

(* A bounded one has a greatest member.                                    *)
LEMMA GreatestExists ==
  ASSUME NEW n \in Nat, NEW S, S \subseteq 0..n, S # {}
  PROVE  \E x \in S : \A y \in S : y <= x
<1> DEFINE T == {n - x : x \in S}
<1>1. T \subseteq Nat /\ T # {}
  <2>1. \A x \in S : n - x \in Nat
    OBVIOUS
  <2> QED
    BY <2>1
<1>2. Min(T) \in T /\ \A t \in T : Min(T) <= t
  <2> HIDE DEF T
  <2> QED
    BY <1>1, MinIsLeast
<1>3. PICK x \in S : Min(T) = n - x
  BY <1>2
<1>4. \A y \in S : n - x <= n - y
  BY <1>2, <1>3
<1> QED
  BY <1>4

-----------------------------------------------------------------------------
(* Before a run has read its statuses it knows of no trials.               *)
NoTrialsYet == at \in {"idle", "sync", "list"} => trial = {}

(* Types, with what the maintenance job holds while a verdict is open.     *)
Typed ==
  /\ TypeOK
  /\ DOMAIN daily = Sources
  /\ \A s \in Sources : \A d \in DOMAIN daily[s] : d <= day
  /\ verdict # NoVerdict =>
       /\ verdict.source \in pending /\ verdict.status \in {"active", "rejected"}
       /\ maint = "evaluate"
  /\ NoTrialsYet

LEMMA InitTyped == Init => Typed
<1> SUFFICES ASSUME Init PROVE Typed
  OBVIOUS
<1> USE GovernanceAssumption
<1>1. \A s \in Sources : DOMAIN daily[s] = {}
  BY DEF Init
<1>2. DOMAIN daily = Sources /\ \A s \in Sources : DOMAIN daily[s] \subseteq Days /\ Range(daily[s]) \subseteq Row
  BY <1>1 DEF Init, Range
<1>3. status \in [Sources -> Statuses] /\ yaml \in [Sources -> {"on", "off", "absent"}]
  BY DEF Init, Statuses, SCHEDULABLE_STATUSES
<1>4. got \in [Sources -> Outcomes \union {Nothing}] /\ day \in Days
  BY DEF Init, Days
<1>5. runs \in 0..MaxRuns /\ upsets \in 0..MaxUpsets
  BY DEF Init
<1>6. jobs \subseteq Sources /\ "none" \in Statuses /\ verdict = NoVerdict
  BY DEF Init, Sources, Statuses
<1>7. TypeOK
  BY <1>2, <1>3, <1>4, <1>5, <1>6 DEF Init, TypeOK, NoVerdict
<1>8. trial = {}
  BY DEF Init
<1> QED
  BY <1>1, <1>2, <1>6, <1>7, <1>8 DEF Typed, NoTrialsYet

(* What a run adds to the rows of a source.                                *)
LEMMA RolledUpType ==
  ASSUME NEW rows, DOMAIN rows \subseteq 1..day, Range(rows) \subseteq Row, day \in Days,
         NEW o \in Outcomes \union {Nothing}
  PROVE  /\ DOMAIN RolledUp(rows, o) = DOMAIN rows \union {day}
         /\ Range(RolledUp(rows, o)) \subseteq Row
         /\ \A d \in DOMAIN rows : RolledUp(rows, o)[d].new >= rows[d].new
         /\ \A d \in DOMAIN rows : d # day => RolledUp(rows, o)[d] = rows[d]
<1> DEFINE old == IF day \in DOMAIN rows THEN rows[day] ELSE Empty
           new == [collected |-> old.collected + o.collected, new |-> old.new + o.new,
                   approved |-> old.approved + o.approved, failed |-> old.failed + o.failed,
                   cost |-> old.cost + o.cost, blocked |-> old.blocked \/ Blocked(o)]
<1>1. \A d \in DOMAIN rows : rows[d] \in Row
  BY DEF Range
<1>2. old \in Row
  BY <1>1 DEF Row, Empty
<1>3. /\ o.collected \in Nat /\ o.new \in Nat /\ o.approved \in Nat /\ o.failed \in Nat
      /\ o.cost \in Nat
  BY GovernanceAssumption DEF Nothing
<1>4. new \in Row
  <2>1. (old.blocked \/ Blocked(o)) \in BOOLEAN
    OBVIOUS
  <2>2. /\ old.collected + o.collected \in Nat /\ old.new + o.new \in Nat
        /\ old.approved + o.approved \in Nat /\ old.failed + o.failed \in Nat
        /\ old.cost + o.cost \in Nat
    BY <1>2, <1>3 DEF Row
  <2> HIDE DEF old
  <2> QED
    BY <2>1, <2>2 DEF Row
<1>5. new.new = old.new + o.new
  OBVIOUS
<1> HIDE DEF new
<1>6. RolledUp(rows, o) = [d \in DOMAIN rows \union {day} |-> IF d = day THEN new ELSE rows[d]]
  BY DEF RolledUp, new
<1>7. \A d \in DOMAIN rows : RolledUp(rows, o)[d].new >= rows[d].new
  BY <1>1, <1>2, <1>3, <1>5, <1>6 DEF Row
<1> HIDE DEF old
<1> QED
  BY <1>1, <1>4, <1>6, <1>7 DEF Range

(* Governance and synchronisation give a source one of the statuses.       *)
LEMMA GovernedType ==
  ASSUME NEW current \in Statuses, NEW rows
  PROVE  Governed(current, rows) \in Statuses
BY DEF Governed, Statuses, SCHEDULABLE_STATUSES, GOVERNED_STATUSES

LEMMA SyncedType ==
  ASSUME NEW found \in Statuses, NEW entry
  PROVE  Synced(entry, found) \in Statuses
BY DEF Synced, Statuses, SCHEDULABLE_STATUSES, GOVERNED_STATUSES
(* Steps that touch neither rows of health, verdicts nor the calendar.     *)
LEMMA TypedFrame ==
  ASSUME Typed, TypeOK', UNCHANGED <<daily, day, verdict, maint, pending>>,
         NoTrialsYet'
  PROVE  Typed'
BY DEF Typed

LEMMA PipelineTyped == Typed /\ PipelineStep => Typed'
<1> SUFFICES ASSUME Typed, PipelineStep PROVE Typed'
  OBVIOUS
<1> USE GovernanceAssumption
<1>0. TypeOK
  BY DEF Typed
<1>1. CASE RunStarts
  <2>1. runs' \in 0..MaxRuns
    BY <1>0, <1>1 DEF RunStarts, TypeOK
  <2>2. filter' \subseteq Sources /\ todo' \subseteq Sources
    BY <1>0, <1>1 DEF RunStarts, TypeOK
  <2>3. TypeOK'
    BY <1>0, <1>1, <2>1, <2>2 DEF RunStarts, TypeOK, maintenance
  <2>8. NoTrialsYet'
    BY <1>1 DEF RunStarts, NoTrialsYet, Typed, pipeline
  <2> QED
    BY <1>1, <2>8, <2>3, TypedFrame DEF RunStarts, maintenance
<1>2. ASSUME NEW s \in Sources, SyncRead(s) PROVE Typed'
  <2>1. TypeOK'
    BY <1>0, <1>2 DEF SyncRead, TypeOK, maintenance, bounds
  <2>8. NoTrialsYet'
    BY <1>2 DEF SyncRead, NoTrialsYet, Typed, pipeline
  <2> QED
    BY <1>2, <2>8, <2>1, TypedFrame DEF SyncRead, maintenance
<1>3. CASE SyncWrite
  <2>1. status' \in [Sources -> Statuses]
    BY <1>0, <1>3, SyncedType DEF SyncWrite, TypeOK
  <2>2. "none" \in Statuses
    BY DEF Statuses
  <2>3. TypeOK'
    BY <1>0, <1>3, <2>1, <2>2 DEF SyncWrite, TypeOK, maintenance, bounds
  <2>8. NoTrialsYet'
    BY <1>3 DEF SyncWrite, NoTrialsYet, Typed, pipeline
  <2> QED
    BY <1>3, <2>8, <2>3, TypedFrame DEF SyncWrite, maintenance
<1>4. CASE SyncDone \/ ListPipelineSources \/ GetSourceStatuses
  <2>1. CASE SyncDone
    BY <1>0, <2>1 DEF SyncDone, TypeOK, Typed, NoTrialsYet, maintenance, bounds
  <2>2. CASE ListPipelineSources
    <3>1. trial' = {} /\ trial' \subseteq active' /\ active' \subseteq Sources
      BY <2>2 DEF ListPipelineSources, Schedulable, Typed, NoTrialsYet
    <3>2. TypeOK'
      BY <1>0, <2>2, <3>1 DEF ListPipelineSources, TypeOK, maintenance, bounds
    <3> QED
      BY <2>2, <3>1, <3>2, TypedFrame DEF ListPipelineSources, NoTrialsYet, maintenance
  <2>3. CASE GetSourceStatuses
    BY <1>0, <2>3 DEF GetSourceStatuses, TypeOK, Typed, NoTrialsYet, maintenance, bounds
  <2> QED
    BY <1>4, <2>1, <2>2, <2>3
<1>5. CASE Collect
  <2>1. got' \in [Sources -> Outcomes \union {Nothing}]
    BY <1>0, <1>5 DEF Collect, TypeOK
  <2>2. TypeOK'
    BY <1>0, <1>5, <2>1 DEF Collect, TypeOK, maintenance, bounds
  <2>8. NoTrialsYet'
    BY <1>5 DEF Collect, NoTrialsYet, Typed, pipeline
  <2> QED
    BY <1>5, <2>8, <2>2, TypedFrame DEF Collect, maintenance
<1>6. CASE Persist
  <2>1. TypeOK'
    BY <1>0, <1>6 DEF Persist, TypeOK, maintenance, bounds
  <2>8. NoTrialsYet'
    BY <1>6 DEF Persist, NoTrialsYet, Typed, pipeline
  <2> QED
    BY <1>6, <2>8, <2>1, TypedFrame DEF Persist, maintenance
<1>7. ASSUME NEW s \in Sources, RollUp(s) PROVE Typed'
  <2> DEFINE rows == daily[s]
  <2>1. DOMAIN rows \subseteq 1..day /\ Range(rows) \subseteq Row /\ day \in Days
        /\ got[s] \in Outcomes \union {Nothing}
    BY <1>0 DEF Typed, TypeOK, Days
  <2>2. DOMAIN RolledUp(rows, got[s]) = DOMAIN rows \union {day}
        /\ Range(RolledUp(rows, got[s])) \subseteq Row
    BY <2>1, RolledUpType
  <2>3. /\ DOMAIN daily' = Sources
        /\ \A q \in Sources : daily'[q] = IF q = s THEN RolledUp(rows, got[s]) ELSE daily[q]
    BY <1>7 DEF RollUp, Typed
  <2>4. status' \in [Sources -> Statuses] /\ logged' \in [Sources -> Statuses]
    BY <1>0, <1>7, GovernedType DEF RollUp, ChangeStatus, TypeOK
  <2>5. \A q \in Sources : DOMAIN daily'[q] \subseteq Days /\ Range(daily'[q]) \subseteq Row
    BY <1>0, <2>1, <2>2, <2>3 DEF TypeOK
  <2>6. TypeOK'
    BY <1>0, <1>7, <2>4, <2>5 DEF RollUp, TypeOK, maintenance, bounds
  <2>7. \A q \in Sources : \A d \in DOMAIN daily'[q] : d <= day
    BY <2>1, <2>2, <2>3 DEF Typed, Days
  <2>8. NoTrialsYet'
    BY <1>7 DEF RollUp, NoTrialsYet, Typed, pipeline
  <2> QED
    BY <1>7, <2>8, <2>3, <2>6, <2>7 DEF RollUp, Typed, maintenance
<1>8. CASE RunEnds \/ RunFails
  <2>1. "none" \in Statuses /\ got' \in [Sources -> Outcomes \union {Nothing}]
    BY <1>8 DEF RunEnds, RunFails, RunIsOver, Statuses
  <2>2. TypeOK'
    BY <1>0, <1>8, <2>1 DEF RunEnds, RunFails, RunIsOver, TypeOK, maintenance, bounds
  <2>8. NoTrialsYet'
    BY <1>8 DEF RunEnds, RunFails, RunIsOver, NoTrialsYet, Typed, pipeline
  <2> QED
    BY <1>8, <2>8, <2>2, TypedFrame DEF RunEnds, RunFails, maintenance
<1> QED
  BY <1>1, <1>2, <1>3, <1>4, <1>5, <1>6, <1>7, <1>8 DEF PipelineStep

LEMMA MaintenanceTyped == Typed /\ MaintenanceStep => Typed'
<1> SUFFICES ASSUME Typed, MaintenanceStep PROVE Typed'
  OBVIOUS
<1> USE GovernanceAssumption
<1>0. TypeOK /\ {"candidate", "trial", "none", "active", "rejected"} \subseteq Statuses
  BY DEF Typed, Statuses, SCHEDULABLE_STATUSES, GOVERNED_STATUSES
<1>1. CASE MaintenanceStarts
  BY <1>0, <1>1 DEF MaintenanceStarts, Typed, NoTrialsYet, TypeOK, pipeline, bounds
<1>2. ASSUME NEW s \in Sources, Discover(s) PROVE Typed'
  <2>1. TypeOK'
    BY <1>0, <1>2 DEF Discover, TypeOK, pipeline, maintenance, bounds
  <2>8. NoTrialsYet'
    BY <1>2 DEF Discover, NoTrialsYet, Typed, pipeline
  <2> QED
    BY <1>2, <2>8, <2>1, TypedFrame DEF Discover, maintenance
<1>3. CASE SelectCandidates
  <2>1. pending' \subseteq Sources
    BY <1>3 DEF SelectCandidates, kSubset
  <2>8. NoTrialsYet'
    BY <1>3 DEF SelectCandidates, NoTrialsYet, Typed, pipeline
  <2> QED
    BY <1>0, <2>8, <1>3, <2>1 DEF SelectCandidates, Typed, TypeOK, pipeline, bounds
<1>4. ASSUME NEW s \in Sources, Promote(s) PROVE Typed'
  <2>1. TypeOK'
    BY <1>0, <1>4 DEF Promote, ChangeStatus, TypeOK, pipeline, bounds
  <2>2. verdict' = NoVerdict
    BY <1>4 DEF Promote, Typed
  <2>8. NoTrialsYet'
    BY <1>4 DEF Promote, NoTrialsYet, Typed, pipeline
  <2> QED
    BY <1>4, <2>8, <2>1, <2>2 DEF Promote, Typed
<1>5. CASE SelectTrials
  <2>1. verdict' = NoVerdict
    BY <1>5 DEF SelectTrials, Typed
  <2>8. NoTrialsYet'
    BY <1>5 DEF SelectTrials, NoTrialsYet, Typed, pipeline
  <2> QED
    BY <1>0, <2>8, <1>5, <2>1 DEF SelectTrials, Typed, TypeOK, pipeline, bounds
<1>6. ASSUME NEW s \in Sources, Judge(s) PROVE Typed'
  <2>8. NoTrialsYet'
    BY <1>6 DEF Judge, NoTrialsYet, Typed, pipeline
  <2>1. CASE UNCHANGED pending
    <3>1. verdict'.source = s /\ verdict'.status \in {"active", "rejected"}
      BY <1>6, <2>1 DEF Judge
    <3>2. TypeOK'
      BY <1>0, <1>6, <2>1, <3>1 DEF Judge, TypeOK, pipeline, bounds
    <3> QED
      BY <1>6, <2>1, <3>1, <3>2, <2>8 DEF Judge, Typed
  <2>2. CASE pending' = pending \ {s} /\ UNCHANGED verdict
    BY <1>0, <1>6, <2>2, <2>8 DEF Judge, Typed, TypeOK, pipeline, bounds
  <2> QED
    BY <1>6, <2>1, <2>2 DEF Judge
<1>7. CASE Decide
  <2>1. verdict.source \in Sources /\ verdict.status \in Statuses
    BY <1>0, <1>7 DEF Decide, Typed, TypeOK
  <2>2. status' \in [Sources -> Statuses] /\ logged' \in [Sources -> Statuses]
    BY <1>0, <1>7, <2>1 DEF Decide, ChangeStatus, TypeOK
  <2>3. verdict' = NoVerdict /\ NoVerdict.source = NoSource /\ NoVerdict.status = "none"
    BY <1>7 DEF Decide, NoVerdict
  <2>4. TypeOK'
    BY <1>0, <1>7, <2>2, <2>3 DEF Decide, TypeOK, pipeline, bounds
  <2>8. NoTrialsYet'
    BY <1>7 DEF Decide, NoTrialsYet, Typed, pipeline
  <2> QED
    BY <1>7, <2>8, <2>3, <2>4 DEF Decide, Typed
<1>8. CASE MaintenanceEnds
  <2>1. verdict' = NoVerdict /\ NoVerdict.source = NoSource /\ NoVerdict.status = "none"
    BY <1>8 DEF MaintenanceEnds, NoVerdict
  <2>2. TypeOK'
    BY <1>0, <1>8, <2>1 DEF MaintenanceEnds, TypeOK, pipeline, bounds
  <2>8. NoTrialsYet'
    BY <1>8 DEF MaintenanceEnds, NoTrialsYet, Typed, pipeline
  <2> QED
    BY <1>8, <2>8, <2>1, <2>2 DEF MaintenanceEnds, Typed
<1> QED
  BY <1>1, <1>2, <1>3, <1>4, <1>5, <1>6, <1>7, <1>8 DEF MaintenanceStep

LEMMA NextTyped == Typed /\ [Next]_vars => Typed'
<1> SUFFICES ASSUME Typed, [Next]_vars PROVE Typed'
  OBVIOUS
<1> USE GovernanceAssumption
<1>0. TypeOK /\ "none" \in Statuses
  BY DEF Typed, Statuses
<1>1. ASSUME NEW s \in Sources, SourceAction(s) PROVE Typed'
  <2>1. TypeOK'
    BY <1>0, <1>1 DEF SourceAction, TypeOK, pipeline, maintenance
  <2>8. NoTrialsYet'
    BY <1>1 DEF SourceAction, NoTrialsYet, Typed, pipeline
  <2> QED
    BY <1>1, <2>8, <2>1, TypedFrame DEF SourceAction, maintenance
<1>2. CASE Restart
  <2>1. status' \in [Sources -> Statuses]
    BY <1>0, <1>2, SyncedType DEF Restart, TypeOK
  <2>2. verdict' = NoVerdict /\ NoVerdict.source = NoSource /\ NoVerdict.status = "none"
    BY <1>2 DEF Restart, NoVerdict
  <2>3. jobs' \subseteq Sources /\ got' \in [Sources -> Outcomes \union {Nothing}]
    BY <1>2 DEF Restart, Schedulable, RunIsOver
  <2>4. upsets' \in 0..MaxUpsets
    BY <1>0, <1>2 DEF Restart, TypeOK
  <2>5. TypeOK'
    BY <1>0, <1>2, <2>1, <2>2, <2>3, <2>4 DEF Restart, RunIsOver, TypeOK
  <2>8. NoTrialsYet'
    BY <1>2 DEF Restart, RunIsOver, NoTrialsYet, Typed, pipeline
  <2> QED
    BY <1>2, <2>8, <2>2, <2>5 DEF Restart, Typed
<1>3. CASE NewDay
  <2>1. day' \in Days /\ day < day'
    BY <1>0, <1>3 DEF NewDay, TypeOK, Days
  <2>2. TypeOK'
    BY <1>0, <1>3, <2>1 DEF NewDay, TypeOK, pipeline, maintenance, bounds
  <2>3. \A s \in Sources : \A d \in DOMAIN daily[s] : d \in Nat /\ d <= day /\ d <= day'
    BY <1>0, <1>3, <2>1 DEF Typed, TypeOK, Days, NewDay
  <2>8. NoTrialsYet'
    BY <1>3 DEF NewDay, NoTrialsYet, Typed, pipeline
  <2> QED
    BY <1>3, <2>8, <2>2, <2>3 DEF NewDay, Typed, maintenance
<1>4. CASE UNCHANGED vars
  BY <1>4 DEF vars, pipeline, maintenance, bounds, Typed, NoTrialsYet, TypeOK
<1> QED
  BY <1>1, <1>2, <1>3, <1>4, PipelineTyped, MaintenanceTyped DEF Next
-----------------------------------------------------------------------------
(* What a found source and a configured one can be: only the first has a   *)
(* trial, only the second is synchronised, and nobody changes the row of a *)
(* source between the read and the write of its synchronisation.           *)
Kinds ==
  /\ \A s \in Found : yaml[s] = "absent" /\ cfg[s] = "absent"
  /\ \A s \in Configured : status[s] \notin {"candidate", "trial", "rejected"}
  /\ seen \notin {"candidate", "trial", "rejected"}
  /\ syncing # NoSource => at = "sync" /\ syncing \in todo /\ seen = status[syncing]
  /\ pending \subseteq Found
  /\ at \in {"idle", "list", "status", "collect", "persist"} => todo = {}
  /\ at = "sync" => \A s \in todo : cfg[s] # "absent"
  /\ at = "rollup" => todo \subseteq active
  /\ at \in {"idle", "sync", "list"} => active = {}

(* A synchronised source that the configuration switches off is disabled   *)
(* until the run lists its sources.                                        *)
Switched ==
  /\ \A s \in Sources :
       cfg[s] = "off" /\ (at = "list" \/ (at = "sync" /\ s \notin todo))
         => status[s] = "disabled"
  /\ SwitchedOffIsNotCollected

RunInv == Typed /\ Kinds /\ Switched

LEMMA InitRun == Init => RunInv
<1> SUFFICES ASSUME Init PROVE RunInv
  OBVIOUS
<1>1. Kinds
  BY GovernanceAssumption DEF Init, Kinds, Sources
<1>2. Switched
  BY DEF Init, Switched, SwitchedOffIsNotCollected
<1> QED
  BY <1>1, <1>2, InitTyped DEF RunInv

LEMMA NextRun == RunInv /\ [Next]_vars => RunInv'
<1> SUFFICES ASSUME RunInv, [Next]_vars PROVE Kinds' /\ Switched'
  BY NextTyped DEF RunInv
<1> USE GovernanceAssumption DEF Sources
<1>0. TypeOK
  BY DEF RunInv, Typed
<1>1. CASE RunStarts
  <2>1. Kinds'
    BY <1>1 DEF RunStarts, RunInv, Kinds, maintenance
  <2>2. Switched'
    BY <1>1 DEF RunStarts, RunInv, Switched, SwitchedOffIsNotCollected
  <2> QED
    BY <2>1, <2>2
<1>2. ASSUME NEW s \in Sources, SyncRead(s) PROVE Kinds' /\ Switched'
  <2>1. s \in Configured
    BY <1>2 DEF SyncRead, RunInv, Kinds
  <2>2. Kinds'
    BY <1>2, <2>1 DEF SyncRead, RunInv, Kinds, maintenance
  <2>3. Switched'
    BY <1>2 DEF SyncRead, RunInv, Switched, SwitchedOffIsNotCollected
  <2> QED
    BY <2>2, <2>3
<1>3. CASE SyncWrite
  <2>1. at = "sync" /\ syncing \in Configured /\ syncing \in todo
    BY <1>0, <1>3 DEF SyncWrite, RunInv, Kinds, TypeOK
  <2>2. status' = [status EXCEPT ![syncing] = Synced(cfg[syncing], seen)]
    BY <1>3 DEF SyncWrite
  <2>3. Synced(cfg[syncing], seen) \notin {"candidate", "trial", "rejected"}
        /\ (cfg[syncing] = "off" => Synced(cfg[syncing], seen) = "disabled")
    BY DEF Synced, GOVERNED_STATUSES, RunInv, Kinds
  <2>4. Kinds'
    BY <1>0, <1>3, <2>1, <2>2, <2>3 DEF SyncWrite, RunInv, Kinds, TypeOK, maintenance
  <2>5. Switched'
    BY <1>0, <1>3, <2>1, <2>2, <2>3 DEF SyncWrite, RunInv, Switched, SwitchedOffIsNotCollected,
       TypeOK
  <2> QED
    BY <2>4, <2>5
<1>4. CASE SyncDone
  <2>1. syncing = NoSource
    BY <1>4 DEF SyncDone, RunInv, Kinds
  <2>2. Kinds'
    BY <1>4, <2>1 DEF SyncDone, RunInv, Kinds, maintenance
  <2>3. Switched'
    BY <1>4 DEF SyncDone, RunInv, Switched, SwitchedOffIsNotCollected
  <2> QED
    BY <2>2, <2>3
<1>5. CASE ListPipelineSources
  <2>1. Kinds'
    BY <1>5 DEF ListPipelineSources, RunInv, Kinds, maintenance
  <2>2. \A s \in active' : cfg'[s] # "off"
    BY <1>5 DEF ListPipelineSources, RunInv, Switched, Schedulable, SCHEDULABLE_STATUSES
  <2>3. Switched'
    BY <1>5, <2>2 DEF ListPipelineSources, Switched, SwitchedOffIsNotCollected
  <2> QED
    BY <2>1, <2>3
<1>6. CASE GetSourceStatuses
  BY <1>6 DEF GetSourceStatuses, RunInv, Kinds, Switched, SwitchedOffIsNotCollected, maintenance
<1>7. CASE Collect
  <2>1. at = "collect" /\ UNCHANGED <<yaml, status, cfg, todo, syncing, seen, pending>>
        /\ ((at' = "persist" /\ UNCHANGED <<active, trial>>) \/ (at' = "idle" /\ active' = {} /\ trial' = {}))
    BY <1>7 DEF Collect, maintenance
  <2> QED
    BY <2>1 DEF RunInv, Kinds, Switched, SwitchedOffIsNotCollected
<1>8. CASE Persist
  BY <1>8 DEF Persist, RunInv, Kinds, Switched, SwitchedOffIsNotCollected, maintenance
<1>9. ASSUME NEW s \in Sources, RollUp(s) PROVE Kinds' /\ Switched'
  <2>1. s \in Configured => Governed(status[s], daily'[s]) \notin {"candidate", "trial", "rejected"}
    BY DEF Governed, RunInv, Kinds
  <2>2. status' = [status EXCEPT ![s] = Governed(status[s], daily'[s])]
    BY <1>9 DEF RollUp, ChangeStatus
  <2>3. Kinds'
    BY <1>0, <1>9, <2>1, <2>2 DEF RollUp, RunInv, Kinds, TypeOK, maintenance
  <2>4. Switched'
    BY <1>9 DEF RollUp, RunInv, Switched, SwitchedOffIsNotCollected
  <2> QED
    BY <2>3, <2>4
<1>10. CASE RunEnds \/ RunFails
  BY <1>10 DEF RunEnds, RunFails, RunIsOver, RunInv, Kinds, Switched, SwitchedOffIsNotCollected,
     maintenance
<1>11. ASSUME NEW s \in Found, NEW new, status' = [status EXCEPT ![s] = new],
              UNCHANGED <<yaml, at, cfg, todo, syncing, seen, active, trial>>, pending' \subseteq Found
       PROVE  Kinds' /\ Switched'
  <2>1. \A q \in Sources : q # s => status'[q] = status[q]
    BY <1>0, <1>11 DEF TypeOK
  <2>2. syncing # NoSource => syncing # s
    BY DEF RunInv, Kinds
  <2>3. Kinds'
    BY <1>0, <1>11, <2>1, <2>2 DEF RunInv, Kinds, TypeOK
  <2>4. Switched'
    BY <1>11, <2>1 DEF RunInv, Kinds, Switched, SwitchedOffIsNotCollected
  <2> QED
    BY <2>3, <2>4
<1>12. ASSUME UNCHANGED <<yaml, status, at, cfg, todo, syncing, seen, active, trial>>, pending' \subseteq Found
       PROVE  Kinds' /\ Switched'
  BY <1>12 DEF RunInv, Kinds, Switched, SwitchedOffIsNotCollected
<1>13. ASSUME NEW s \in Sources, Discover(s) PROVE Kinds' /\ Switched'
  <2>1. pending' \subseteq Found
    BY <1>13 DEF Discover, maintenance, RunInv, Kinds
  <2> QED
    BY <1>11, <1>13, <2>1 DEF Discover, pipeline
<1>14. CASE MaintenanceStarts \/ SelectCandidates \/ SelectTrials \/ MaintenanceEnds
  <2>1. pending' \subseteq {s \in Sources : status[s] \in {"candidate", "trial"}} \/ pending' = pending \/ pending' = {}
    BY <1>14 DEF MaintenanceStarts, SelectCandidates, SelectTrials, MaintenanceEnds, kSubset
  <2>2. pending' \subseteq Found
    BY <2>1 DEF RunInv, Kinds
  <2>3. UNCHANGED <<yaml, status, pipeline>>
    BY <1>14 DEF MaintenanceStarts, SelectCandidates, SelectTrials, MaintenanceEnds
  <2> QED
    BY <1>12, <2>2, <2>3 DEF pipeline
<1>15. ASSUME NEW s \in Sources, Promote(s) PROVE Kinds' /\ Switched'
  <2>1. s \in Found /\ pending' \subseteq Found
    BY <1>15 DEF Promote, RunInv, Kinds
  <2> QED
    BY <1>11, <1>15, <2>1 DEF Promote, ChangeStatus, pipeline
<1>16. ASSUME NEW s \in Sources, Judge(s) PROVE Kinds' /\ Switched'
  <2>1. pending' \subseteq Found
    BY <1>16 DEF Judge, RunInv, Kinds
  <2> QED
    BY <1>12, <1>16, <2>1 DEF Judge, pipeline
<1>17. CASE Decide
  <2>1. verdict.source \in Found /\ pending' \subseteq Found
    BY <1>17 DEF Decide, RunInv, Typed, Kinds
  <2> QED
    BY <1>11, <1>17, <2>1 DEF Decide, ChangeStatus, pipeline
<1>18. ASSUME NEW s \in Sources, SourceAction(s) PROVE Kinds' /\ Switched'
  <2>1. \A q \in Found : yaml'[q] = "absent"
    BY <1>0, <1>18 DEF SourceAction, RunInv, Kinds, TypeOK
  <2> QED
    BY <1>18, <2>1 DEF SourceAction, RunInv, Kinds, Switched, SwitchedOffIsNotCollected,
       pipeline, maintenance
<1>19. CASE Restart
  <2>1. \A s \in Configured : status'[s] \notin {"candidate", "trial", "rejected"}
    BY <1>19 DEF Restart, RunInv, Kinds, Synced, GOVERNED_STATUSES
  <2>2. Kinds'
    BY <1>19, <2>1 DEF Restart, RunIsOver, RunInv, Kinds
  <2>3. Switched'
    BY <1>19 DEF Restart, RunIsOver, Switched, SwitchedOffIsNotCollected
  <2> QED
    BY <2>2, <2>3
<1>20. CASE NewDay \/ UNCHANGED vars
  BY <1>12, <1>20 DEF NewDay, vars, pipeline, maintenance, RunInv, Kinds
<1> QED
  BY <1>1, <1>2, <1>3, <1>4, <1>5, <1>6, <1>7, <1>8, <1>9, <1>10, <1>13, <1>14, <1>15,
     <1>16, <1>17, <1>18, <1>19, <1>20 DEF Next, PipelineStep, MaintenanceStep
-----------------------------------------------------------------------------
LEMMA RunInvariant == Spec => []RunInv
<1>1. Init => RunInv
  BY InitRun
<1>2. RunInv /\ [Next]_vars => RunInv'
  BY NextRun
<1> QED
  BY <1>1, <1>2, PTL DEF Spec

(* Every variable keeps its type: no row is of a day to come, and no       *)
(* source is on trial in a run that does not collect it.                   *)
THEOREM TypeCorrect == Spec => []TypeOK
<1>1. RunInv => TypeOK
  BY DEF RunInv, Typed
<1> QED
  BY <1>1, RunInvariant, PTL

(* A run collects no source that the sources.yaml it has read switches off.*)
THEOREM SwitchedOffIsNotCollectedAlways == Spec => []SwitchedOffIsNotCollected
<1>1. RunInv => SwitchedOffIsNotCollected
  BY DEF RunInv, Switched
<1> QED
  BY <1>1, RunInvariant, PTL

-----------------------------------------------------------------------------
(* A member fewer leaves one fewer.                                        *)
LEMMA OneFewer ==
  ASSUME NEW S, IsFiniteSet(S), NEW x \in S
  PROVE  /\ IsFiniteSet(S \ {x})
         /\ Cardinality(S \ {x}) \in Nat
         /\ Cardinality(S) = Cardinality(S \ {x}) + 1
<1>1. IsFiniteSet(S \ {x}) /\ Cardinality(S \ {x}) = Cardinality(S) - 1
  BY FS_RemoveElement
<1>2. Cardinality(S) \in Nat /\ Cardinality(S \ {x}) \in Nat
  BY <1>1, FS_CardinalityType
<1> QED
  BY <1>1, <1>2

LEMMA OneMore ==
  ASSUME NEW S, IsFiniteSet(S), NEW n \in Nat, Cardinality(S) = n, NEW x, x \notin S,
         NEW T, T = S \union {x}
  PROVE  IsFiniteSet(T) /\ Cardinality(T) = n + 1
BY FS_AddElement

LEMMA SomeMember ==
  ASSUME NEW S, NEW n \in Nat, Cardinality(S) = n + 1
  PROVE  S # {}
<1>1. Cardinality({}) = 0
  BY FS_EmptySet
<1> QED
  BY <1>1

LEMMA ThreeAre ==
  ASSUME NEW a, NEW b, NEW c, a # b, a # c, b # c
  PROVE  /\ Cardinality({}) = 0 /\ Cardinality({a}) = 1 /\ Cardinality({a, b}) = 2
         /\ Cardinality({a, b, c}) = 3 /\ IsFiniteSet({a, b, c})
<1>1. Cardinality({a}) = 1 /\ IsFiniteSet({a})
  BY FS_Singleton
<1>2. b \notin {a} /\ c \notin {a, b}
  OBVIOUS
<1>3. {a} \union {b} = {a, b} /\ {a, b} \union {c} = {a, b, c}
  OBVIOUS
<1>4. Cardinality({a, b}) = 2 /\ IsFiniteSet({a, b})
  <2>1. Cardinality({a, b}) = 1 + 1 /\ IsFiniteSet({a, b})
    BY <1>1, <1>2, <1>3, OneMore
  <2> QED
    BY <2>1
<1>5. Cardinality({a, b, c}) = 3 /\ IsFiniteSet({a, b, c})
  <2> DEFINE AB == {a, b}
             ABC == {a, b, c}
  <2>1. IsFiniteSet(AB) /\ Cardinality(AB) = 2 /\ c \notin AB /\ ABC = AB \union {c}
    BY <1>2, <1>3, <1>4
  <2> HIDE DEF AB, ABC
  <2>2. Cardinality(ABC) = 2 + 1 /\ IsFiniteSet(ABC)
    BY <2>1, OneMore
  <2> USE DEF ABC
  <2> QED
    BY <2>2
<1> QED
  BY <1>1, <1>4, <1>5, FS_EmptySet
(* Of three days or more, the last three are three.                        *)
LEMMA LatestAreThree ==
  ASSUME NEW D, D \subseteq Days, Cardinality(D) >= 3
  PROVE  \E a, b, c \in D :
           /\ b < a /\ c < b
           /\ \A e \in D : e <= a /\ (e # a => e <= b) /\ (e # a /\ e # b => e <= c)
           /\ Latest(D) = {a, b, c}
<1> USE GovernanceAssumption
<1>1. IsFiniteSet(D) /\ D \subseteq 0..MaxDays /\ D \subseteq Nat /\ Cardinality(D) \in Nat
  <2>1. IsFiniteSet(Days)
    BY FS_Interval DEF Days
  <2>2. IsFiniteSet(D)
    BY <2>1, FS_Subset
  <2> QED
    BY <2>2, FS_CardinalityType DEF Days
<1> DEFINE n == Cardinality(D) - 3
<1>2. PICK a \in D : \A e \in D : e <= a
  <2>1. n \in Nat /\ Cardinality(D) = (n + 2) + 1
    BY <1>1
  <2>2. D # {}
    BY <2>1, SomeMember
  <2> QED
    BY <1>1, <2>2, GreatestExists
<1> DEFINE D1 == D \ {a}
<1>3. IsFiniteSet(D1) /\ Cardinality(D1) = n + 2 /\ n \in Nat
  <2>1. IsFiniteSet(D1) /\ Cardinality(D1) \in Nat /\ Cardinality(D) = Cardinality(D1) + 1
    BY <1>1, OneFewer
  <2> QED
    BY <1>1, <2>1
<1>4. PICK b \in D1 : \A e \in D1 : e <= b
  <2>1. D1 # {}
    BY <1>3, SomeMember
  <2> QED
    BY <1>1, <2>1, GreatestExists
<1> DEFINE D2 == D1 \ {b}
<1>5. IsFiniteSet(D2) /\ Cardinality(D2) = n + 1
  <2>1. IsFiniteSet(D2) /\ Cardinality(D2) \in Nat /\ Cardinality(D1) = Cardinality(D2) + 1
    BY <1>3, OneFewer
  <2> QED
    BY <1>3, <2>1
<1>6. PICK c \in D2 : \A e \in D2 : e <= c
  <2>1. D2 # {}
    BY <1>3, <1>5, SomeMember
  <2> QED
    BY <1>1, <2>1, GreatestExists
<1>7. a \in Nat /\ b \in Nat /\ c \in Nat /\ b < a /\ c < b
  BY <1>1, <1>2, <1>4, <1>6
<1>8. /\ Cardinality({}) = 0 /\ Cardinality({a}) = 1 /\ Cardinality({a, b}) = 2
      /\ Cardinality({a, b, c}) = 3 /\ IsFiniteSet({a, b, c})
  <2>1. a # b /\ a # c /\ b # c
    OBVIOUS
  <2> QED
    BY <2>1, ThreeAre
<1>9. {e \in D : e > a} = {} /\ {e \in D : e > b} = {a} /\ {e \in D : e > c} = {a, b}
  <2>1. \A e \in D : e \in Nat /\ e <= a
    BY <1>1, <1>2
  <2>2. \A e \in D : (e # a => e <= b) /\ (e # a /\ e # b => e <= c)
    BY <1>4, <1>6
  <2>3. \A e \in D : ~ (e > a) /\ (e > b <=> e = a) /\ (e > c <=> e = a \/ e = b)
    BY <2>1, <2>2, <1>7
  <2> QED
    BY <2>3
<1>10. ASSUME NEW d \in D, d \notin {a, b, c} PROVE Cardinality({e \in D : e > d}) >= 3
  <2>1. {a, b, c} \subseteq {e \in D : e > d}
    BY <1>1, <1>6, <1>7, <1>10
  <2>2. IsFiniteSet({e \in D : e > d})
    BY <1>1, FS_Subset
  <2>3. Cardinality({a, b, c}) <= Cardinality({e \in D : e > d})
    BY <2>1, <2>2, FS_Subset
  <2>4. Cardinality({e \in D : e > d}) \in Nat
    BY <2>2, FS_CardinalityType
  <2> QED
    BY <2>3, <2>4, <1>8
<1>11. \A d \in D : Cardinality({e \in D : e > d}) < 3 <=> d \in {a, b, c}
  <2>1. \A d \in D : Cardinality({e \in D : e > d}) \in Nat
    <3>1. \A d \in D : IsFiniteSet({e \in D : e > d})
      BY <1>1, FS_Subset
    <3> QED
      BY <3>1, FS_CardinalityType
  <2>2. ASSUME NEW d \in D, Cardinality({e \in D : e > d}) < 3 PROVE d \in {a, b, c}
    BY <2>1, <2>2, <1>10
  <2>3. ASSUME NEW d \in {a, b, c} PROVE Cardinality({e \in D : e > d}) < 3
    <3> DEFINE later == {e \in D : e > d}
    <3>1. later = {} \/ later = {a} \/ later = {a, b}
      BY <2>3, <1>9
    <3>2. Cardinality(later) < 3
      <4>1. Cardinality({}) < 3 /\ Cardinality({a}) < 3 /\ Cardinality({a, b}) < 3
        BY <1>8
      <4> HIDE DEF later
      <4> QED
        BY <3>1, <4>1, Zenon
    <3> QED
      BY <3>2
  <2> QED
    BY <2>2, <2>3
<1>12. Latest(D) = {a, b, c}
  BY <1>6, <1>11 DEF Latest
<1> QED
  BY <1>2, <1>4, <1>6, <1>7, <1>12

-----------------------------------------------------------------------------
(* The rows of health of one source.                                       *)
Sound(rows) ==
  /\ DOMAIN rows \subseteq Days
  /\ \A d \in DOMAIN rows : rows[d] \in Row /\ rows[d].new <= rows[d].collected

Often(rows) == Cardinality(DOMAIN rows) >= 3
Rich(rows) == Cardinality({d \in DOMAIN rows : rows[d].new > 0}) >= 3

Scored(rows) == {d \in DOMAIN rows : Score(rows[d]) # NoScore}
Low(rows) == \A d \in Latest(Scored(rows)) : Score(rows[d]) < 300

\* A good day that a run of today cannot push out of the last three.
Vouches(rows, d, today) ==
  /\ d # today /\ Score(rows[d]) # NoScore /\ Score(rows[d]) >= 500
  /\ \A e \in DOMAIN rows : e > d => e = today
Vouched(rows, today) == \E d \in DOMAIN rows : Vouches(rows, d, today)

LEMMA DaysAreFinite ==
  /\ IsFiniteSet(Days) /\ Days \subseteq Nat
  /\ \A D : D \subseteq Days => IsFiniteSet(D) /\ Cardinality(D) \in Nat
  /\ \A D, E : D \subseteq Days /\ E \subseteq D => Cardinality(E) <= Cardinality(D)
<1>1. IsFiniteSet(Days) /\ Days \subseteq Nat
  <2>1. MaxDays \in Nat
    BY GovernanceAssumption
  <2>2. IsFiniteSet(1..MaxDays) /\ 1..MaxDays \subseteq Nat
    BY <2>1, FS_Interval
  <2> QED
    BY <2>2 DEF Days
<1>2. ASSUME NEW D, D \subseteq Days PROVE IsFiniteSet(D) /\ Cardinality(D) \in Nat
  <2>1. IsFiniteSet(D)
    BY <1>1, <1>2, FS_Subset
  <2> QED
    BY <2>1, FS_CardinalityType
<1>3. ASSUME NEW D, NEW E, D \subseteq Days, E \subseteq D PROVE Cardinality(E) <= Cardinality(D)
  <2>1. IsFiniteSet(D)
    BY <1>2, <1>3
  <2> QED
    BY <1>3, <2>1, FS_Subset
<1> QED
  BY <1>1, <1>2, <1>3

(* A score is a number when no more is new than was collected.             *)
LEMMA ScoreType ==
  ASSUME NEW row \in Row, row.new <= row.collected
  PROVE  Score(row) \in Nat \union {NoScore}
<1>1. /\ row.collected \in Nat /\ row.new \in Nat /\ row.approved \in Nat /\ row.failed \in Nat
      /\ row.cost \in Nat
  BY DEF Row
<1>2. \A x, y \in Nat : y > 0 => x \div y \in Nat
  OBVIOUS
<1> DEFINE none == row.blocked \/ (row.new = 0 /\ ~ (row.failed > 0 /\ row.collected = 0))
           ok == (250 * row.collected) \div (row.collected + row.failed)
           new == IF row.collected = 0 THEN 0 ELSE (200 * row.new) \div row.collected
           approved == IF row.new = 0 THEN 0 ELSE (450 * row.approved) \div row.new
           value == (500 * row.approved) \div row.cost
           cheap == IF row.cost = 0 THEN 0 ELSE Min({value, 100})
<1>3. ~ none => row.collected + row.failed > 0
  BY <1>1
<1>4. ~ none => ok \in Nat
  <2>1. 250 * row.collected \in Nat /\ row.collected + row.failed \in Nat
    BY <1>1
  <2> QED
    BY <1>2, <1>3, <2>1
<1>5. new \in Nat
  <2>1. 200 * row.new \in Nat /\ (row.collected # 0 => row.collected > 0)
    BY <1>1
  <2> QED
    BY <1>1, <1>2, <2>1
<1>6. approved \in Nat
  <2>1. 450 * row.approved \in Nat /\ (row.new # 0 => row.new > 0)
    BY <1>1
  <2> QED
    BY <1>1, <1>2, <2>1
<1>7. cheap \in Nat
  <2>1. 500 * row.approved \in Nat /\ (row.cost # 0 => row.cost > 0)
    BY <1>1
  <2>2. row.cost # 0 => value \in Nat
    BY <1>1, <1>2, <2>1
  <2>3. row.cost # 0 => Min({value, 100}) \in {value, 100}
    <3> HIDE DEF value
    <3>1. row.cost # 0 => {value, 100} \subseteq Nat /\ {value, 100} # {}
      BY <2>2
    <3> QED
      BY <3>1, MinIsLeast
  <2> QED
    BY <2>2, <2>3
<1>8. Score(row) = IF none THEN NoScore ELSE ok + new + approved + cheap
  BY DEF Score
<1> HIDE DEF none, ok, new, approved, cheap
<1> QED
  BY <1>4, <1>5, <1>6, <1>7, <1>8

(* apply_governance moves a source only after three days, and never back   *)
(* into service from quarantine or rejection.                              *)
LEMMA GovernedStops ==
  ASSUME NEW current, NEW rows, Sound(rows)
  PROVE  /\ Governed(current, rows) # current => Often(rows)
         /\ Governed(current, rows) \in {"active", "degraded"} => current \in {"active", "degraded"}
         /\ Governed(current, rows) = "quarantined" => current = "quarantined" \/ Low(rows)
         /\ current \in {"quarantined", "rejected"} =>
              Governed(current, rows) \notin {"active", "degraded", "trial", "candidate"}
         /\ Governed(current, rows) \in {"none", "candidate", "rejected", "trial"} =>
              Governed(current, rows) = current
<1> DEFINE days == Latest({d \in DOMAIN rows : Score(rows[d]) # NoScore})
           low == \A d \in days : Score(rows[d]) < 300
           total == MapThenSumSet(LAMBDA d : Score(rows[d]), days)
<1>1. days \subseteq DOMAIN rows /\ DOMAIN rows \subseteq Days
  BY DEF Latest, Sound
<1>2. Cardinality(days) <= Cardinality(DOMAIN rows) /\ Cardinality(days) \in Nat
      /\ Cardinality(DOMAIN rows) \in Nat
  <2>1. days \subseteq Days
    BY <1>1
  <2> HIDE DEF days
  <2> QED
    BY <1>1, <2>1, DaysAreFinite
<1>3. Governed(current, rows) =
        IF Cardinality(days) < 3 \/ current = "none" THEN current
        ELSE IF low THEN IF current = "quarantined" THEN "disabled" ELSE "quarantined"
        ELSE IF total < 3 * 500 /\ current = "active" THEN "degraded"
        ELSE IF total >= 3 * 600 /\ current = "degraded" THEN "active"
        ELSE current
  BY DEF Governed
<1>4. low = Low(rows)
  BY DEF Low, Scored
<1> DEFINE poor == total < 3 * 500
           good == total >= 3 * 600
           few == Cardinality(days) < 3
<1>5. few \/ Often(rows)
  <2> HIDE DEF days
  <2> QED
    BY <1>2 DEF Often
<1>6. Governed(current, rows) =
        IF few \/ current = "none" THEN current
        ELSE IF Low(rows) THEN IF current = "quarantined" THEN "disabled" ELSE "quarantined"
        ELSE IF poor /\ current = "active" THEN "degraded"
        ELSE IF good /\ current = "degraded" THEN "active"
        ELSE current
  BY <1>3, <1>4
<1> HIDE DEF few, poor, good
<1> QED
  BY <1>5, <1>6

(* Three low days cannot follow a day that vouches.                        *)
LEMMA VouchedIsNotLow ==
  ASSUME NEW rows, Sound(rows), NEW today, Vouched(rows, today)
  PROVE  ~ Low(rows)
<1>1. PICK d \in DOMAIN rows : Vouches(rows, d, today)
  BY DEF Vouched
<1>2. d \in Scored(rows) /\ Scored(rows) \subseteq Days
  BY <1>1 DEF Vouches, Scored, Sound
<1> DEFINE later == {e \in Scored(rows) : e > d}
<1>3. later \subseteq {today} /\ later \subseteq Days
  BY <1>1, <1>2 DEF Vouches, Scored
<1>4. Cardinality(later) < 3
  <2> HIDE DEF later
  <2>1. Cardinality({today}) = 1 /\ IsFiniteSet({today})
    BY FS_Singleton
  <2>2. Cardinality(later) <= 1 /\ Cardinality(later) \in Nat
    BY <2>1, <1>3, FS_Subset, DaysAreFinite
  <2> QED
    BY <2>2
<1>5. d \in Latest(Scored(rows))
  BY <1>2, <1>4 DEF Latest
<1>6. Score(rows[d]) \in Int /\ Score(rows[d]) >= 500
  BY <1>1, ScoreType DEF Vouches, Sound, NoScore
<1> QED
  BY <1>5, <1>6 DEF Low

(* What passes a trial vouches for itself.                                 *)
LEMMA PassedTrial ==
  ASSUME NEW rows, Sound(rows), Often(rows), NEW today,
         \A d \in Latest(DOMAIN rows) : TrialPasses(rows[d])
  PROVE  Rich(rows) /\ Vouched(rows, today)
<1>1. PICK a, b, c \in DOMAIN rows :
        /\ b < a /\ c < b
        /\ \A e \in DOMAIN rows : e <= a /\ (e # a => e <= b)
        /\ Latest(DOMAIN rows) = {a, b, c}
  BY LatestAreThree DEF Sound, Often
<1>2. TrialPasses(rows[a]) /\ TrialPasses(rows[b]) /\ TrialPasses(rows[c])
  BY <1>1
<1>3. a \in Nat /\ b \in Nat /\ \A e \in DOMAIN rows : e \in Nat
  BY DaysAreFinite DEF Sound
<1>4. Vouches(rows, a, today) \/ (a = today /\ Vouches(rows, b, today))
  BY <1>1, <1>2, <1>3 DEF TrialPasses, Vouches
<1>5. Rich(rows)
  <2> DEFINE fruitful == {d \in DOMAIN rows : rows[d].new > 0}
  <2>1. {a, b, c} \subseteq fruitful /\ fruitful \subseteq Days
    BY <1>2 DEF TrialPasses, Sound
  <2>2. Cardinality({a, b, c}) = 3
    <3>1. {a, b, c} = Latest(DOMAIN rows)
      BY <1>1
    <3>2. a # b /\ a # c /\ b # c
      BY <1>1, DaysAreFinite DEF Sound
    <3> QED
      BY <3>2, ThreeAre
  <2>3. Cardinality({a, b, c}) <= Cardinality(fruitful) /\ Cardinality(fruitful) \in Nat
    <3> HIDE DEF fruitful
    <3> QED
      BY <2>1, DaysAreFinite
  <2> QED
    BY <2>2, <2>3 DEF Rich
<1> QED
  BY <1>4, <1>5 DEF Vouched

(* What a run adds to the rows of a source takes nothing from them.        *)
LEMMA RolledUpKeeps ==
  ASSUME NEW rows, Sound(rows), DOMAIN rows \subseteq 1..day, day \in Days,
         NEW o \in Outcomes \union {Nothing}
  PROVE  /\ Sound(RolledUp(rows, o))
         /\ Often(rows) => Often(RolledUp(rows, o))
         /\ Rich(rows) => Rich(RolledUp(rows, o))
         /\ Vouched(rows, day) => Vouched(RolledUp(rows, o), day)
<1> DEFINE new == RolledUp(rows, o)
           old == IF day \in DOMAIN rows THEN rows[day] ELSE Empty
<1>1. Range(rows) \subseteq Row /\ \A d \in DOMAIN rows : rows[d] \in Row
  BY DEF Sound, Range
<1>2. /\ DOMAIN new = DOMAIN rows \union {day}
      /\ Range(new) \subseteq Row
      /\ \A d \in DOMAIN rows : new[d].new >= rows[d].new
      /\ \A d \in DOMAIN rows : d # day => new[d] = rows[d]
  BY <1>1, RolledUpType
<1>3. new[day].new = old.new + o.new /\ new[day].collected = old.collected + o.collected
  BY DEF RolledUp
<1>4. old \in Row /\ old.new <= old.collected
  BY <1>1 DEF Sound, Row, Empty
<1>5. o.new \in Nat /\ o.collected \in Nat /\ o.new <= o.collected
  BY GovernanceAssumption DEF Nothing
<1>6. new[day].new <= new[day].collected
  <2>1. \A p, q, r, t \in Nat : p <= q /\ r <= t => p + r <= q + t
    OBVIOUS
  <2>2. old.new \in Nat /\ old.collected \in Nat
    BY <1>4 DEF Row
  <2> HIDE DEF new, old
  <2> QED
    BY <1>3, <1>4, <1>5, <2>1, <2>2
<1>7. \A d \in DOMAIN new : new[d] \in Row /\ (d # day => new[d] = rows[d] /\ d \in DOMAIN rows)
  <2> HIDE DEF new
  <2> QED
    BY <1>2 DEF Range
<1> HIDE DEF new, old
<1>8. Sound(new)
  BY <1>2, <1>6, <1>7 DEF Sound
<1>9. Often(rows) => Often(new)
  <2>1. Cardinality(DOMAIN rows) <= Cardinality(DOMAIN new)
        /\ Cardinality(DOMAIN rows) \in Nat /\ Cardinality(DOMAIN new) \in Nat
    BY <1>2, <1>8, DaysAreFinite DEF Sound
  <2> QED
    BY <2>1 DEF Often
<1>10. Rich(rows) => Rich(new)
  <2> DEFINE before == {d \in DOMAIN rows : rows[d].new > 0}
             after == {d \in DOMAIN new : new[d].new > 0}
  <2>1. before \subseteq after /\ after \subseteq Days /\ before \subseteq Days
    BY <1>1, <1>2, <1>7, <1>8 DEF Sound, Row
  <2>2. Cardinality(before) <= Cardinality(after)
        /\ Cardinality(before) \in Nat /\ Cardinality(after) \in Nat
    <3> HIDE DEF before, after
    <3> QED
      BY <2>1, DaysAreFinite
  <2> QED
    BY <2>2 DEF Rich
<1>11. Vouched(rows, day) => Vouched(new, day)
  <2>1. ASSUME NEW d \in DOMAIN rows, Vouches(rows, d, day) PROVE Vouches(new, d, day)
    BY <1>2, <2>1 DEF Vouches
  <2> QED
    BY <1>2, <2>1 DEF Vouched
<1> QED
  BY <1>8, <1>9, <1>10, <1>11 DEF new

-----------------------------------------------------------------------------
(* What a found source has shown, by what is made of it: no run has it     *)
(* before it is on trial, or makes articles of it before it has served.    *)
Serving(s) ==
  /\ status[s] \in {"none", "candidate"} => s \notin active
  /\ status[s] \notin {"none", "candidate", "trial"} => Often(daily[s])
  /\ status[s] \in {"active", "degraded"} => Rich(daily[s])
  /\ s \in published => Often(daily[s])
  /\ at \in {"collect", "persist"} /\ s \in active \ trial => Often(daily[s])

(* A quarantined one has three low days, and no run adds another.          *)
Resting(s) ==
  status[s] = "quarantined" =>
    /\ Low(daily[s])
    /\ at \in {"status", "collect", "persist"} => s \notin active
    /\ at = "rollup" => s \notin todo

(* The job's selections and its open verdict stand up to what a run does.  *)
Selections ==
  /\ maint = "promote" => \A s \in pending : status[s] = "candidate"
  /\ maint = "evaluate" => \A s \in pending : status[s] \notin {"none", "candidate", "rejected"}

Verdict ==
  /\ verdict # NoVerdict => Often(daily[verdict.source])
  /\ verdict.status = "active" =>
       /\ Rich(daily[verdict.source]) /\ Vouched(daily[verdict.source], day)
       /\ status[verdict.source] # "quarantined"

Governance ==
  /\ \A s \in Sources : Sound(daily[s])
  /\ \A s \in Found : Serving(s) /\ Resting(s)
  /\ Selections /\ Verdict

TrialInv == RunInv /\ Governance

LEMMA InitTrial == Init => TrialInv
<1> SUFFICES ASSUME Init PROVE Governance
  BY InitRun DEF TrialInv
<1>1. \A s \in Sources : DOMAIN daily[s] = {}
  BY DEF Init
<1>2. \A s \in Sources : Sound(daily[s])
  BY <1>1 DEF Sound
<1>3. \A s \in Found : status[s] = "none"
  BY GovernanceAssumption DEF Init, Sources
<1>4. \A s \in Found : Serving(s) /\ Resting(s)
  BY <1>3 DEF Init, Serving, Resting
<1>5. Selections /\ Verdict
  BY DEF Init, Selections, Verdict, NoVerdict
<1> QED
  BY <1>2, <1>4, <1>5 DEF Governance

(* A run's steps that change no status and no health of a source.          *)
LEMMA RunGoesOn ==
  ASSUME TrialInv, UNCHANGED <<status, daily, day, maintenance>>,
         \A s \in Found : Serving(s)' /\ Resting(s)'
  PROVE  Governance'
<1>1. \A s \in Sources : Sound(daily[s])'
  BY DEF TrialInv, Governance
<1>2. Selections' /\ Verdict'
  BY DEF TrialInv, Governance, Selections, Verdict, maintenance
<1> QED
  BY <1>1, <1>2 DEF Governance

LEMMA PipelineTried == TrialInv /\ PipelineStep => Governance'
<1> SUFFICES ASSUME TrialInv, PipelineStep PROVE Governance'
  OBVIOUS
<1> USE GovernanceAssumption
<1>0. /\ TypeOK /\ Typed /\ Kinds /\ Found \subseteq Sources
      /\ \A s \in Found : Serving(s) /\ Resting(s)
  BY DEF TrialInv, RunInv, Typed, Governance, Sources
<1>1. CASE RunStarts \/ SyncDone \/ RunEnds \/ RunFails
  <2>1. UNCHANGED <<status, daily, day, published, maintenance>>
        /\ at' \in {"idle", "sync", "list"} /\ (active' = {} \/ UNCHANGED active)
    BY <1>1 DEF RunStarts, SyncDone, RunEnds, RunFails, RunIsOver
  <2>2. \A s \in Found : Serving(s)' /\ Resting(s)'
    BY <1>0, <2>1 DEF Serving, Resting
  <2> QED
    BY <2>1, <2>2, RunGoesOn
<1>2. ASSUME NEW s \in Sources, SyncRead(s) PROVE Governance'
  <2>1. UNCHANGED <<status, daily, day, published, active, trial, at, todo, maintenance>>
    BY <1>2 DEF SyncRead
  <2>2. \A q \in Found : Serving(q)' /\ Resting(q)'
    BY <1>0, <2>1 DEF Serving, Resting
  <2> QED
    BY <2>1, <2>2, RunGoesOn
<1>3. CASE SyncWrite
  <2>1. at = "sync" /\ syncing \in Configured
    BY <1>0, <1>3 DEF SyncWrite, Kinds, TypeOK, Sources
  <2>2. \A s \in Found : status'[s] = status[s]
    BY <1>0, <1>3, <2>1 DEF SyncWrite, TypeOK, Sources
  <2>3. UNCHANGED <<daily, day, published, active, trial, at, maintenance>> /\ todo' \subseteq todo
    BY <1>3 DEF SyncWrite
  <2>4. \A s \in Found : Serving(s)' /\ Resting(s)'
    BY <1>0, <2>2, <2>3 DEF Serving, Resting
  <2>5. \A s \in Sources : Sound(daily[s])'
    BY <2>3 DEF TrialInv, Governance
  <2>6. pending \subseteq Found /\ (verdict # NoVerdict => verdict.source \in Found)
    BY <1>0 DEF Kinds, Typed
  <2>7. Selections' /\ Verdict'
    BY <2>2, <2>3, <2>6 DEF TrialInv, Governance, Selections, Verdict, maintenance, NoVerdict
  <2> QED
    BY <2>4, <2>5, <2>7 DEF Governance
<1>4. CASE ListPipelineSources
  <2>1. UNCHANGED <<status, daily, day, published, trial, maintenance>> /\ at' = "status"
        /\ \A s \in active' : status[s] \in {"active", "degraded", "trial"}
    BY <1>4 DEF ListPipelineSources, Schedulable, SCHEDULABLE_STATUSES
  <2>2. \A s \in Found : Serving(s)' /\ Resting(s)'
    BY <1>0, <2>1 DEF Serving, Resting
  <2> QED
    BY <2>1, <2>2, RunGoesOn
<1>5. CASE GetSourceStatuses
  <2>1. UNCHANGED <<status, daily, day, published, active, maintenance>> /\ at = "status"
        /\ at' = "collect" /\ \A s \in active \ trial' : status[s] # "trial"
    BY <1>5 DEF GetSourceStatuses
  <2>2. \A s \in Found : Serving(s)' /\ Resting(s)'
    BY <1>0, <2>1 DEF Serving, Resting
  <2> QED
    BY <2>1, <2>2, RunGoesOn
<1>6. CASE Collect
  <2>1. UNCHANGED <<status, daily, day, published, maintenance>> /\ at = "collect"
        /\ ((at' = "persist" /\ UNCHANGED <<active, trial>>) \/ (at' = "idle" /\ active' = {}))
    BY <1>6 DEF Collect
  <2>2. \A s \in Found : Serving(s)' /\ Resting(s)'
    BY <1>0, <2>1 DEF Serving, Resting
  <2> QED
    BY <2>1, <2>2, RunGoesOn
<1>7. CASE Persist
  <2>1. UNCHANGED <<status, daily, day, active, trial, maintenance>> /\ at = "persist"
        /\ at' = "rollup" /\ todo' = active
        /\ \A s \in published' : s \in published \/ s \in active \ trial
    BY <1>7 DEF Persist
  <2>2. \A s \in Found : Serving(s)' /\ Resting(s)'
    BY <1>0, <2>1 DEF Serving, Resting
  <2> QED
    BY <2>1, <2>2, RunGoesOn
<1>8. ASSUME NEW s \in Sources, RollUp(s) PROVE Governance'
  <2> DEFINE rows == daily[s]
             new == RolledUp(rows, got[s])
             governed == Governed(status[s], new)
  <2>1. /\ Sound(rows) /\ DOMAIN rows \subseteq 1..day /\ day \in Days
        /\ got[s] \in Outcomes \union {Nothing}
    BY <1>0 DEF TrialInv, Governance, Typed, TypeOK, Days
  <2>2. /\ Sound(new) /\ (Often(rows) => Often(new)) /\ (Rich(rows) => Rich(new))
        /\ (Vouched(rows, day) => Vouched(new, day))
    BY <2>1, RolledUpKeeps
  <2>3. /\ daily'[s] = new /\ \A q \in Sources : q # s => daily'[q] = daily[q]
        /\ status'[s] = governed /\ \A q \in Sources : q # s => status'[q] = status[q]
        /\ UNCHANGED <<day, published, active, trial, at, maintenance>>
        /\ at = "rollup" /\ s \in todo /\ todo' = todo \ {s}
    BY <1>0, <1>8 DEF RollUp, ChangeStatus, TypeOK, Typed
  <2>4. /\ governed # status[s] => Often(new)
        /\ governed \in {"active", "degraded"} => status[s] \in {"active", "degraded"}
        /\ governed = "quarantined" => status[s] = "quarantined" \/ Low(new)
        /\ governed \in {"none", "candidate", "rejected", "trial"} => governed = status[s]
    BY <2>2, GovernedStops
  <2> HIDE DEF rows, new, governed
  <2>5. s \in active
    BY <1>0, <2>3 DEF Kinds
  <2>6. \A q \in Sources : Sound(daily[q])'
    BY <2>2, <2>3 DEF TrialInv, Governance
  <2>7. \A q \in Found : q # s => Serving(q)' /\ Resting(q)'
    BY <1>0, <2>3 DEF Serving, Resting
  <2>8. s \in Found => Serving(s)' /\ Resting(s)'
    BY <1>0, <2>2, <2>3, <2>4, <2>5 DEF Serving, Resting, rows
  <2>9. Selections'
    BY <1>0, <2>3, <2>4, <2>5 DEF TrialInv, Governance, Selections, Kinds, Serving, maintenance
  <2>10. Verdict'
    <3>1. CASE verdict.source # s
      BY <1>0, <2>3, <3>1 DEF TrialInv, Governance, Verdict, maintenance, Typed, TypeOK, NoVerdict
    <3>2. CASE verdict.source = s
      <4>1. verdict # NoVerdict => Often(rows)
        BY <3>2 DEF TrialInv, Governance, Verdict, rows
      <4>2. verdict.status = "active" =>
              Rich(rows) /\ Vouched(rows, day) /\ status[s] # "quarantined"
        BY <3>2 DEF TrialInv, Governance, Verdict, rows
      <4>3. verdict.status = "active" => ~ Low(new)
        BY <2>2, <4>2, VouchedIsNotLow
      <4> QED
        BY <2>2, <2>3, <2>4, <3>2, <4>1, <4>2, <4>3 DEF Verdict, maintenance
    <3> QED
      BY <3>1, <3>2
  <2> QED
    BY <2>6, <2>7, <2>8, <2>9, <2>10 DEF Governance
<1> QED
  BY <1>1, <1>2, <1>3, <1>4, <1>5, <1>6, <1>7, <1>8 DEF PipelineStep

LEMMA MaintenanceTried == TrialInv /\ MaintenanceStep => Governance'
<1> SUFFICES ASSUME TrialInv, MaintenanceStep PROVE Governance'
  OBVIOUS
<1> USE GovernanceAssumption
<1>0. /\ TypeOK /\ Typed /\ Kinds /\ Found \subseteq Sources
      /\ \A s \in Found : Serving(s) /\ Resting(s)
      /\ Selections /\ Verdict
  BY DEF TrialInv, RunInv, Typed, Governance, Sources
<1>1. UNCHANGED <<pipeline, daily, day, published>>
  BY DEF MaintenanceStep, MaintenanceStarts, Discover, Promote, Judge, SelectCandidates,
     SelectTrials, Decide, MaintenanceEnds
<1>2. \A s \in Sources : Sound(daily[s])'
  BY <1>1 DEF TrialInv, Governance
<1>3. ASSUME UNCHANGED status PROVE \A s \in Found : Serving(s)' /\ Resting(s)'
  BY <1>0, <1>1, <1>3 DEF Serving, Resting, pipeline
<1>4. CASE MaintenanceStarts \/ MaintenanceEnds
  <2>1. Selections' /\ Verdict' /\ UNCHANGED status
    BY <1>0, <1>1, <1>4 DEF MaintenanceStarts, MaintenanceEnds, Selections, Verdict, NoVerdict
  <2> QED
    BY <1>2, <1>3, <2>1 DEF Governance
<1>5. CASE SelectCandidates
  <2>1. \A s \in pending' : status[s] = "candidate"
    BY <1>5 DEF SelectCandidates, kSubset
  <2>2. Selections' /\ Verdict' /\ UNCHANGED status
    BY <1>0, <1>1, <1>5, <2>1 DEF SelectCandidates, Selections, Verdict
  <2> QED
    BY <1>2, <1>3, <2>2 DEF Governance
<1>6. CASE SelectTrials
  <2>1. Selections' /\ Verdict' /\ UNCHANGED status
    BY <1>0, <1>1, <1>6 DEF SelectTrials, Selections, Verdict
  <2> QED
    BY <1>2, <1>3, <2>1 DEF Governance
<1>7. ASSUME NEW s \in Sources, Discover(s) PROVE Governance'
  <2>1. /\ status[s] = "none" /\ status'[s] = "candidate" /\ maint = "discover" /\ s \in Found
        /\ UNCHANGED maintenance
        /\ \A q \in Sources : q # s => status'[q] = status[q]
    BY <1>0, <1>7 DEF Discover, TypeOK
  <2>2. \A q \in Found : Serving(q)' /\ Resting(q)'
    BY <1>0, <1>1, <2>1 DEF Serving, Resting, pipeline
  <2>3. verdict = NoVerdict
    BY <1>0, <2>1 DEF Typed
  <2>4. Selections' /\ Verdict'
    BY <1>0, <1>1, <2>1, <2>3 DEF Selections, Verdict, NoVerdict, maintenance
  <2> QED
    BY <1>2, <2>2, <2>4 DEF Governance
<1>8. ASSUME NEW s \in Sources, Promote(s) PROVE Governance'
  <2>1. /\ status[s] = "candidate" /\ status'[s] = "trial" /\ maint = "promote" /\ maint' = maint
        /\ s \in Found /\ verdict' = verdict /\ pending' = pending \ {s} /\ pending \subseteq Sources
        /\ \A q \in Sources : q # s => status'[q] = status[q]
    BY <1>0, <1>8 DEF Promote, ChangeStatus, TypeOK, Selections, Kinds
  <2>2. \A q \in Found : Serving(q)' /\ Resting(q)'
    BY <1>0, <1>1, <2>1 DEF Serving, Resting, pipeline
  <2>3. verdict = NoVerdict
    BY <1>0, <2>1 DEF Typed
  <2>4. Selections' /\ Verdict'
    BY <1>0, <1>1, <2>1, <2>3 DEF Selections, Verdict, NoVerdict
  <2> QED
    BY <1>2, <2>2, <2>4 DEF Governance
<1>9. ASSUME NEW s \in Sources, Judge(s) PROVE Governance'
  <2> DEFINE passes == \A d \in Latest(DOMAIN daily[s]) : TrialPasses(daily[s][d])
  <2>1. /\ UNCHANGED <<status, maint>> /\ pending' \subseteq pending
        /\ s \in pending /\ s \in Found
    BY <1>0, <1>9 DEF Judge, Kinds
  <2>2. Selections'
    BY <1>0, <2>1 DEF Selections
  <2>3. Verdict'
    <3>1. CASE verdict' = verdict
      BY <1>0, <1>1, <2>1, <3>1 DEF Verdict
    <3>2. CASE verdict' # verdict
      <4>1. Often(daily[s]) /\ verdict'.source = s /\ (verdict'.status = "active" => passes)
        BY <1>9, <3>2 DEF Judge, Often
      <4>2. Sound(daily[s])
        BY DEF TrialInv, Governance
      <4>3. passes => Rich(daily[s]) /\ Vouched(daily[s], day) /\ ~ Low(daily[s])
        BY <4>1, <4>2, PassedTrial, VouchedIsNotLow
      <4>4. status[s] = "quarantined" => Low(daily[s])
        BY <1>0, <2>1 DEF Resting
      <4> HIDE DEF passes
      <4> QED
        BY <1>1, <2>1, <4>1, <4>3, <4>4 DEF Verdict
    <3> QED
      BY <3>1, <3>2
  <2> QED
    BY <1>2, <1>3, <2>1, <2>2, <2>3 DEF Governance
<1>10. CASE Decide
  <2> DEFINE s == verdict.source
  <2>1. /\ s \in pending /\ s \in Found /\ verdict # NoVerdict
        /\ verdict.status \in {"active", "rejected"} /\ maint = "evaluate" /\ maint' = maint
        /\ status'[s] = verdict.status /\ pending' = pending \ {s} /\ verdict' = NoVerdict
        /\ \A q \in Sources : q # s => status'[q] = status[q]
    BY <1>0, <1>10 DEF Decide, ChangeStatus, Typed, TypeOK, Kinds
  <2>2. Often(daily[s]) /\ (verdict.status = "active" => Rich(daily[s]))
    BY <1>0, <2>1 DEF Verdict
  <2> HIDE DEF s
  <2>3. \A q \in Found : Serving(q)' /\ Resting(q)'
    BY <1>0, <1>1, <2>1, <2>2 DEF Serving, Resting, pipeline
  <2>4. pending \subseteq Sources
    BY <1>0 DEF TypeOK
  <2>5. Selections' /\ Verdict'
    BY <1>0, <2>1, <2>4 DEF Selections, Verdict, NoVerdict
  <2> QED
    BY <1>2, <2>3, <2>5 DEF Governance
<1> QED
  BY <1>4, <1>5, <1>6, <1>7, <1>8, <1>9, <1>10 DEF MaintenanceStep

LEMMA NextTrial == TrialInv /\ [Next]_vars => TrialInv'
<1> SUFFICES ASSUME TrialInv, [Next]_vars PROVE Governance'
  BY NextRun DEF TrialInv
<1>0. /\ TypeOK /\ Typed /\ Kinds /\ Found \subseteq Sources
      /\ \A s \in Found : Serving(s) /\ Resting(s)
      /\ Selections /\ Verdict /\ \A s \in Sources : Sound(daily[s])
  BY DEF TrialInv, RunInv, Typed, Governance, Sources
<1>1. ASSUME UNCHANGED <<status, daily, published, pipeline, maintenance>>,
             day' = day \/ verdict = NoVerdict
      PROVE  Governance'
  <2>1. \A s \in Found : Serving(s)' /\ Resting(s)'
    BY <1>0, <1>1 DEF Serving, Resting, pipeline
  <2>2. Selections' /\ Verdict'
    BY <1>0, <1>1 DEF Selections, Verdict, NoVerdict, maintenance
  <2>3. \A s \in Sources : Sound(daily[s])'
    BY <1>0, <1>1
  <2> QED
    BY <2>1, <2>2, <2>3 DEF Governance
<1>2. CASE (\E s \in Sources : SourceAction(s)) \/ NewDay \/ UNCHANGED vars
  <2>1. UNCHANGED <<status, daily, published, pipeline, maintenance>>
        /\ (day' = day \/ verdict = NoVerdict)
    BY <1>2 DEF SourceAction, NewDay, vars
  <2> QED
    BY <1>1, <2>1
<1>3. CASE Restart
  <2>1. /\ UNCHANGED <<daily, published>> /\ at' = "idle" /\ active' = {}
        /\ maint' = "idle" /\ pending' = {} /\ verdict' = NoVerdict
        /\ \A s \in Sources : yaml[s] = "absent" => status'[s] = status[s]
    BY <1>3 DEF Restart, RunIsOver
  <2>2. \A s \in Found : status'[s] = status[s]
    BY <1>0, <2>1 DEF Kinds
  <2>3. \A s \in Found : Serving(s)' /\ Resting(s)'
    BY <1>0, <2>1, <2>2 DEF Serving, Resting
  <2>4. Selections' /\ Verdict'
    BY <2>1 DEF Selections, Verdict, NoVerdict
  <2>5. \A s \in Sources : Sound(daily[s])'
    BY <1>0, <2>1
  <2> QED
    BY <2>3, <2>4, <2>5 DEF Governance
<1> QED
  BY <1>2, <1>3, PipelineTried, MaintenanceTried DEF Next

LEMMA TrialInvariance == Spec => []TrialInv
<1> QED
  BY InitTrial, NextTrial, PTL DEF Spec

(* A found source serves three days before it is in service or has         *)
(* anything published, whatever its runs and the maintenance job interleave.*)
THEOREM TrialIsServedAlways == Spec => []TrialIsServed
<1>1. TrialInv => TrialIsServed
  <2> SUFFICES ASSUME TrialInv PROVE TrialIsServed
    OBVIOUS
  <2>1. \A s \in Found : Serving(s)
    BY DEF TrialInv, Governance
  <2> QED
    BY <2>1 DEF TrialIsServed, Serving, Rich, Often, Fruitful
<1> QED
  BY <1>1, TrialInvariance, PTL

(* Neither a synchronisation, a restart, a verdict nor discovery takes up  *)
(* what was quarantined or rejected.                                       *)
THEOREM StoppedStaysStoppedAlways == Spec => StoppedStaysStopped
<1> DEFINE Stops(s) == status[s] \in {"quarantined", "rejected"} =>
                         status'[s] \notin SCHEDULABLE_STATUSES \union {"candidate"}
<1>1. TrialInv /\ [Next]_vars => [\A s \in Sources : Stops(s)]_vars
  <2> SUFFICES ASSUME TrialInv, Next, NEW s \in Sources,
                      status[s] \in {"quarantined", "rejected"},
                      status'[s] # status[s]
               PROVE  status'[s] \notin SCHEDULABLE_STATUSES \union {"candidate"}
    BY DEF SCHEDULABLE_STATUSES
  <2>0. TypeOK /\ Typed /\ Kinds /\ Selections /\ Verdict
    BY DEF TrialInv, RunInv, Typed, Governance
  <2>1. CASE SyncWrite
    <3>1. syncing = s /\ status'[s] = Synced(cfg[s], seen) /\ seen = status[s]
      BY <2>0, <2>1 DEF SyncWrite, TypeOK, Kinds
    <3> QED
      BY <3>1 DEF Synced, GOVERNED_STATUSES, SCHEDULABLE_STATUSES
  <2>2. CASE Restart
    <3>1. status'[s] = Synced(yaml[s], status[s])
      BY <2>2 DEF Restart
    <3> QED
      BY <3>1 DEF Synced, GOVERNED_STATUSES, SCHEDULABLE_STATUSES
  <2>3. ASSUME NEW q \in Sources, RollUp(q) PROVE status'[s] \notin SCHEDULABLE_STATUSES \union {"candidate"}
    <3>1. q = s /\ status'[s] = Governed(status[s], RolledUp(daily[s], got[s]))
      BY <2>0, <2>3 DEF RollUp, ChangeStatus, TypeOK, Typed
    <3>2. /\ Sound(daily[s]) /\ DOMAIN daily[s] \subseteq 1..day /\ day \in Days
          /\ got[s] \in Outcomes \union {Nothing}
      BY <2>0 DEF TrialInv, Governance, Typed, TypeOK, Days
    <3>3. Sound(RolledUp(daily[s], got[s]))
      BY <3>2, RolledUpKeeps
    <3>4. Governed(status[s], RolledUp(daily[s], got[s])) \notin {"active", "degraded", "trial", "candidate"}
      BY <3>3, GovernedStops
    <3> QED
      BY <3>1, <3>4 DEF SCHEDULABLE_STATUSES
  <2>4. CASE Decide
    <3>1. verdict.source = s /\ status'[s] = verdict.status /\ verdict # NoVerdict
      BY <2>0, <2>4 DEF Decide, ChangeStatus, TypeOK
    <3>2. s \in pending /\ maint = "evaluate" /\ verdict.status \in {"active", "rejected"}
      BY <2>0, <3>1 DEF Typed
    <3>3. status[s] = "quarantined"
      BY <2>0, <3>2 DEF Selections
    <3>4. verdict.status = "rejected"
      BY <2>0, <3>1, <3>2, <3>3 DEF Verdict
    <3> QED
      BY <3>1, <3>4 DEF SCHEDULABLE_STATUSES
  <2>5. ASSUME NEW q \in Sources, Discover(q) \/ Promote(q) PROVE FALSE
    BY <2>0, <2>5 DEF Discover, Promote, ChangeStatus, TypeOK, Selections
  <2>6. ~ (SyncWrite \/ Restart \/ Decide \/ \E q \in Sources : RollUp(q) \/ Discover(q) \/ Promote(q))
          => UNCHANGED status
    BY DEF Next, PipelineStep, MaintenanceStep, RunStarts, SyncRead, SyncDone,
       ListPipelineSources, GetSourceStatuses, Collect, Persist, RunEnds, RunFails,
       MaintenanceStarts, SelectCandidates, SelectTrials, Judge, MaintenanceEnds,
       SourceAction, NewDay
  <2> QED
    BY <2>1, <2>2, <2>3, <2>4, <2>5, <2>6
<1>2. Spec => [][\A s \in Sources : Stops(s)]_vars
  BY <1>1, TrialInvariance, PTL DEF Spec
<1> QED
  BY <1>2 DEF StoppedStaysStopped
=============================================================================
