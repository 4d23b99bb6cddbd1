----------------------- MODULE DebouncedBuilder_proofs -----------------------
(***************************************************************************)
(* The debounced builder for any number of runs, of calls of the API, of   *)
(* files, failures and crashes: at most one live timer, rows that say what *)
(* will happen, pages that never go back, and Publication implemented.     *)
(***************************************************************************)
EXTENDS DebouncedBuilder, FiniteSetsExt, WellFoundedInduction, TLAPS

(* A live task is the one _timer refers to; while schedule() is between    *)
(* its cancellation and its new task there is none; and a build that is    *)
(* copying belongs to a task that is building and was not cancelled.       *)
TimerInv ==
  /\ timer \in [Runs -> TimerStates]
  /\ \A r \in Runs : Live(r) => r = current
  /\ sched \in {"superseding", "queueing"} => \A r \in Runs : ~ Live(r)
  /\ \A r \in Runs : r \in copying => Live(r) /\ timer[r] = "building"

(* A set of naturals has a least member, which Min names.                  *)
LEMMA MinIsLeast ==
  ASSUME NEW S, S \subseteq Nat, S # {}
  PROVE  Min(S) \in S /\ \A x \in S : Min(S) <= x
<1>1. PICK m \in S : \A x \in S : ~ (<<x, m>> \in OpToRel(<, Nat))
  BY WFMin, NatLessThanWellFounded, Zenon
<1>2. ASSUME NEW x \in S PROVE ~ (x < m)
  BY <1>1, Zenon DEF OpToRel
<1>3. \A x \in S : m <= x
  BY <1>2
<1> QED
  BY <1>3 DEF Min

(* TimerInv is about four variables only.                                  *)
LEMMA TimerInvFrame ==
  ASSUME TimerInv, UNCHANGED <<timer, cancelled, current, copying>>,
         sched' \notin {"superseding", "queueing"} \/ sched' = sched
  PROVE  TimerInv'
BY DEF TimerInv, Live

(* A step that moves one live or finished task forward, or ends it, keeps  *)
(* the invariant as long as it brings no task back to life.                *)
LEMMA OneTaskMoves ==
  ASSUME TimerInv, UNCHANGED <<sched, current>>, NEW r \in Runs, NEW s \in TimerStates,
         timer' = [timer EXCEPT ![r] = s],
         cancelled' = cancelled \/ (s = "done" /\ cancelled' = cancelled \ {r}),
         Live(r) \/ s = "done",
         \A q \in Runs : q \notin copying'
  PROVE  TimerInv'
<1>1. timer' \in [Runs -> TimerStates]
  BY DEF TimerInv
<1>2. ASSUME NEW q \in Runs, Live(q)' PROVE Live(q)
  <2>1. CASE q = r
    BY <1>2, <2>1 DEF Live, TimerInv
  <2>2. CASE q # r
    BY <1>2, <2>2 DEF Live, TimerInv
  <2> QED
    BY <2>1, <2>2
<1> QED
  BY <1>1, <1>2 DEF TimerInv

(* A new builder has no timer.                                             *)
LEMMA InitTimer == Init => TimerInv
BY DEF Init, TimerInv, Live, TimerStates

(* Every step of schedule, build_now, the tasks and the crash keeps it.    *)
LEMMA NextTimer == TimerInv /\ [Next]_vars => TimerInv'
<1> SUFFICES ASSUME TimerInv, [Next]_vars PROVE TimerInv'
  OBVIOUS
<1> USE DEF LoopFree
<1>1. CASE SaveArticles \/ NotScheduled
  BY <1>1, TimerInvFrame DEF SaveArticles, NotScheduled
<1>2. CASE Schedule
  <2>1. CASE Supersede
    <3>1. \A r \in Runs : ~ Live(r)'
      BY <1>2, <2>1 DEF Schedule, Supersede, TimerInv, Live
    <3> QED
      BY <1>2, <3>1 DEF Schedule, TimerInv
  <2>2. CASE ~ TimerPending /\ Enqueue /\ UNCHANGED cancelled
    <3>1. \A r \in Runs : ~ Live(r)
      BY <2>2 DEF TimerPending, TimerInv, Live, Runs, NoRun
    <3>2. \A r \in Runs : ~ Live(r)'
      BY <1>2, <2>2, <3>1 DEF Schedule, Live
    <3> QED
      BY <1>2, <3>2 DEF Schedule, TimerInv
  <2> QED
    BY <1>2, <2>1, <2>2 DEF Schedule
<1>3. CASE ScheduleQueues
  <2>1. \A r \in Runs : ~ Live(r)'
    BY <1>3 DEF ScheduleQueues, TimerInv, Live
  <2> QED
    BY <1>3, <2>1 DEF ScheduleQueues, TimerInv
<1>4. CASE ScheduleStartsTimer
  <2>1. timer' \in [Runs -> TimerStates]
    BY <1>4 DEF ScheduleStartsTimer, TimerInv, TimerStates
  <2>2. \A r \in Runs : ~ Live(r)
    BY <1>4 DEF ScheduleStartsTimer, TimerInv
  <2>3. \A r \in Runs : Live(r)' => r = current'
    BY <1>4, <2>2 DEF ScheduleStartsTimer, TimerInv, Live
  <2> QED
    BY <1>4, <2>1, <2>3 DEF ScheduleStartsTimer, TimerInv
<1>5. ASSUME NEW r \in Runs, Wake(r) PROVE TimerInv'
  <2>1. Live(r)
    BY <1>5 DEF Wake, Live
  <2> QED
    BY <1>5, <2>1, OneTaskMoves DEF Wake, TimerStates
<1>6. ASSUME NEW r \in Runs, TimerBuilds(r) PROVE TimerInv'
  <2>1. Live(r)
    BY <1>6 DEF TimerBuilds, Live
  <2> QED
    BY <1>6, <2>1, OneTaskMoves DEF TimerBuilds, TimerStates
<1>7. ASSUME NEW r \in Runs, Settle(r) PROVE TimerInv'
  BY <1>7, OneTaskMoves DEF Settle, TimerStates
<1>8. ASSUME NEW r \in Runs, DeliverCancel(r) PROVE TimerInv'
  BY <1>8, OneTaskMoves DEF DeliverCancel, TimerStates
<1>9. ASSUME NEW m \in Manuals, BuildNow(m) PROVE TimerInv'
  <2>1. CASE Supersede
    <3>1. \A r \in Runs : ~ Live(r)'
      BY <1>9, <2>1 DEF BuildNow, Supersede, TimerInv, Live
    <3> QED
      BY <1>9, <3>1 DEF BuildNow, TimerInv
  <2>2. CASE ~ TimerPending /\ UNCHANGED cancelled
    BY <1>9, <2>2, TimerInvFrame DEF BuildNow
  <2> QED
    BY <1>9, <2>1, <2>2 DEF BuildNow
<1>10. ASSUME NEW m \in Manuals, BuildNowBuilds(m) PROVE TimerInv'
  BY <1>10, TimerInvFrame DEF BuildNowBuilds
<1>11. ASSUME NEW b \in Builders, StartCopy(b) PROVE TimerInv'
  <2>1. \A r \in Runs : r \in copying' => Live(r) /\ timer[r] = "building"
    BY <1>11 DEF StartCopy, IsBuilding, Live
  <2> QED
    BY <1>11, <2>1 DEF StartCopy, TimerInv, Live
<1>12. ASSUME NEW b \in Builders, copying' = {}, Ends(b, "completed") \/ Ends(b, "failed"),
              b \in Runs => Live(b), UNCHANGED <<sched, cancelled, current>>
       PROVE  TimerInv'
  <2>1. CASE b \in Runs
    <3>1. timer' = [timer EXCEPT ![b] = "settling"]
      BY <1>12, <2>1 DEF Ends
    <3> QED
      BY <1>12, <2>1, <3>1, OneTaskMoves DEF TimerStates
  <2>2. CASE b \notin Runs
    <3>1. timer' = timer
      BY <1>12, <2>2 DEF Ends
    <3> QED
      BY <1>12, <3>1 DEF TimerInv, Live
  <2> QED
    BY <2>1, <2>2
<1>13. ASSUME NEW b \in Builders, NEW f \in Files, CopyFile(b, f) PROVE TimerInv'
  <2>1. b \in Runs => Live(b)
    BY <1>13 DEF CopyFile, TimerInv
  <2>2. CASE left = {f}
    BY <1>12, <1>13, <2>1, <2>2 DEF CopyFile
  <2>3. CASE left # {f}
    BY <1>13, <2>3, TimerInvFrame DEF CopyFile
  <2> QED
    BY <2>2, <2>3
<1>14. ASSUME NEW b \in Builders, BuildRaises(b) PROVE TimerInv'
  <2>1. b \in Runs => Live(b)
    BY <1>14 DEF BuildRaises, IsBuilding, TimerInv, Live
  <2> QED
    BY <1>12, <1>14, <2>1 DEF BuildRaises, Raises
<1>15. CASE Crash
  <2>1. timer' \in [Runs -> TimerStates]
    BY <1>15 DEF Crash, TimerStates
  <2>2. \A r \in Runs : ~ Live(r)'
    BY <1>15 DEF Crash, Live
  <2> QED
    BY <1>15, <2>1, <2>2 DEF Crash, TimerInv
<1>16. CASE Quiet \/ UNCHANGED vars
  BY <1>16, TimerInvFrame DEF Quiet, vars, loop
<1> QED
  BY <1>1, <1>2, <1>3, <1>4, <1>5, <1>6, <1>7, <1>8, <1>9, <1>10, <1>11, <1>13,
     <1>14, <1>15, <1>16 DEF Next, LoopStep

(* The invariant holds in every reachable state.                           *)
LEMMA TimerInvariance == Spec => []TimerInv
BY InitTimer, NextTimer, PTL DEF Spec

(* At most one task of the debounced builder is alive (schedule and        *)
(* build_now cancel the pending one), however the calls interleave.        *)
THEOREM OneLiveTimer == Spec => []AtMostOneLiveTimer
<1>1. TimerInv => AtMostOneLiveTimer
  BY DEF TimerInv, AtMostOneLiveTimer
<1> QED
  BY <1>1, TimerInvariance, PTL
-----------------------------------------------------------------------------
(* Without leaves a queue of builders, in the order they had.              *)
LEMMA WithoutType ==
  ASSUME NEW seq \in Seq(Builders), NEW b
  PROVE  Without(seq, b) \in Seq(Builders)
<1>1. CASE \A i \in DOMAIN seq : seq[i] # b
  BY <1>1 DEF Without
<1>2. CASE \E i \in DOMAIN seq : seq[i] = b
  <2> DEFINE n == CHOOSE i \in DOMAIN seq : seq[i] = b
             m == Len(seq) - 1
             f == [i \in 1..m |-> IF i < n THEN seq[i] ELSE seq[i + 1]]
  <2>1. n \in 1..Len(seq) /\ m \in Nat
    BY <1>2
  <2>2. f \in [1..m -> Builders]
    <3>1. \A i \in 1..m : i \in DOMAIN seq /\ i + 1 \in DOMAIN seq
      BY <2>1
    <3>2. \A i \in DOMAIN seq : seq[i] \in Builders
      OBVIOUS
    <3> HIDE DEF m, n
    <3> QED
      BY <3>1, <3>2
  <2>3. Without(seq, b) = f
    BY <1>2 DEF Without
  <2> HIDE DEF f, m, n
  <2>4. f \in Seq(Builders)
    BY <2>1, <2>2
  <2> QED
    BY <2>3, <2>4
<1> QED
  BY <1>1, <1>2
(* The queue without b is the old one at other places, in the same order,  *)
(* and b is gone.                                                          *)
LEMMA WithoutOrder ==
  ASSUME NEW seq \in Seq(Builders), NEW b,
         \A i, j \in DOMAIN seq : seq[i] = seq[j] => i = j
  PROVE  \E place \in [DOMAIN Without(seq, b) -> DOMAIN seq] :
           /\ \A i \in DOMAIN Without(seq, b) :
                Without(seq, b)[i] = seq[place[i]] /\ Without(seq, b)[i] # b
           /\ \A i, j \in DOMAIN Without(seq, b) : i < j => place[i] < place[j]
<1>1. CASE \A i \in DOMAIN seq : seq[i] # b
  <2>1. Without(seq, b) = seq
    BY <1>1 DEF Without
  <2>2. [i \in DOMAIN seq |-> i] \in [DOMAIN seq -> DOMAIN seq]
    OBVIOUS
  <2> QED
    BY <1>1, <2>1, <2>2
<1>2. CASE \E i \in DOMAIN seq : seq[i] = b
  <2> DEFINE n == CHOOSE i \in DOMAIN seq : seq[i] = b
             m == Len(seq) - 1
             p == [i \in 1..m |-> IF i < n THEN i ELSE i + 1]
             f == [i \in 1..m |-> IF i < n THEN seq[i] ELSE seq[i + 1]]
  <2>1. n \in 1..Len(seq) /\ m \in Nat /\ DOMAIN seq = 1..Len(seq) /\ seq[n] = b
    BY <1>2
  <2>2. Without(seq, b) = f
    BY <1>2 DEF Without
  <2>3. m = Len(seq) - 1 /\ Len(seq) \in Nat
    OBVIOUS
  <2> HIDE DEF m, n
  <2>4. p \in [DOMAIN f -> DOMAIN seq]
    BY <2>1, <2>3
  <2>5. \A i \in DOMAIN f : f[i] = seq[p[i]] /\ f[i] # b
    BY <2>1, <2>3
  <2>6. \A i, j \in DOMAIN f : i < j => p[i] < p[j]
    BY <2>1
  <2> HIDE DEF p, f
  <2> QED
    BY <2>2, <2>4, <2>5, <2>6
<1> QED
  BY <1>1, <1>2

-----------------------------------------------------------------------------
LEMMA InitTypes == Init => TypeOK
BY BuilderAssumption DEF Init, TypeOK, Statuses, TimerStates

(* A report puts a status in a row.                                        *)
LEMMA NotifiedType ==
  ASSUME status \in [Runs -> Statuses], NEW r,
         NEW report \in {"queued", "running", "completed", "failed", "superseded"}
  PROVE  Notified(r, report) \in [Runs -> Statuses]
BY DEF Notified, RowStatus, Statuses

LEMMA NextTypes == TypeOK /\ [Next]_vars => TypeOK'
<1> SUFFICES ASSUME TypeOK, [Next]_vars PROVE TypeOK'
  OBVIOUS
<1> USE BuilderAssumption, ManualAssumption
<1>0. Runs \subseteq Builders /\ Manuals \subseteq Builders
  BY DEF Builders
<1>1. CASE SaveArticles \/ NotScheduled
  BY <1>1 DEF SaveArticles, NotScheduled, TypeOK, bounds
<1>2. ASSUME Supersede PROVE cancelled' \subseteq Runs /\ status' \in [Runs -> Statuses]
  BY <1>2, NotifiedType DEF Supersede, TimerPending, TypeOK
<1>3. ASSUME Enqueue
      PROVE  sched' = "queueing" /\ runId' \in Runs \union {NoRun} /\ status' \in [Runs -> Statuses]
  <2>1. sched' = "queueing" /\ runId' \in Runs \union {NoRun}
    BY <1>3 DEF Enqueue, TypeOK, Runs, NoRun
  <2>2. status' \in [Runs -> Statuses]
    BY <1>3, NotifiedType DEF Enqueue, TypeOK
  <2> QED
    BY <2>1, <2>2
<1>4. CASE Schedule
  BY <1>2, <1>3, <1>4 DEF Schedule, TypeOK, bounds, Supersede
<1>5. CASE ScheduleQueues
  BY <1>3, <1>5 DEF ScheduleQueues, TypeOK, bounds
<1>6. CASE ScheduleStartsTimer
  BY <1>6 DEF ScheduleStartsTimer, TypeOK, TimerStates, bounds
<1>7. ASSUME NEW b \in Builders, Reads(b)
      PROVE  building' \in Seq(Builders) /\ snapshot' \in [Builders -> 0..NumRuns]
  BY <1>7 DEF Reads, TypeOK
<1>8. ASSUME NEW r \in Runs, Wake(r) PROVE TypeOK'
  BY <1>8, NotifiedType DEF Wake, TypeOK, TimerStates, bounds
<1>9. ASSUME NEW r \in Runs, TimerBuilds(r) PROVE TypeOK'
  BY <1>0, <1>7, <1>9 DEF TimerBuilds, TypeOK, TimerStates, bounds
<1>10. ASSUME NEW m \in Manuals, BuildNow(m) PROVE TypeOK'
  BY <1>0, <1>2, <1>7, <1>10 DEF BuildNow, TypeOK, bounds
<1>11. ASSUME NEW m \in Manuals, BuildNowBuilds(m) PROVE TypeOK'
  BY <1>0, <1>7, <1>11 DEF BuildNowBuilds, TypeOK, bounds
<1>12. \A b : Without(building, b) \in Seq(Builders)
  BY WithoutType DEF TypeOK
<1>13. ASSUME NEW b \in Builders, StartCopy(b) PROVE TypeOK'
  BY <1>12, <1>13 DEF StartCopy, TypeOK, bounds
<1>14. ASSUME NEW b \in Builders, NEW report \in {"completed", "failed"}, Ends(b, report)
       PROVE  /\ status' \in [Runs -> Statuses]
              /\ timer' \in [Runs -> TimerStates]
              /\ manual' \in [Manuals -> {"idle", "superseding", "building", "done"}]
  BY <1>14, NotifiedType DEF Ends, TypeOK, TimerStates
<1>15. ASSUME NEW b \in Builders, NEW f \in Files, CopyFile(b, f) PROVE TypeOK'
  <2>1. site' \in [Files -> 0..NumRuns] /\ left' \subseteq Files /\ copying' \subseteq Builders
    BY <1>15 DEF CopyFile, TypeOK
  <2>2. /\ status' \in [Runs -> Statuses]
        /\ timer' \in [Runs -> TimerStates]
        /\ manual' \in [Manuals -> {"idle", "superseding", "building", "done"}]
    BY <1>14, <1>15 DEF CopyFile, TypeOK
  <2> QED
    BY <1>15, <2>1, <2>2 DEF CopyFile, TypeOK, bounds
<1>16. ASSUME NEW b \in Builders, BuildRaises(b) PROVE TypeOK'
  BY <1>12, <1>14, <1>16 DEF BuildRaises, Raises, TypeOK
<1>17. ASSUME NEW r \in Runs, Settle(r) PROVE TypeOK'
  BY <1>17 DEF Settle, TypeOK, TimerStates, bounds
<1>18. ASSUME NEW r \in Runs, DeliverCancel(r) PROVE TypeOK'
  BY <1>12, <1>18 DEF DeliverCancel, TypeOK, TimerStates, bounds
<1>19. CASE Crash
  BY <1>19 DEF Crash, TypeOK, TimerStates
<1>20. CASE Quiet \/ UNCHANGED vars
  BY <1>20 DEF Quiet, vars, loop, bounds, TypeOK
<1> QED
  BY <1>1, <1>4, <1>5, <1>6, <1>8, <1>9, <1>10, <1>11, <1>13, <1>15, <1>16, <1>17,
     <1>18, <1>19, <1>20 DEF Next, LoopStep
-----------------------------------------------------------------------------
(* Where schedule() stands: _run_id is the run of _timer but between the   *)
(* two assignments; the run it schedules has no row and no timer before;   *)
(* and nothing is pending while it awaits the report of its queueing.      *)
Handing ==
  /\ sched # "queueing" => runId = current
  /\ sched # "idle" => articles \in Runs /\ timer[articles] = "none"
  /\ sched \in {"saved", "superseding"} => status[articles] = "none"
  /\ sched = "queueing" => runId = articles /\ status[articles] = "queued" /\ ~ TimerPending
  /\ \A r \in Runs : r > articles => status[r] = "none" /\ timer[r] = "none"
  /\ current # NoRun => timer[current] # "none"
  /\ \A r \in cancelled : timer[r] \notin {"none", "done"}

(* What the row of a live task says.                                       *)
RowOf(state) ==
  CASE state = "sleeping" -> {"queued"}
    [] state \in {"starting", "building"} -> {"running"}
    [] state = "settling" -> {"done", "failed"}
    [] OTHER -> {}

Rows == \A r \in Runs : Live(r) => status[r] \in RowOf(timer[r])

RowInv == TypeOK /\ TimerInv /\ Handing /\ Rows /\ QueuedHasLiveBuild

LEMMA InitRows == Init => RowInv
<1> SUFFICES ASSUME Init PROVE RowInv
  OBVIOUS
<1>1. TypeOK /\ TimerInv
  BY InitTypes, InitTimer
<1>2. Handing /\ Rows /\ QueuedHasLiveBuild
  BY DEF Init, Handing, Rows, Live, QueuedHasLiveBuild
<1> QED
  BY <1>1, <1>2 DEF RowInv

(* Steps of the loop that leave rows, tasks and _timer alone.              *)
LEMMA RowFrame ==
  ASSUME RowInv,
         UNCHANGED <<articles, status, sched, timer, cancelled, current, runId, crashes>>
  PROVE  (Handing /\ Rows /\ QueuedHasLiveBuild)'
BY DEF RowInv, Handing, Rows, Live, QueuedHasLiveBuild, TimerPending

(* A superseded timer: its row is the last thing it has, and no task lives.*)
LEMMA SupersedeRows ==
  ASSUME RowInv, Supersede, UNCHANGED <<articles, timer, current, runId, crashes>>,
         sched' # sched => sched = "saved" /\ sched' = "superseding"
  PROVE  (Handing /\ Rows /\ QueuedHasLiveBuild)'
<1>1. sched # "queueing" /\ sched' # "queueing" /\ runId = current /\ current \in Runs
  BY DEF RowInv, Handing, Supersede, TimerPending, TypeOK
<1>2. \A r \in Runs : ~ Live(r)'
  BY DEF RowInv, TimerInv, Live, Supersede
<1>3. status' \in [Runs -> Statuses]
      /\ (\A r \in Runs : r # current => status'[r] = status[r])
      /\ status'[current] \in {"none", "superseded"}
      /\ (status[current] = "none" => status'[current] = "none")
  BY <1>1 DEF Supersede, Notified, RowStatus, RowInv, TypeOK, Statuses
<1>4. Handing'
  BY <1>1, <1>3 DEF RowInv, Handing, Supersede, TimerPending, TypeOK
<1>5. Rows'
  BY <1>2 DEF Rows
<1>6. QueuedHasLiveBuild'
  BY <1>1, <1>3 DEF RowInv, QueuedHasLiveBuild, TimerInv
<1> QED
  BY <1>4, <1>5, <1>6

(* The new run's row says queued while no task lives.                      *)
LEMMA EnqueueRows ==
  ASSUME RowInv, Enqueue, UNCHANGED <<articles, timer, cancelled, current, crashes>>,
         sched \in {"saved", "superseding"}, ~ TimerPending
  PROVE  (Handing /\ Rows /\ QueuedHasLiveBuild)'
<1>1. articles \in Runs
  BY DEF RowInv, Handing
<1>2. /\ \A r \in Runs : r # articles => status'[r] = status[r]
      /\ status'[articles] = "queued"
  BY <1>1 DEF Enqueue, Notified, RowStatus, RowInv, TypeOK
<1>3. \A r \in Runs : ~ Live(r) /\ ~ Live(r)'
  BY DEF RowInv, TimerInv, Live, TimerPending, Runs, NoRun
<1>4. Handing'
  BY <1>1, <1>2 DEF RowInv, Handing, Enqueue, TimerPending, Runs
<1>5. Rows'
  BY <1>3 DEF Rows
<1>6. QueuedHasLiveBuild'
  BY <1>1, <1>2, <1>3 DEF RowInv, QueuedHasLiveBuild, Enqueue
<1> QED
  BY <1>4, <1>5, <1>6

(* A live task goes on and its row says so.                                *)
LEMMA TaskRows ==
  ASSUME RowInv, UNCHANGED <<articles, sched, cancelled, current, runId, crashes>>,
         NEW r \in Runs, Live(r), NEW s \in TimerStates \ {"none"},
         timer' = [timer EXCEPT ![r] = s],
         \A q \in Runs : q # r => status'[q] = status[q],
         s # "done" => status'[r] \in RowOf(s),
         s = "done" => status'[r] \notin {"queued", "running"},
         status'[r] # "none"
  PROVE  (Handing /\ Rows /\ QueuedHasLiveBuild)'
<1>1. r = current /\ timer[r] \notin {"none", "done"} /\ r \notin cancelled
  BY DEF RowInv, TimerInv, Live
<1>2. sched \notin {"superseding", "queueing"}
  BY DEF RowInv, TimerInv
<1>3. Handing'
  BY <1>1, <1>2 DEF RowInv, Handing, TypeOK, TimerPending
<1>4. Rows'
  BY <1>1 DEF RowInv, Rows, Live, TypeOK
<1>5. QueuedHasLiveBuild'
  BY <1>1, <1>2 DEF RowInv, QueuedHasLiveBuild, Live, TypeOK, RowOf
<1> QED
  BY <1>3, <1>4, <1>5
LEMMA NextRows == RowInv /\ [Next]_vars => RowInv'
<1> SUFFICES ASSUME RowInv, [Next]_vars PROVE (Handing /\ Rows /\ QueuedHasLiveBuild)'
  BY NextTypes, NextTimer DEF RowInv
<1> USE BuilderAssumption
<1>0. status \in [Runs -> Statuses] /\ timer \in [Runs -> TimerStates] /\ articles \in 0..NumRuns
      /\ sched \in {"idle", "saved", "superseding", "queueing"}
  BY DEF RowInv, TypeOK
<1>1. CASE SaveArticles
  <2>1. articles' \in Runs /\ articles' = articles + 1 /\ status[articles'] = "none"
        /\ timer[articles'] = "none"
    BY <1>0, <1>1 DEF SaveArticles, RowInv, Handing, Runs
  <2>2. Handing'
    BY <1>0, <1>1, <2>1 DEF SaveArticles, RowInv, Handing, Runs
  <2>3. Rows' /\ QueuedHasLiveBuild'
    BY <1>1 DEF SaveArticles, RowInv, Rows, QueuedHasLiveBuild, Live, bounds
  <2> QED
    BY <2>2, <2>3
<1>2. CASE NotScheduled
  BY <1>2 DEF NotScheduled, RowInv, Handing, Rows, QueuedHasLiveBuild, Live, bounds
<1>3. CASE Schedule
  BY <1>3, SupersedeRows, EnqueueRows DEF Schedule, bounds
<1>4. CASE ScheduleQueues
  <2>1. ~ TimerPending
    BY <1>0, <1>4 DEF ScheduleQueues, CancellationsDelivered, TimerPending, RowInv, Handing,
       TimerInv, Live, TypeOK
  <2> QED
    BY <1>4, <2>1, EnqueueRows DEF ScheduleQueues, bounds
<1>5. CASE ScheduleStartsTimer
  <2>1. /\ sched = "queueing" /\ runId \in Runs /\ runId = articles
        /\ status[runId] = "queued" /\ timer[runId] = "none" /\ runId \notin cancelled
    BY <1>5 DEF ScheduleStartsTimer, RowInv, Handing
  <2>2. timer' = [timer EXCEPT ![runId] = "sleeping"] /\ current' = runId /\ sched' = "idle"
    BY <1>5 DEF ScheduleStartsTimer
  <2>3. UNCHANGED <<articles, status, cancelled, runId, crashes>>
    BY <1>5 DEF ScheduleStartsTimer, bounds
  <2>4. \A q \in Runs : ~ Live(q)
    BY <2>1 DEF RowInv, TimerInv
  <2>5. \A q \in Runs : Live(q)' => q = runId
    BY <1>0, <2>2, <2>3, <2>4 DEF Live
  <2>6. Live(runId)'
    BY <1>0, <2>1, <2>2, <2>3 DEF Live
  <2>7. Handing'
    BY <1>0, <2>1, <2>2, <2>3 DEF RowInv, Handing, Runs, NoRun
  <2>8. Rows'
    BY <1>0, <2>1, <2>2, <2>3, <2>5 DEF Rows, RowOf
  <2>9. QueuedHasLiveBuild'
    BY <2>1, <2>2, <2>3, <2>4, <2>6 DEF RowInv, QueuedHasLiveBuild
  <2> QED
    BY <2>7, <2>8, <2>9
<1>6. ASSUME NEW r \in Runs, Wake(r) PROVE (Handing /\ Rows /\ QueuedHasLiveBuild)'
  <2>1. Live(r) /\ status[r] = "queued"
    BY <1>6 DEF Wake, Live, RowInv, Rows, RowOf
  <2>2. status' = [status EXCEPT ![r] = "running"]
    BY <1>6, <2>1 DEF Wake, Notified, RowStatus
  <2> QED
    BY <1>0, <1>6, <2>1, <2>2, TaskRows DEF Wake, TimerStates, RowOf, bounds
<1>7. ASSUME NEW r \in Runs, TimerBuilds(r) PROVE (Handing /\ Rows /\ QueuedHasLiveBuild)'
  <2>1. Live(r) /\ status[r] = "running"
    BY <1>7 DEF TimerBuilds, Live, RowInv, Rows, RowOf
  <2> QED
    BY <1>0, <1>7, <2>1, TaskRows DEF TimerBuilds, TimerStates, RowOf, bounds
<1>8. ASSUME NEW m \in Manuals, BuildNow(m) PROVE (Handing /\ Rows /\ QueuedHasLiveBuild)'
  <2>1. UNCHANGED <<articles, timer, current, runId, crashes>>
    BY <1>8 DEF BuildNow, bounds
  <2>2. sched' = sched
    BY <1>8 DEF BuildNow
  <2>3. CASE Supersede
    BY <2>1, <2>2, <2>3, SupersedeRows
  <2>4. CASE UNCHANGED <<cancelled, status>>
    BY <2>1, <2>2, <2>4, RowFrame
  <2> QED
    BY <1>8, <2>3, <2>4 DEF BuildNow
<1>9. ASSUME NEW m \in Manuals, BuildNowBuilds(m) PROVE (Handing /\ Rows /\ QueuedHasLiveBuild)'
  BY <1>9, RowFrame DEF BuildNowBuilds, bounds
<1>10. ASSUME NEW b \in Builders, StartCopy(b) PROVE (Handing /\ Rows /\ QueuedHasLiveBuild)'
  BY <1>10, RowFrame DEF StartCopy, bounds
<1>11. ASSUME NEW b \in Builders, NEW report \in {"completed", "failed"}, Ends(b, report),
              b \in Runs => Live(b) /\ timer[b] = "building",
              UNCHANGED <<articles, sched, cancelled, current, runId, crashes>>
       PROVE  (Handing /\ Rows /\ QueuedHasLiveBuild)'
  <2>1. CASE b \in Runs
    <3>1. status[b] = "running" /\ timer' = [timer EXCEPT ![b] = "settling"]
      BY <1>11, <2>1 DEF Ends, RowInv, Rows, RowOf
    <3>2. status' = [status EXCEPT ![b] = RowStatus(report)]
      BY <1>11, <2>1, <3>1 DEF Ends, Notified
    <3> QED
      BY <1>0, <1>11, <2>1, <3>1, <3>2, TaskRows DEF RowStatus, RowOf, TimerStates
  <2>2. CASE b \notin Runs
    BY <1>11, <2>2, RowFrame DEF Ends, Notified
  <2> QED
    BY <2>1, <2>2
<1>12. ASSUME NEW b \in Builders, NEW f \in Files, CopyFile(b, f)
       PROVE  (Handing /\ Rows /\ QueuedHasLiveBuild)'
  <2>1. b \in Runs => Live(b) /\ timer[b] = "building"
    BY <1>12 DEF CopyFile, RowInv, TimerInv
  <2>2. CASE left = {f}
    BY <1>11, <1>12, <2>1, <2>2 DEF CopyFile, bounds
  <2>3. CASE left # {f}
    BY <1>12, <2>3, RowFrame DEF CopyFile, bounds
  <2> QED
    BY <2>2, <2>3
<1>13. ASSUME NEW b \in Builders, BuildRaises(b) PROVE (Handing /\ Rows /\ QueuedHasLiveBuild)'
  <2>1. b \in Runs => Live(b) /\ timer[b] = "building"
    BY <1>13 DEF BuildRaises, IsBuilding, RowInv, TimerInv, Live
  <2> QED
    BY <1>11, <1>13, <2>1 DEF BuildRaises, Raises
<1>14. ASSUME NEW r \in Runs, Settle(r) PROVE (Handing /\ Rows /\ QueuedHasLiveBuild)'
  <2>1. Live(r) /\ status[r] \in {"done", "failed"}
    BY <1>14 DEF Settle, Live, RowInv, Rows, RowOf
  <2> QED
    BY <1>0, <1>14, <2>1, TaskRows DEF Settle, TimerStates, bounds
<1>15. ASSUME NEW r \in Runs, DeliverCancel(r) PROVE (Handing /\ Rows /\ QueuedHasLiveBuild)'
  <2>1. \A q \in Runs : Live(q)' <=> Live(q)
    BY <1>0, <1>15 DEF DeliverCancel, Live
  <2>2. \A q \in Runs : Live(q) => timer'[q] = timer[q]
    BY <1>0, <1>15 DEF DeliverCancel, Live
  <2>3. Handing'
    BY <1>0, <1>15 DEF DeliverCancel, RowInv, Handing, TypeOK, TimerPending
  <2>4. Rows'
    BY <1>15, <2>1, <2>2 DEF DeliverCancel, RowInv, Rows
  <2>5. QueuedHasLiveBuild'
    BY <1>15, <2>1 DEF DeliverCancel, RowInv, QueuedHasLiveBuild, bounds
  <2> QED
    BY <2>3, <2>4, <2>5
<1>16. CASE Crash
  <2>1. \A q \in Runs : ~ Live(q)'
    BY <1>0, <1>16 DEF Crash, Live
  <2>2. Handing'
    BY <1>0, <1>16 DEF Crash, RowInv, Handing
  <2>3. crashes' # 0
    BY <1>16 DEF Crash, RowInv, TypeOK
  <2> QED
    BY <2>1, <2>2, <2>3 DEF Rows, QueuedHasLiveBuild
<1>17. CASE Quiet \/ UNCHANGED vars
  BY <1>17, RowFrame DEF Quiet, vars, loop, bounds
<1> QED
  BY <1>1, <1>2, <1>3, <1>4, <1>5, <1>6, <1>7, <1>8, <1>9, <1>10, <1>12, <1>13,
     <1>14, <1>15, <1>16, <1>17 DEF Next, LoopStep
(* The rows of builds, the tasks and _run_id agree in every reachable      *)
(* state.                                                                  *)
LEMMA RowInvariance == Spec => []RowInv
BY InitRows, NextRows, PTL DEF Spec

-----------------------------------------------------------------------------
(* The queue of the connection: builds in the order of what they read,     *)
(* each behind every page of the site.                                     *)
Queue ==
  /\ \A i, j \in DOMAIN building : building[i] = building[j] => i = j
  /\ \A i \in DOMAIN building : IsBuilding(building[i])
  /\ \A i, j \in DOMAIN building : i < j => snapshot[building[i]] <= snapshot[building[j]]
  /\ \A i \in DOMAIN building : \A f \in Files : site[f] <= snapshot[building[i]]

(* Nothing is newer than the database, and a run's own build has read it.  *)
Bounded ==
  /\ \A b \in Builders : snapshot[b] <= articles
  /\ \A f \in Files : site[f] <= articles
  /\ \A r \in Runs : timer[r] = "building" => r <= snapshot[r]

(* The build that copies has the oldest snapshot of those still to come,   *)
(* and the files it has done account for it.                               *)
Copying ==
  \A b \in copying :
    /\ copying = {b}
    /\ IsBuilding(b)
    /\ \A i \in DOMAIN building : building[i] # b /\ snapshot[b] <= snapshot[building[i]]
    /\ \A f \in Files : site[f] <= snapshot[b] /\ (f \notin left => site[f] = snapshot[b])

PageInv == RowInv /\ Queue /\ Bounded /\ Copying

LEMMA InitPages == Init => PageInv
<1> SUFFICES ASSUME Init PROVE Queue /\ Bounded /\ Copying
  BY InitRows DEF PageInv
<1>1. Queue
  BY DEF Init, Queue
<1>2. Bounded
  BY DEF Init, Bounded
<1> QED
  BY <1>1, <1>2 DEF Init, Copying

(* The same builds go on with the same pages.                              *)
LEMMA PageFrame ==
  ASSUME PageInv, articles' \in Nat, articles <= articles',
         UNCHANGED <<building, snapshot, copying, left, site>>,
         \A b \in Builders : IsBuilding(b)' <=> IsBuilding(b),
         \A r \in Runs : timer'[r] = "building" <=> timer[r] = "building"
  PROVE  (Queue /\ Bounded /\ Copying)'
<1>1. TypeOK /\ (\A i \in DOMAIN building : building[i] \in Builders)
  BY DEF PageInv, RowInv, TypeOK
<1>2. Queue'
  BY <1>1 DEF PageInv, Queue
<1>3. Bounded'
  BY <1>1, BuilderAssumption DEF PageInv, Bounded, TypeOK
<1>4. Copying'
  BY <1>1 DEF PageInv, Copying, TypeOK
<1> QED
  BY <1>2, <1>3, <1>4

(* A build that starts its reads is last and has read the most.            *)
LEMMA ReadsPages ==
  ASSUME PageInv, NEW b \in Builders, Reads(b), LoopFree, ~ IsBuilding(b), IsBuilding(b)',
         b \in Runs => b <= articles,
         UNCHANGED <<articles, copying, left, site>>,
         \A c \in Builders \ {b} : IsBuilding(c)' <=> IsBuilding(c),
         \A r \in Runs \ {b} : timer'[r] = "building" <=> timer[r] = "building"
  PROVE  (Queue /\ Bounded /\ Copying)'
<1> DEFINE n == Len(building)
<1>1. /\ building \in Seq(Builders) /\ snapshot \in [Builders -> 0..NumRuns] /\ articles \in Nat
      /\ site \in [Files -> 0..NumRuns] /\ n \in Nat
  BY BuilderAssumption DEF PageInv, RowInv, TypeOK
<1>2. /\ DOMAIN building' = 1..(n + 1) /\ DOMAIN building = 1..n
      /\ building'[n + 1] = b /\ \A i \in 1..n : building'[i] = building[i] /\ building[i] \in Builders
  BY <1>1 DEF Reads
<1>3. \A i \in 1..n : building[i] # b
  BY <1>2 DEF PageInv, Queue
<1>4. snapshot'[b] = articles /\ \A c \in Builders \ {b} : snapshot'[c] = snapshot[c]
  BY <1>1 DEF Reads
<1>5. \A i \in 1..(n + 1) : i \in 1..n \/ i = n + 1
  BY <1>1
<1>6. Bounded'
  BY <1>1, <1>4 DEF PageInv, Bounded, Builders
<1>7. Copying'
  BY DEF LoopFree, Copying
<1> HIDE DEF n
<1>8. \A i \in 1..n : snapshot[building[i]] \in Nat /\ snapshot[building[i]] <= articles
  BY <1>1, <1>2 DEF PageInv, Bounded
<1>9. (\A i, j \in DOMAIN building : building[i] = building[j] => i = j)'
  BY <1>2, <1>3, <1>5 DEF PageInv, Queue
<1>10. (\A i \in DOMAIN building : IsBuilding(building[i]))'
  <2>1. \A i \in 1..n : IsBuilding(building[i])'
    BY <1>2, <1>3 DEF PageInv, Queue
  <2> QED
    BY <1>2, <1>5, <2>1
<1>11. (\A i, j \in DOMAIN building : i < j => snapshot[building[i]] <= snapshot[building[j]])'
  BY <1>1, <1>2, <1>3, <1>4, <1>5, <1>8 DEF PageInv, Queue
<1>12. (\A i \in DOMAIN building : \A f \in Files : site[f] <= snapshot[building[i]])'
  BY <1>1, <1>2, <1>3, <1>4, <1>5 DEF PageInv, Queue, Bounded
<1>13. Queue'
  BY <1>9, <1>10, <1>11, <1>12 DEF Queue
<1> QED
  BY <1>6, <1>7, <1>13
(* When a build leaves the queue, to copy or because it ended, the others  *)
(* keep their order.                                                       *)
LEMMA LeavesQueue ==
  ASSUME PageInv, NEW b, building' = Without(building, b), UNCHANGED <<snapshot, site>>,
         \A c \in Builders \ {b} : IsBuilding(c)' <=> IsBuilding(c)
  PROVE  /\ Queue'
         /\ \A i \in DOMAIN building' :
              building'[i] # b /\ \E k \in DOMAIN building : building'[i] = building[k]
<1>1. building \in Seq(Builders)
      /\ \A i, j \in DOMAIN building : building[i] = building[j] => i = j
  BY DEF PageInv, RowInv, TypeOK, Queue
<1>2. PICK place \in [DOMAIN building' -> DOMAIN building] :
         /\ \A i \in DOMAIN building' : building'[i] = building[place[i]] /\ building'[i] # b
         /\ \A i, j \in DOMAIN building' : i < j => place[i] < place[j]
  BY <1>1, WithoutOrder
<1>3. building' \in Seq(Builders)
  BY <1>1, WithoutType
<1>4. \A i \in DOMAIN building' : place[i] \in DOMAIN building /\ building'[i] \in Builders \ {b}
  BY <1>1, <1>2, <1>3
<1>5. \A i, j \in DOMAIN building' : building'[i] = building'[j] => i = j
  <2> SUFFICES ASSUME NEW i \in DOMAIN building', NEW j \in DOMAIN building',
                      building'[i] = building'[j]
               PROVE  i = j
    OBVIOUS
  <2>1. place[i] = place[j]
    BY <1>1, <1>2, <1>4
  <2>2. place[i] \in Nat /\ i \in Nat /\ j \in Nat
    BY <1>1, <1>3, <1>4
  <2> QED
    BY <1>2, <2>1, <2>2
<1>6. \A i \in DOMAIN building' : IsBuilding(building[place[i]])
  BY <1>4 DEF PageInv, Queue
<1>7. (\A i \in DOMAIN building : IsBuilding(building[i]))'
  BY <1>2, <1>4, <1>6
<1>8. \A i, j \in DOMAIN building' : i < j => snapshot[building'[i]] <= snapshot[building'[j]]
  BY <1>2, <1>4 DEF PageInv, Queue
<1>9. \A i \in DOMAIN building' : \A f \in Files : site[f] <= snapshot[building'[i]]
  BY <1>2, <1>4 DEF PageInv, Queue
<1>10. Queue'
  BY <1>5, <1>7, <1>8, <1>9 DEF Queue
<1> QED
  BY <1>2, <1>4, <1>10

LEMMA NextPages == PageInv /\ [Next]_vars => PageInv'
<1> SUFFICES ASSUME PageInv, [Next]_vars PROVE (Queue /\ Bounded /\ Copying)'
  BY NextRows DEF PageInv
<1>0. TypeOK /\ articles \in Nat /\ \A r \in Runs : r \in Nat
  BY BuilderAssumption DEF PageInv, RowInv, TypeOK, Runs
<1>a. Manuals \intersect Runs = {} /\ Builders = Runs \union Manuals
  BY ManualAssumption DEF Runs, Builders
<1>1. CASE SaveArticles
  BY <1>0, <1>1, PageFrame DEF SaveArticles, IsBuilding
<1>2. CASE NotScheduled \/ Schedule \/ ScheduleQueues
  BY <1>0, <1>2, PageFrame DEF NotScheduled, Schedule, ScheduleQueues, IsBuilding
<1>3. CASE ScheduleStartsTimer
  <2>1. runId \in Runs /\ timer[runId] = "none" /\ timer' = [timer EXCEPT ![runId] = "sleeping"]
    BY <1>3 DEF ScheduleStartsTimer, PageInv, RowInv, Handing
  <2>2. \A r \in Runs : timer'[r] = "building" <=> timer[r] = "building"
    BY <1>0, <2>1 DEF TypeOK
  <2>3. \A b \in Builders : IsBuilding(b)' <=> IsBuilding(b)
    BY <1>3, <2>2 DEF ScheduleStartsTimer, IsBuilding
  <2> QED
    BY <1>0, <1>3, <2>2, <2>3, PageFrame DEF ScheduleStartsTimer
<1>4. ASSUME NEW r \in Runs, Wake(r) \/ Settle(r) PROVE (Queue /\ Bounded /\ Copying)'
  <2>1. \A q \in Runs : timer'[q] = "building" <=> timer[q] = "building"
    BY <1>0, <1>4 DEF Wake, Settle, TypeOK
  <2>2. \A b \in Builders : IsBuilding(b)' <=> IsBuilding(b)
    BY <1>4, <2>1 DEF Wake, Settle, IsBuilding
  <2> QED
    BY <1>0, <1>4, <2>1, <2>2, PageFrame DEF Wake, Settle
<1>5. ASSUME NEW r \in Runs, TimerBuilds(r) PROVE (Queue /\ Bounded /\ Copying)'
  <2>1. r <= articles
    BY <1>0, <1>5 DEF TimerBuilds, PageInv, RowInv, Handing
  <2>2. ~ IsBuilding(r) /\ IsBuilding(r)'
    BY <1>0, <1>5 DEF TimerBuilds, IsBuilding, TypeOK
  <2>3. \A q \in Runs \ {r} : timer'[q] = "building" <=> timer[q] = "building"
    BY <1>0, <1>5 DEF TimerBuilds, TypeOK
  <2>4. \A b \in Builders \ {r} : IsBuilding(b)' <=> IsBuilding(b)
    BY <1>5, <2>3 DEF TimerBuilds, IsBuilding
  <2> QED
    BY <1>a, <1>5, <2>1, <2>2, <2>3, <2>4, ReadsPages DEF TimerBuilds
<1>6. ASSUME NEW m \in Manuals, Reads(m), LoopFree, manual[m] # "building",
             manual' = [manual EXCEPT ![m] = "building"],
             UNCHANGED <<articles, timer, copying, left, site>>
      PROVE  (Queue /\ Bounded /\ Copying)'
  <2>1. m \in Builders /\ m \notin Runs
    BY <1>a
  <2>2. ~ IsBuilding(m) /\ IsBuilding(m)'
    BY <1>0, <1>6, <2>1 DEF IsBuilding, TypeOK
  <2>3. \A b \in Builders \ {m} : IsBuilding(b)' <=> IsBuilding(b)
    BY <1>0, <1>6 DEF IsBuilding, TypeOK
  <2> QED
    BY <1>6, <2>1, <2>2, <2>3, ReadsPages
<1>7. ASSUME NEW m \in Manuals, BuildNow(m) PROVE (Queue /\ Bounded /\ Copying)'
  <2>1. CASE manual' = [manual EXCEPT ![m] = "superseding"] /\ UNCHANGED <<building, snapshot>>
    <3>1. \A b \in Builders : IsBuilding(b)' <=> IsBuilding(b)
      BY <1>0, <1>7, <2>1 DEF BuildNow, IsBuilding, TypeOK
    <3> QED
      BY <1>0, <1>7, <2>1, <3>1, PageFrame DEF BuildNow
  <2>2. CASE manual' = [manual EXCEPT ![m] = "building"] /\ Reads(m)
    BY <1>6, <1>7, <2>2 DEF BuildNow
  <2> QED
    BY <1>7, <2>1, <2>2 DEF BuildNow
<1>8. ASSUME NEW m \in Manuals, BuildNowBuilds(m) PROVE (Queue /\ Bounded /\ Copying)'
  BY <1>6, <1>8 DEF BuildNowBuilds
<1>9. ASSUME NEW b \in Builders, StartCopy(b) PROVE (Queue /\ Bounded /\ Copying)'
  <2>1. \A c \in Builders : IsBuilding(c)' <=> IsBuilding(c)
    BY <1>9 DEF StartCopy, IsBuilding
  <2>2. /\ Queue'
        /\ \A i \in DOMAIN building' :
             building'[i] # b /\ \E k \in DOMAIN building : building'[i] = building[k]
    BY <1>9, <2>1, LeavesQueue DEF StartCopy
  <2>3. Bounded'
    BY <1>9 DEF StartCopy, PageInv, Bounded
  <2>4. 1 \in DOMAIN building /\ building[1] = b /\ building \in Seq(Builders)
    BY <1>0, <1>9 DEF StartCopy, InTurn, TypeOK
  <2>5. \A k \in DOMAIN building : snapshot[b] <= snapshot[building[k]]
    <3> SUFFICES ASSUME NEW k \in DOMAIN building PROVE snapshot[b] <= snapshot[building[k]]
      OBVIOUS
    <3>1. CASE k = 1
      BY <1>0, <2>4, <3>1 DEF TypeOK
    <3>2. CASE k # 1
      <4>1. 1 < k
        BY <2>4, <3>2
      <4> QED
        BY <2>4, <4>1 DEF PageInv, Queue
    <3> QED
      BY <3>1, <3>2
  <2>6. \A f \in Files : site[f] <= snapshot[b]
    BY <2>4 DEF PageInv, Queue
  <2>7. Copying'
    BY <1>9, <2>1, <2>2, <2>5, <2>6 DEF StartCopy, Copying
  <2> QED
    BY <2>2, <2>3, <2>7
<1>10. ASSUME NEW b \in Builders, NEW report \in {"completed", "failed"}, Ends(b, report)
       PROVE  /\ \A c \in Builders \ {b} : IsBuilding(c)' <=> IsBuilding(c)
              /\ \A r \in Runs : timer'[r] = "building" => timer[r] = "building"
  BY <1>0, <1>a, <1>10 DEF Ends, IsBuilding, TypeOK
<1>11. ASSUME NEW b \in Builders, NEW f \in Files, CopyFile(b, f)
       PROVE  (Queue /\ Bounded /\ Copying)'
  <2>1. /\ \A c \in Builders \ {b} : IsBuilding(c)' <=> IsBuilding(c)
        /\ \A r \in Runs : timer'[r] = "building" => timer[r] = "building"
    BY <1>10, <1>11 DEF CopyFile, IsBuilding
  <2>2. /\ \A i \in DOMAIN building : building[i] # b /\ snapshot[b] <= snapshot[building[i]]
        /\ \A g \in Files : g \notin left => site[g] = snapshot[b]
        /\ snapshot[b] <= articles
    BY <1>11 DEF CopyFile, PageInv, Copying, Bounded
  <2>3. \A g \in Files : site'[g] = IF g = f THEN snapshot[b] ELSE site[g]
    BY <1>0, <1>11 DEF CopyFile, TypeOK
  <2>4. \A i \in DOMAIN building : building[i] \in Builders
    BY <1>0 DEF TypeOK
  <2>5. Queue'
    BY <1>11, <2>1, <2>2, <2>3, <2>4 DEF CopyFile, PageInv, Queue
  <2>6. Bounded'
    BY <1>11, <2>1, <2>2, <2>3 DEF CopyFile, PageInv, Bounded
  <2>7. Copying'
    <3>1. CASE left = {f}
      BY <1>11, <3>1 DEF CopyFile, Copying
    <3>2. CASE left # {f}
      <4>1. /\ copying' = {b} /\ left' = left \ {f} /\ UNCHANGED <<building, snapshot>>
            /\ IsBuilding(b)' <=> IsBuilding(b)
        BY <1>11, <3>2 DEF CopyFile, IsBuilding
      <4>2. IsBuilding(b)
        BY <1>11 DEF CopyFile, PageInv, Copying
      <4>3. \A g \in Files : site'[g] <= snapshot[b]
        BY <1>0, <1>11, <2>3 DEF CopyFile, PageInv, Copying, TypeOK
      <4>4. \A g \in Files : g \notin left' => site'[g] = snapshot[b]
        BY <2>2, <2>3, <4>1
      <4> QED
        BY <2>2, <4>1, <4>2, <4>3, <4>4 DEF Copying
    <3> QED
      BY <3>1, <3>2
  <2> QED
    BY <2>5, <2>6, <2>7
<1>12. ASSUME NEW b \in Builders, building' = Without(building, b), copying' = {},
              UNCHANGED <<articles, snapshot, site>>,
              \A c \in Builders \ {b} : IsBuilding(c)' <=> IsBuilding(c),
              \A r \in Runs : timer'[r] = "building" => timer[r] = "building"
       PROVE  (Queue /\ Bounded /\ Copying)'
  <2>1. Queue'
    BY <1>12, LeavesQueue
  <2>2. Bounded'
    BY <1>12 DEF PageInv, Bounded
  <2> QED
    BY <1>12, <2>1, <2>2 DEF Copying
<1>13. ASSUME NEW b \in Builders, BuildRaises(b) PROVE (Queue /\ Bounded /\ Copying)'
  <2>1. Raises(b)
    BY <1>13 DEF BuildRaises
  <2> QED
    BY <1>10, <1>12, <2>1 DEF Raises
<1>14. ASSUME NEW r \in Runs, DeliverCancel(r) PROVE (Queue /\ Bounded /\ Copying)'
  <2>1. \A q \in Runs : q # r => timer'[q] = timer[q]
    BY <1>0, <1>14 DEF DeliverCancel, TypeOK
  <2>2. timer'[r] = "done"
    BY <1>0, <1>14 DEF DeliverCancel, TypeOK
  <2>3. \A c \in Builders \ {r} : IsBuilding(c)' <=> IsBuilding(c)
    BY <1>14, <2>1 DEF DeliverCancel, IsBuilding
  <2>4. copying' = {}
    BY <1>14 DEF DeliverCancel, LoopFree
  <2> QED
    BY <1>a, <1>12, <1>14, <2>1, <2>2, <2>3, <2>4 DEF DeliverCancel
<1>15. CASE Crash
  <2>1. \A r \in Runs : timer'[r] # "building"
    BY <1>15 DEF Crash
  <2>2. building' = <<>> /\ copying' = {} /\ UNCHANGED <<articles, snapshot, site>>
    BY <1>15 DEF Crash
  <2> QED
    BY <2>1, <2>2 DEF PageInv, Queue, Bounded, Copying
<1>16. CASE Quiet \/ UNCHANGED vars
  BY <1>0, <1>16, PageFrame DEF Quiet, vars, loop, IsBuilding
<1> QED
  BY <1>1, <1>2, <1>3, <1>4, <1>5, <1>7, <1>8, <1>9, <1>11, <1>13, <1>14, <1>15,
     <1>16 DEF Next, LoopStep
LEMMA PageInvariance == Spec => []PageInv
BY InitPages, NextPages, PTL DEF Spec

(* The state of the builder keeps its types, for any runs, calls of the    *)
(* API, files, failures and crashes.                                       *)
THEOREM TypeCorrect == Spec => []TypeOK
<1>1. RowInv => TypeOK
  BY DEF RowInv
<1> QED
  BY <1>1, RowInvariance, PTL

(* A row that says queued or running belongs to a live build, until the    *)
(* process dies.                                                           *)
THEOREM QueuedHasLiveBuildAlways == Spec => []QueuedHasLiveBuild
<1>1. RowInv => QueuedHasLiveBuild
  BY DEF RowInv
<1> QED
  BY <1>1, RowInvariance, PTL

(* Only a copy changes a page, and it never makes it older.                *)
LEMMA PagesGrow ==
  ASSUME PageInv, [Next]_vars
  PROVE  \A f \in Files : site'[f] >= site[f]
<1>1. site \in [Files -> 0..NumRuns] /\ snapshot \in [Builders -> 0..NumRuns] /\ NumRuns \in Nat
  BY BuilderAssumption DEF PageInv, RowInv, TypeOK
<1>2. ASSUME NEW b \in Builders, NEW g \in Files, CopyFile(b, g)
      PROVE  \A f \in Files : site'[f] >= site[f]
  <2>1. site[g] <= snapshot[b] /\ site' = [site EXCEPT ![g] = snapshot[b]]
    BY <1>2 DEF CopyFile, PageInv, Copying
  <2> QED
    BY <1>1, <2>1
<1>3. CASE site' = site
  BY <1>1, <1>3
<1>4. CASE SaveArticles \/ NotScheduled \/ Schedule \/ ScheduleQueues \/ ScheduleStartsTimer \/ Crash
  BY <1>3, <1>4 DEF SaveArticles, NotScheduled, Schedule, ScheduleQueues, ScheduleStartsTimer, Crash
<1>5. ASSUME NEW r \in Runs, Wake(r) \/ TimerBuilds(r) \/ Settle(r) \/ DeliverCancel(r)
      PROVE  site' = site
  BY <1>5 DEF Wake, TimerBuilds, Settle, DeliverCancel
<1>6. ASSUME NEW m \in Manuals, BuildNow(m) \/ BuildNowBuilds(m) PROVE site' = site
  BY <1>6 DEF BuildNow, BuildNowBuilds
<1>7. ASSUME NEW b \in Builders, StartCopy(b) \/ BuildRaises(b) PROVE site' = site
  BY <1>7 DEF StartCopy, BuildRaises, Raises
<1>8. CASE Quiet \/ UNCHANGED vars
  BY <1>3, <1>8 DEF Quiet, vars
<1> QED
  BY <1>2, <1>3, <1>4, <1>5, <1>6, <1>7, <1>8 DEF Next, LoopStep

(* No page goes back to an older state, however builds overlap and         *)
(* whenever they are cancelled, fail or die between two files.             *)
THEOREM SiteNeverRegressesAlways == Spec => SiteNeverRegresses
<1>1. PageInv /\ [Next]_vars => [\A f \in Files : site'[f] >= site[f]]_vars
  BY PagesGrow
<1> QED
  BY <1>1, PageInvariance, PTL DEF Spec, SiteNeverRegresses

-----------------------------------------------------------------------------
(* Published is what the oldest page accounts for.                         *)
LEMMA LeastPage ==
  ASSUME NEW pages \in [Files -> Nat]
  PROVE  LET least == Min({pages[f] : f \in Files})
         IN  least \in Nat /\ (\A f \in Files : least <= pages[f])
             /\ \E f \in Files : least = pages[f]
<1> DEFINE S == {pages[f] : f \in Files}
<1>1. S \subseteq Nat /\ S # {}
  BY BuilderAssumption
<1>2. Min(S) \in S /\ \A x \in S : Min(S) <= x
  <2> HIDE DEF S
  <2> QED
    BY <1>1, MinIsLeast
<1> QED
  BY <1>1, <1>2

(* What a step makes of Published: it may grow, up to the database.        *)
LEMMA PublishedAdvances ==
  ASSUME PageInv, PageInv', [Next]_vars
  PROVE  Published \in Nat /\ Published' \in Published..articles'
<1>1. site \in [Files -> Nat] /\ site' \in [Files -> Nat] /\ articles' \in Nat
  BY BuilderAssumption DEF PageInv, RowInv, TypeOK
<1>2. Published \in Nat /\ \A f \in Files : Published <= site[f]
  BY <1>1, LeastPage DEF Published
<1>3. Published' \in Nat /\ \E f \in Files : Published' = site'[f]
  BY <1>1, LeastPage DEF Published
<1>4. \A f \in Files : site'[f] >= site[f] /\ site'[f] <= articles'
  BY PagesGrow DEF PageInv, Bounded
<1> QED
  BY <1>1, <1>2, <1>3, <1>4
(* Every step of the builder is one that Publication allows: of the six    *)
(* words a row can say, each comes from the right one before, and done     *)
(* only when every file accounts for the run.                              *)
LEMMA StepImplements ==
  ASSUME PageInv, PageInv', [Next]_vars
  PROVE  [P!Next]_(P!vars)
<1>0. /\ Published \in Nat /\ Published' \in Published..articles'
      /\ status \in [Runs -> Statuses] /\ timer \in [Runs -> TimerStates]
      /\ site \in [Files -> 0..NumRuns]
      /\ site' \in [Files -> Nat] /\ articles \in 0..NumRuns /\ NumRuns \in Nat
  BY PublishedAdvances, BuilderAssumption DEF PageInv, RowInv, TypeOK
<1>1. ASSUME UNCHANGED <<articles, status>> PROVE P!Publish
  BY <1>0, <1>1 DEF P!Publish, P!Advance
<1>2. UNCHANGED site => Published' = Published
  BY DEF Published
<1>3. ASSUME SaveArticles PROVE P!Save
  BY <1>2, <1>3 DEF SaveArticles, P!Save
<1>4. ASSUME Supersede, UNCHANGED <<articles, site>>
      PROVE  P!Publish \/ \E r \in Runs : P!Supersede(r)
  <2>1. CASE status' = status
    BY <1>1, <1>4, <2>1
  <2>2. CASE runId \in Runs /\ status[runId] # "none" /\ status' = [status EXCEPT ![runId] = "superseded"]
    BY <1>0, <1>2, <1>4, <2>2 DEF P!Supersede, P!Becomes, Statuses
  <2> QED
    BY <1>4, <2>1, <2>2 DEF Supersede, Notified, RowStatus
<1>5. ASSUME Enqueue, sched \in {"saved", "superseding"}, UNCHANGED <<articles, site>>
      PROVE  \E r \in Runs : P!Queue(r)
  <2>1. articles \in Runs /\ status[articles] = "none"
    BY <1>5 DEF PageInv, RowInv, Handing
  <2>2. status' = [status EXCEPT ![articles] = "queued"]
    BY <1>5, <2>1 DEF Enqueue, Notified, RowStatus
  <2>3. P!Queue(articles)
    BY <1>0, <1>2, <1>5, <2>1, <2>2 DEF P!Queue, P!Becomes
  <2> QED
    BY <2>1, <2>3
<1>6. ASSUME Schedule PROVE P!Publish \/ \E r \in Runs : P!Supersede(r) \/ P!Queue(r)
  BY <1>4, <1>5, <1>6 DEF Schedule
<1>7. ASSUME ScheduleQueues PROVE \E r \in Runs : P!Queue(r)
  BY <1>5, <1>7 DEF ScheduleQueues
<1>8. ASSUME NEW r \in Runs, Wake(r) PROVE P!Start(r)
  <2>1. status[r] = "queued"
    BY <1>8 DEF Wake, PageInv, RowInv, Rows, RowOf, Live
  <2>2. status' = [status EXCEPT ![r] = "running"]
    BY <1>8, <2>1 DEF Wake, Notified, RowStatus
  <2> QED
    BY <1>2, <1>8, <2>1, <2>2 DEF Wake, P!Start, P!Becomes
<1>9. ASSUME NEW m \in Manuals, BuildNow(m) PROVE P!Publish \/ \E r \in Runs : P!Supersede(r)
  BY <1>1, <1>4, <1>9 DEF BuildNow
<1>10. ASSUME NEW b \in Builders, b \in copying \/ (IsBuilding(b) /\ b \notin cancelled), b \in Runs
       PROVE  status[b] = "running" /\ timer[b] = "building"
  <2>1. Live(b) /\ timer[b] = "building"
    BY <1>10 DEF PageInv, RowInv, TimerInv, IsBuilding, Live
  <2> QED
    BY <1>10, <2>1 DEF PageInv, RowInv, Rows, RowOf
<1>11. ASSUME NEW b \in Builders, BuildRaises(b) PROVE P!Publish \/ \E r \in Runs : P!Fail(r)
  <2>1. status' = Notified(b, "failed") /\ UNCHANGED <<articles, site>>
    BY <1>11 DEF BuildRaises, Raises, Ends
  <2>2. CASE b \notin Runs
    BY <1>1, <2>1, <2>2 DEF Notified
  <2>3. CASE b \in Runs
    <3>1. status[b] = "running"
      BY <1>10, <1>11, <2>3 DEF BuildRaises
    <3>2. status' = [status EXCEPT ![b] = "failed"]
      BY <2>1, <2>3, <3>1 DEF Notified, RowStatus
    <3> QED
      BY <1>2, <2>1, <2>3, <3>1, <3>2 DEF P!Fail, P!Becomes
  <2> QED
    BY <2>2, <2>3
<1>12. ASSUME NEW b \in Builders, NEW f \in Files, CopyFile(b, f)
       PROVE  P!Publish \/ \E r \in Runs : P!Finish(r)
  <2>1. CASE left # {f} \/ b \notin Runs
    <3>1. UNCHANGED <<articles, status>>
      BY <1>12, <2>1 DEF CopyFile, Ends, Notified
    <3> QED
      BY <1>1, <3>1
  <2>2. CASE left = {f} /\ b \in Runs
    <3>1. status[b] = "running" /\ b <= snapshot[b]
      BY <1>10, <1>12, <2>2 DEF CopyFile, PageInv, Bounded
    <3>2. status' = [status EXCEPT ![b] = "done"]
      BY <1>12, <2>2, <3>1 DEF CopyFile, Ends, Notified, RowStatus
    <3>3. \A g \in Files : site'[g] = snapshot[b]
      BY <1>0, <1>12, <2>2 DEF CopyFile, PageInv, Copying
    <3>4. \E g \in Files : Published' = site'[g]
      BY <1>0, LeastPage DEF Published
    <3>5. b <= Published'
      BY <3>1, <3>3, <3>4
    <3>6. articles' = articles
      BY <1>12 DEF CopyFile
    <3> QED
      BY <1>0, <2>2, <3>1, <3>2, <3>5, <3>6 DEF P!Finish, P!Becomes, P!Advance
  <2> QED
    BY <2>1, <2>2
<1>13. ASSUME NotScheduled \/ ScheduleStartsTimer \/ Crash \/ Quiet \/ UNCHANGED vars
       PROVE  P!Publish
  BY <1>1, <1>13 DEF NotScheduled, ScheduleStartsTimer, Crash, Quiet, vars
<1>14. ASSUME NEW r \in Runs, TimerBuilds(r) \/ Settle(r) \/ DeliverCancel(r) PROVE P!Publish
  BY <1>1, <1>14 DEF TimerBuilds, Settle, DeliverCancel
<1>15. ASSUME NEW m \in Manuals, BuildNowBuilds(m) PROVE P!Publish
  BY <1>1, <1>15 DEF BuildNowBuilds
<1>16. ASSUME NEW b \in Builders, StartCopy(b) PROVE P!Publish
  BY <1>1, <1>16 DEF StartCopy
<1>17. P!Runs = Runs
  BY DEF P!Runs, Runs
<1> QED
  BY <1>3, <1>6, <1>7, <1>8, <1>9, <1>11, <1>12, <1>13, <1>14, <1>15, <1>16, <1>17
  DEF Next, LoopStep, P!Next

(* The builder implements Publication: whatever is cancelled, superseded,  *)
(* failed or interrupted, the site only moves forward, and a run whose row *)
(* says done is on every page.                                             *)
THEOREM ImplementsPublication == Spec => PublicationSpec
<1>1. Init => P!Init
  <2> SUFFICES ASSUME Init PROVE P!Init
    OBVIOUS
  <2>1. site \in [Files -> Nat] /\ \A f \in Files : site[f] = 0
    BY DEF Init
  <2>2. Published = 0
    BY <2>1, LeastPage DEF Published
  <2> QED
    BY <2>2 DEF Init, P!Init, Runs, P!Runs
<1>2. PageInv /\ PageInv' /\ [Next]_vars => [P!Next]_(P!vars)
  BY StepImplements
<1> QED
  BY <1>1, <1>2, PageInvariance, PTL DEF Spec, PublicationSpec, P!Spec
=============================================================================
