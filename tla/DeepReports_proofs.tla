------------------------- MODULE DeepReports_proofs -------------------------
(* Proofs about DeepReports, for any set of repositories, commits, old      *)
(* reports and rebuild processes, and without its bounds.                   *)
EXTENDS DeepReports, FiniteSetTheorems, Integers, TLAPS

V2Of(S, r) == \E x \in S : x.repo = r /\ x.version = 2
DoneOf(S, r) == \E x \in S : x.repo = r /\ x.version = 2 /\ Completed(x)

Kept == \A x \in reports : x.version = 2 /\ Completed(x) =>
          \E y \in reports' : /\ y.repo = x.repo /\ y.commit = x.commit
                              /\ y.version = 2 /\ Completed(y)

-----------------------------------------------------------------------------
(* The inductive invariant.  A batch that will switch the version has, for  *)
(* every repository with an old report, a row of version 2 behind it or an  *)
(* old row before it; rows of version 2 may be replaced and failed ones     *)
(* deleted, but a cleanup only follows a completed one.                     *)

Versions ==
  /\ publicVersion = 1 => LegacyRows \subseteq reports
  /\ publicVersion = 2 => /\ \A x \in reports : x.version = 2
                          /\ \A r \in LegacyRepos : V2Of(reports, r)

Progress ==
  \A p \in Rebuilders :
    batch[p].all /\ publicVersion = 1 =>
      \A r \in LegacyRepos :
        \/ V2Of(reports, r)
        \/ \E x \in batch[p].rows : x.repo = r
        \/ attempt[p].pc \in Working /\ attempt[p].repo = r

Cleanable ==
  \A a \in Actors : attempt[a].pc = "cleanup" => DoneOf(reports, attempt[a].repo)

IInv == Tables /\ Versions /\ Progress /\ Cleanable

-----------------------------------------------------------------------------
(* Saving a report keeps every row of version 1, a row of version 2 of      *)
(* every repository that has one and every completed report, and leaves a   *)
(* row of the attempt's repository.                                         *)
LEMMA SaveKeeps ==
  ASSUME NEW a \in Actors, NEW status \in {"completed", "failed"}, Save(a, status)
  PROVE  /\ \A x \in reports : x.version # 2 => x \in reports'
         /\ \A y \in reports' : y \in reports \/ y.version = 2
         /\ \A r : V2Of(reports, r) => V2Of(reports', r)
         /\ V2Of(reports', attempt[a].repo)
         /\ Kept
         /\ status = "completed" => DoneOf(reports', attempt[a].repo)
<1> DEFINE same == {x \in reports : /\ x.repo = attempt[a].repo
                                    /\ x.commit = attempt[a].commit /\ x.version = 2}
           new == Row(attempt[a].repo, attempt[a].commit, 2, status, Writer(a),
                      IF status = "completed" THEN now ELSE 0)
<1>1. /\ new.repo = attempt[a].repo /\ new.commit = attempt[a].commit
      /\ new.version = 2 /\ new.status = status
  BY DEF Row
<1>2. CASE status = "failed" /\ \E x \in same : Completed(x)
  <2>1. reports' = reports
    BY <1>2 DEF Save
  <2> QED
    BY <1>2, <2>1 DEF V2Of, DoneOf, Kept, Completed
<1>3. CASE ~ (status = "failed" /\ \E x \in same : Completed(x))
  <2>1. reports' = (reports \ same) \union {new}
    BY <1>3 DEF Save
  <2> HIDE DEF new
  <2>2. Kept
    <3> SUFFICES ASSUME NEW x \in reports, x.version = 2, Completed(x)
                 PROVE  \E y \in reports' : /\ y.repo = x.repo /\ y.commit = x.commit
                                            /\ y.version = 2 /\ Completed(y)
      BY DEF Kept
    <3>1. CASE x \in same
      BY <1>1, <1>3, <2>1, <3>1 DEF Completed
    <3>2. CASE x \notin same
      BY <2>1, <3>2
    <3> QED  BY <3>1, <3>2
  <2>3. \A r : V2Of(reports, r) => V2Of(reports', r)
    BY <1>1, <2>1 DEF V2Of
  <2>4. V2Of(reports', attempt[a].repo)
    BY <1>1, <2>1 DEF V2Of
  <2>5. status = "completed" => DoneOf(reports', attempt[a].repo)
    BY <1>1, <2>1 DEF DoneOf, Completed
  <2>6. \A x \in reports : x.version # 2 => x \in reports'
    BY <2>1
  <2>7. \A y \in reports' : y \in reports \/ y.version = 2
    BY <1>1, <2>1
  <2> QED
    BY <2>2, <2>3, <2>4, <2>5, <2>6, <2>7
<1> QED  BY <1>2, <1>3

(* The deletion of failed rows keeps completed reports, and a row of        *)
(* version 2 of every repository when the attempt's has a completed one.    *)
LEMMA DeleteKeeps ==
  ASSUME NEW a \in Actors, DeleteFailed(a), DoneOf(reports, attempt[a].repo)
  PROVE  /\ \A x \in reports : x.version # 2 => x \in reports'
         /\ reports' \subseteq reports
         /\ \A r : V2Of(reports, r) => V2Of(reports', r)
         /\ V2Of(reports', attempt[a].repo)
         /\ Kept
<1>1. \A x \in reports : x.version # 2 => x \in reports'
  BY DEF DeleteFailed
<1>2. reports' \subseteq reports
  BY DEF DeleteFailed
<1>3. V2Of(reports', attempt[a].repo)
  BY DEF DeleteFailed, V2Of, DoneOf
<1>4. \A r : V2Of(reports, r) => V2Of(reports', r)
  BY <1>3 DEF DeleteFailed, V2Of
<1>5. Kept
  BY DEF DeleteFailed, Kept
<1> QED  BY <1>1, <1>2, <1>3, <1>4, <1>5

(* A repository with a completed report still has one.                      *)
LEMMA DoneStays ==
  ASSUME Kept, NEW r, DoneOf(reports, r)
  PROVE  DoneOf(reports', r)
BY DEF Kept, DoneOf

LEMMA LegacyIsOld ==
  /\ LegacyRows \subseteq RowType
  /\ \A x \in LegacyRows : /\ x.version = 1 /\ Completed(x)
                           /\ x.repo \in LegacyRepos /\ x.commit \in Commits
  /\ \A r \in LegacyRepos : \E x \in LegacyRows : x.repo = r
  /\ \A x, y \in LegacyRows : x.repo = y.repo /\ x.commit = y.commit => x = y
<1> DEFINE row(l) == Row(l[1], l[2], 1, "completed", "run", 0)
<1>1. \A l \in Legacy : l[1] \in Repos /\ l[2] \in Commits
  BY LegacyAssumption
<1>2. \A l \in Legacy : /\ row(l) \in RowType
                        /\ row(l).repo = l[1] /\ row(l).commit = l[2]
                        /\ row(l).version = 1 /\ Completed(row(l))
  BY <1>1 DEF RowType, Row, Completed
<1>3. \A k, l \in Legacy : k[1] = l[1] /\ k[2] = l[2] => row(k) = row(l)
  OBVIOUS
<1>4. LegacyRows = {row(l) : l \in Legacy}
  BY DEF LegacyRows
<1> HIDE DEF row
<1> QED  BY <1>1, <1>2, <1>3, <1>4 DEF LegacyRepos

-----------------------------------------------------------------------------
LEMMA InitIInv == Init => IInv
<1> SUFFICES ASSUME Init PROVE IInv
  OBVIOUS
<1>1. Tables
  <2>1. \A x \in reports : x.commit # None
    BY LegacyIsOld, NoneAssumption DEF Init
  <2>2. Idle \in AttemptType /\ Idle.pc \notin Working /\ Idle.pc = "idle"
    BY DEF Idle, AttemptType, Working
  <2>3. NoBatch \in [rows : SUBSET RowType, all : BOOLEAN]
    BY DEF NoBatch
  <2> QED
    BY <2>1, <2>2, <2>3, LegacyIsOld, QuotaAssumption DEF Init, Tables
<1>2. Versions
  BY DEF Init, Versions
<1>3. Progress
  BY DEF Init, Progress, NoBatch
<1>4. Cleanable
  BY DEF Init, Cleanable, Idle
<1> QED  BY <1>1, <1>2, <1>3, <1>4 DEF IInv

(* A row that is saved has the type of a row, and replaces the one of its   *)
(* key.                                                                     *)
LEMMA SaveType ==
  ASSUME Tables, NEW a \in Actors, NEW status \in {"completed", "failed"},
         Save(a, status), attempt[a].repo # None,
         status = "completed" => attempt[a].commit # None
  PROVE  /\ reports' \subseteq RowType
         /\ \A x, y \in reports' :
              x.repo = y.repo /\ x.commit = y.commit /\ x.version = y.version => x = y
         /\ \A x \in reports' : Completed(x) => x.commit # None
<1> DEFINE same == {x \in reports : /\ x.repo = attempt[a].repo
                                    /\ x.commit = attempt[a].commit /\ x.version = 2}
           new == Row(attempt[a].repo, attempt[a].commit, 2, status, Writer(a),
                      IF status = "completed" THEN now ELSE 0)
<1>1. CASE reports' = reports
  BY <1>1 DEF Tables
<1>2. CASE reports' = (reports \ same) \union {new}
  <2>1. attempt[a] \in AttemptType /\ now \in Nat
    BY DEF Tables
  <2>2. /\ new \in RowType
        /\ new.repo = attempt[a].repo /\ new.commit = attempt[a].commit
        /\ new.version = 2 /\ new.status = status
    BY <2>1 DEF Row, RowType, AttemptType, Writer
  <2> HIDE DEF new
  <2>3. reports' \subseteq RowType
    BY <1>2, <2>2 DEF Tables
  <2>4. \A x, y \in reports' :
          x.repo = y.repo /\ x.commit = y.commit /\ x.version = y.version => x = y
    BY <1>2, <2>2 DEF Tables
  <2>5. \A x \in reports' : Completed(x) => x.commit # None
    BY <1>2, <2>2 DEF Tables, Completed
  <2> QED  BY <2>3, <2>4, <2>5
<1> QED  BY <1>1, <1>2 DEF Save

(* The attempt of an actor may take any record of the type.                 *)
LEMMA OverType ==
  ASSUME Tables, NEW a \in Actors, Over(a)
  PROVE  /\ attempt' \in [Actors -> AttemptType]
         /\ attempt'[a].pc \in {"idle", "check"}
         /\ \A b \in Actors \ {a} : attempt'[b] = attempt[b]
<1>1. Idle \in AttemptType /\ Idle.pc = "idle"
  BY DEF Idle, AttemptType
<1>2. CASE a = Run
  BY <1>1, <1>2 DEF Over, Tables
<1>3. CASE a # Run
  BY <1>3 DEF Over, Goto, Tables, AttemptType
<1> QED  BY <1>2, <1>3

(* Moving an attempt on changes its place in the code and nothing else.    *)
LEMMA GotoType ==
  ASSUME attempt \in [Actors -> AttemptType], NEW a \in Actors,
         NEW pc \in Working \union {"idle", "pick", "next", "check"}, Goto(a, pc)
  PROVE  /\ attempt' \in [Actors -> AttemptType]
         /\ attempt'[a].pc = pc
         /\ attempt'[a].repo = attempt[a].repo /\ attempt'[a].commit = attempt[a].commit
         /\ \A b \in Actors \ {a} : attempt'[b] = attempt[b]
<1>1. attempt[a] \in AttemptType
  OBVIOUS
<1>2. [attempt[a] EXCEPT !.pc = pc] \in AttemptType
  BY <1>1 DEF AttemptType
<1>3. attempt' = [attempt EXCEPT ![a] = [attempt[a] EXCEPT !.pc = pc]]
  BY DEF Goto
<1>4. attempt'[a] = [attempt[a] EXCEPT !.pc = pc]
  BY <1>3
<1>5. /\ attempt' \in [Actors -> AttemptType]
      /\ \A b \in Actors \ {a} : attempt'[b] = attempt[b]
  BY <1>2, <1>3
<1> QED  BY <1>1, <1>4, <1>5 DEF AttemptType

LEMMA TypeStep == Tables /\ [Next]_vars => Tables'
<1> SUFFICES ASSUME Tables, [Next]_vars PROVE Tables'
  OBVIOUS
<1> USE DEF Completed
<1>1. /\ Idle \in AttemptType /\ Idle.pc = "idle"
      /\ NoBatch \in [rows : SUBSET RowType, all : BOOLEAN]
  BY DEF Idle, AttemptType, NoBatch
<1>2. Run \in Actors /\ Rebuilders \subseteq Actors
  BY DEF Actors
<1>3. CASE StageStarts
  <2>1. CASE UNCHANGED attempt
    BY <1>3, <2>1 DEF StageStarts, Tables
  <2>2. CASE Goto(Run, "pick")
    <3>1. /\ attempt' \in [Actors -> AttemptType] /\ attempt'[Run].pc = "pick"
          /\ \A b \in Actors \ {Run} : attempt'[b] = attempt[b]
      BY <1>2, <2>2, GotoType DEF Tables
    <3> QED  BY <1>3, <3>1 DEF StageStarts, Tables, Working
  <2> QED  BY <1>3, <2>1, <2>2 DEF StageStarts
<1>4. CASE PickNone
  BY <1>1, <1>2, <1>4 DEF PickNone, Tables, Working
<1>5. CASE Tick
  BY <1>5 DEF Tick, Tables
<1>6. ASSUME NEW r \in Repos, Pick(r) PROVE Tables'
  BY <1>2, <1>6, NoneAssumption DEF Pick, Tables, AttemptType, Working
<1>7. ASSUME NEW a \in Actors, Attempt(a) PROVE Tables'
  <2>1. CASE CloneDone(a)
    <3>1. PICK c \in Commits :
            attempt' = [attempt EXCEPT ![a].pc = "analyze", ![a].commit = c]
      BY <2>1 DEF CloneDone
    <3> DEFINE next == [attempt[a] EXCEPT !.pc = "analyze", !.commit = c]
    <3>a. attempt' = [attempt EXCEPT ![a] = next]
      BY <3>1
    <3>b. attempt[a] \in AttemptType
      BY DEF Tables
    <3>c. next \in AttemptType /\ next.commit = c /\ next.repo = attempt[a].repo
      BY <3>b DEF AttemptType, Working
    <3> HIDE DEF next
    <3>2. attempt' \in [Actors -> AttemptType]
      BY <3>a, <3>c DEF Tables
    <3>3. /\ attempt'[a].commit = c /\ attempt'[a].repo = attempt[a].repo
          /\ \A b \in Actors \ {a} : attempt'[b] = attempt[b]
      BY <3>a, <3>c DEF Tables
    <3> QED
      BY <2>1, <3>2, <3>3, NoneAssumption DEF CloneDone, Tables, Working
  <2>2. CASE AttemptFails(a)
    BY <2>2 DEF AttemptFails, Goto, Tables, AttemptType, Working
  <2>3. CASE AnalyzeFails(a)
    BY <2>3 DEF AnalyzeFails, Goto, Tables, AttemptType, Working
  <2>4. CASE SaveCompleted(a)
    <3>1. /\ reports' \subseteq RowType
          /\ \A x, y \in reports' :
               x.repo = y.repo /\ x.commit = y.commit /\ x.version = y.version => x = y
          /\ \A x \in reports' : Completed(x) => x.commit # None
      BY <2>4, SaveType DEF SaveCompleted, Tables, Working
    <3>2. CASE a = Run
      BY <2>4, <3>1, <3>2, OverType DEF SaveCompleted, Tables, Working
    <3>3. CASE a # Run
      <4>1. /\ attempt' \in [Actors -> AttemptType] /\ attempt'[a].pc = "cleanup"
            /\ attempt'[a].repo = attempt[a].repo /\ attempt'[a].commit = attempt[a].commit
            /\ \A b \in Actors \ {a} : attempt'[b] = attempt[b]
        BY <2>4, <3>3, GotoType DEF SaveCompleted, Tables, Working
      <4> QED
        BY <2>4, <3>1, <4>1 DEF SaveCompleted, Tables, Working
    <3> QED  BY <3>2, <3>3
  <2>5. CASE Cleanup(a)
    <3>1. reports' \subseteq reports
      BY <2>5 DEF Cleanup, DeleteFailed
    <3> QED
      BY <2>5, <3>1, OverType DEF Cleanup, Tables, Working
  <2>6. CASE SaveRaises(a)
    BY <2>6 DEF SaveRaises, Goto, Tables, AttemptType, Working
  <2>7. CASE SaveFailed(a)
    <3>1. /\ reports' \subseteq RowType
          /\ \A x, y \in reports' :
               x.repo = y.repo /\ x.commit = y.commit /\ x.version = y.version => x = y
          /\ \A x \in reports' : Completed(x) => x.commit # None
      BY <2>7, SaveType DEF SaveFailed, Tables, Working
    <3> QED
      BY <2>7, <3>1, OverType DEF SaveFailed, Tables, Working
  <2>8. CASE SaveFailedRaises(a)
    BY <1>1, <2>8 DEF SaveFailedRaises, Tables, Working
  <2>9. CASE Crash(a)
    BY <1>1, <2>9 DEF Crash, Tables, Working
  <2> QED
    BY <1>7, <2>1, <2>2, <2>3, <2>4, <2>5, <2>6, <2>7, <2>8, <2>9 DEF Attempt
<1>8. ASSUME NEW p \in Rebuilders, Rebuild(p) PROVE Tables'
  <2>1. CASE RebuildStarts(p)
    <3>1. attempt' \in [Actors -> AttemptType] /\ attempt'[p].pc = "next"
            /\ \A b \in Actors \ {p} : attempt'[b] = attempt[b]
      BY <1>2, <2>1 DEF RebuildStarts, Goto, Tables, AttemptType
    <3>2. Old \subseteq RowType /\ \A r \in Repos : OfRepo(r) \subseteq RowType
      BY DEF Old, OfRepo, Tables
    <3>3. batch' \in [Rebuilders -> [rows : SUBSET RowType, all : BOOLEAN]]
      <4>1. CASE \E rows \in SUBSET Old, all \in BOOLEAN :
                   batch' = [batch EXCEPT ![p] = [rows |-> rows, all |-> all]]
        BY <3>2, <4>1 DEF Tables
      <4>2. CASE \E r \in Repos : \E x \in OfRepo(r) :
                   batch' = [batch EXCEPT ![p] = [rows |-> {x}, all |-> FALSE]]
        BY <3>2, <4>2 DEF Tables
      <4> QED
        BY <2>1, <4>1, <4>2 DEF RebuildStarts
    <3> QED
      BY <2>1, <3>1, <3>3 DEF RebuildStarts, Tables, Working
  <2>2. CASE TakeRow(p)
    <3>1. PICK x \in batch[p].rows :
            /\ batch' = [batch EXCEPT ![p].rows = @ \ {x}]
            /\ attempt' = [attempt EXCEPT
                 ![p] = [pc |-> "clone", repo |-> x.repo, commit |-> x.commit]]
      BY <2>2 DEF TakeRow
    <3>2. x \in RowType /\ x.repo \in Repos
      BY DEF Tables, RowType
    <3>3. batch' \in [Rebuilders -> [rows : SUBSET RowType, all : BOOLEAN]]
      BY <3>1 DEF Tables
    <3>4. [pc |-> "clone", repo |-> x.repo, commit |-> x.commit] \in AttemptType
      BY <3>2 DEF RowType, AttemptType, Working
    <3> QED
      BY <1>2, <2>2, <3>1, <3>2, <3>3, <3>4, NoneAssumption DEF TakeRow, Tables, Working
  <2>3. CASE CostLimitReached(p)
    BY <1>1, <1>2, <2>3 DEF CostLimitReached, Tables, Working
  <2>4. CASE RebuildEnds(p)
    <3>1. reports' \subseteq reports /\ publicVersion' \in {1, 2}
      BY <2>4 DEF RebuildEnds, Switch, Tables
    <3> QED
      BY <1>1, <1>2, <2>4, <3>1 DEF RebuildEnds, Tables, Working
  <2>5. CASE SwitchRaises(p)
    BY <1>1, <1>2, <2>5 DEF SwitchRaises, Tables, Working
  <2> QED
    BY <1>8, <2>1, <2>2, <2>3, <2>4, <2>5 DEF Rebuild
<1>9. CASE UNCHANGED vars
  BY <1>9 DEF vars, Tables
<1> QED
  BY <1>3, <1>4, <1>5, <1>6, <1>7, <1>8, <1>9 DEF Next, Operation

-----------------------------------------------------------------------------
(* When the table keeps what matters of it, the parts of the invariant that *)
(* are about it are preserved; what is left is the actors' part.            *)
LEMMA TableKeeps ==
  ASSUME Tables, Versions, Kept, UNCHANGED publicVersion,
         \A x \in reports : x.version # 2 => x \in reports',
         \A y \in reports' : y \in reports \/ y.version = 2,
         \A r : V2Of(reports, r) => V2Of(reports', r)
  PROVE  Versions'
<1>1. publicVersion' = 1 => LegacyRows \subseteq reports'
  BY LegacyIsOld DEF Versions
<1>2. publicVersion' = 2 => /\ \A x \in reports' : x.version = 2
                            /\ \A r \in LegacyRepos : V2Of(reports', r)
  BY DEF Versions
<1> QED  BY <1>1, <1>2 DEF Versions

(* A step that leaves the table alone keeps it.                             *)
LEMMA TableSame ==
  ASSUME Tables, UNCHANGED <<reports, publicVersion>>
  PROVE  /\ Kept
         /\ Versions => Versions'
         /\ \A r : V2Of(reports, r) => V2Of(reports', r)
<1>1. Kept
  BY DEF Kept
<1>2. Versions => Versions'
  BY DEF Versions
<1>3. \A r : V2Of(reports, r) => V2Of(reports', r)
  OBVIOUS
<1> QED  BY <1>1, <1>2, <1>3

(* The steps of an attempt: what it moves on with is behind it in the table *)
(* when it stops working on a repository, unless its batch is given up.     *)
LEMMA AttemptKeeps ==
  ASSUME IInv, NEW a \in Actors, Attempt(a)
  PROVE  /\ Kept /\ Versions'
         /\ Progress' /\ Cleanable'
<1> USE DEF IInv
<1>1. ASSUME Kept, UNCHANGED <<publicVersion, batch>>,
             \A r : V2Of(reports, r) => V2Of(reports', r),
             \A b \in Actors \ {a} : attempt'[b] = attempt[b],
             \/ attempt'[a].pc \in Working /\ attempt'[a].repo = attempt[a].repo
             \/ V2Of(reports', attempt[a].repo)
      PROVE  Progress'
  <2> SUFFICES ASSUME NEW p \in Rebuilders, batch[p].all, publicVersion = 1,
                      NEW r \in LegacyRepos
               PROVE  \/ V2Of(reports', r)
                      \/ \E x \in batch[p].rows : x.repo = r
                      \/ attempt'[p].pc \in Working /\ attempt'[p].repo = r
    BY <1>1 DEF Progress
  <2>1. \/ V2Of(reports, r)
        \/ \E x \in batch[p].rows : x.repo = r
        \/ attempt[p].pc \in Working /\ attempt[p].repo = r
    BY DEF Progress
  <2>2. p \in Actors
    BY DEF Actors
  <2>3. CASE p = a
    BY <1>1, <2>1, <2>3
  <2>4. CASE p # a
    BY <1>1, <2>1, <2>2, <2>4
  <2> QED  BY <2>3, <2>4
<1>2. ASSUME Kept, \A b \in Actors \ {a} : attempt'[b] = attempt[b],
             attempt'[a].pc = "cleanup" => DoneOf(reports', attempt'[a].repo)
      PROVE  Cleanable'
  <2> SUFFICES ASSUME NEW b \in Actors, attempt'[b].pc = "cleanup"
               PROVE  DoneOf(reports', attempt'[b].repo)
    BY DEF Cleanable
  <2>1. CASE b = a
    BY <1>2, <2>1
  <2>2. CASE b # a
    BY <1>2, <2>2, DoneStays DEF Cleanable
  <2> QED  BY <2>1, <2>2
<1>3. ASSUME UNCHANGED <<reports, publicVersion, batch>>,
             attempt[a].pc \in Working,
             \A b \in Actors \ {a} : attempt'[b] = attempt[b],
             attempt'[a].pc \in Working \ {"cleanup"}, attempt'[a].repo = attempt[a].repo
      PROVE  Kept /\ Versions' /\ Progress' /\ Cleanable'
  BY <1>1, <1>2, <1>3, TableSame
<1>4. CASE CloneDone(a)
  BY <1>3, <1>4 DEF CloneDone, Tables, AttemptType, Working
<1>5. CASE AttemptFails(a)
  BY <1>3, <1>5 DEF AttemptFails, Goto, Tables, AttemptType, Working
<1>6. CASE AnalyzeFails(a)
  BY <1>3, <1>6 DEF AnalyzeFails, Goto, Tables, AttemptType, Working
<1>7. CASE SaveRaises(a)
  BY <1>3, <1>7 DEF SaveRaises, Goto, Tables, AttemptType, Working
<1>8. CASE SaveCompleted(a)
  <2>1. Save(a, "completed") /\ UNCHANGED <<publicVersion, batch>>
    BY <1>8 DEF SaveCompleted
  <2>2. Kept /\ Versions'
    BY <2>1, SaveKeeps, TableKeeps
  <2>3. \A b \in Actors \ {a} : attempt'[b] = attempt[b]
    BY <1>8, OverType DEF SaveCompleted, Goto, Tables
  <2>4. attempt'[a].pc = "cleanup" => attempt'[a].repo = attempt[a].repo
    <3>1. CASE a = Run
      BY <1>8, <3>1, OverType DEF SaveCompleted
    <3>2. CASE a # Run
      BY <1>8, <3>2 DEF SaveCompleted, Goto, Tables, AttemptType
    <3> QED  BY <3>1, <3>2
  <2>5. Progress'
    BY <1>1, <2>1, <2>2, <2>3, SaveKeeps
  <2>6. Cleanable'
    BY <1>2, <2>1, <2>2, <2>3, <2>4, SaveKeeps
  <2> QED  BY <2>2, <2>5, <2>6
<1>9. CASE Cleanup(a)
  <2>1. DeleteFailed(a) /\ Over(a) /\ UNCHANGED <<publicVersion, batch>>
    BY <1>9 DEF Cleanup
  <2>2. DoneOf(reports, attempt[a].repo)
    BY <1>9 DEF Cleanup, Cleanable
  <2>3. Kept /\ Versions'
    BY <2>1, <2>2, DeleteKeeps, TableKeeps
  <2>4. Progress'
    BY <1>1, <2>1, <2>2, <2>3, DeleteKeeps, OverType
  <2>5. Cleanable'
    BY <1>2, <2>1, <2>3, OverType
  <2> QED  BY <2>3, <2>4, <2>5
<1>10. CASE SaveFailed(a)
  <2>1. Save(a, "failed") /\ Over(a) /\ UNCHANGED <<publicVersion, batch>>
    BY <1>10 DEF SaveFailed
  <2>2. Kept /\ Versions'
    BY <2>1, SaveKeeps, TableKeeps
  <2>3. Progress'
    BY <1>1, <2>1, <2>2, SaveKeeps, OverType
  <2>4. Cleanable'
    BY <1>2, <2>1, <2>2, OverType
  <2> QED  BY <2>2, <2>3, <2>4
<1>11. CASE SaveFailedRaises(a) \/ Crash(a)
  <2>1. /\ UNCHANGED <<reports, publicVersion>>
        /\ attempt' = [attempt EXCEPT ![a] = Idle]
        /\ batch' = [p \in Rebuilders |-> IF p = a THEN NoBatch ELSE batch[p]]
    BY <1>11 DEF SaveFailedRaises, Crash
  <2>2. Kept /\ Versions'
    BY <2>1, TableSame
  <2>3. /\ \A b \in Actors \ {a} : attempt'[b] = attempt[b]
        /\ attempt'[a].pc = "idle"
    BY <2>1 DEF Tables, Idle
  <2>4. Progress'
    BY <2>1, <2>3 DEF Progress, NoBatch, Actors
  <2>5. Cleanable'
    BY <1>2, <2>2, <2>3
  <2> QED  BY <2>2, <2>4, <2>5
<1> QED
  BY <1>4, <1>5, <1>6, <1>7, <1>8, <1>9, <1>10, <1>11 DEF Attempt

(* The steps of a rebuild: it lists every old row when it will switch, takes *)
(* a row only to work on it, and switches when none is left.                *)
LEMMA RebuildKeeps ==
  ASSUME IInv, NEW p \in Rebuilders, Rebuild(p)
  PROVE  /\ Kept /\ Versions'
         /\ Progress' /\ Cleanable'
<1> USE DEF IInv
<1>0. p \in Actors /\ Rebuilders \subseteq Actors
  BY DEF Actors
<1>1. ASSUME Kept, \A b \in Actors \ {p} : attempt'[b] = attempt[b],
             attempt'[p].pc # "cleanup"
      PROVE  Cleanable'
  <2> SUFFICES ASSUME NEW b \in Actors, attempt'[b].pc = "cleanup"
               PROVE  DoneOf(reports', attempt'[b].repo)
    BY DEF Cleanable
  <2> QED  BY <1>1, DoneStays DEF Cleanable
(* The other batches go on as before.                                       *)
<1>2. ASSUME \A r : V2Of(reports, r) => V2Of(reports', r),
             UNCHANGED publicVersion,
             \A q \in Rebuilders \ {p} : attempt'[q] = attempt[q] /\ batch'[q] = batch[q],
             batch'[p].all => \A r \in LegacyRepos :
                \/ publicVersion = 2
                \/ V2Of(reports', r)
                \/ \E x \in batch'[p].rows : x.repo = r
                \/ attempt'[p].pc \in Working /\ attempt'[p].repo = r
      PROVE  Progress'
  <2> SUFFICES ASSUME NEW q \in Rebuilders, batch'[q].all, publicVersion = 1,
                      NEW r \in LegacyRepos
               PROVE  \/ V2Of(reports', r)
                      \/ \E x \in batch'[q].rows : x.repo = r
                      \/ attempt'[q].pc \in Working /\ attempt'[q].repo = r
    BY <1>2 DEF Progress
  <2>1. CASE q = p
    BY <1>2, <2>1
  <2>2. CASE q # p
    BY <1>2, <2>2 DEF Progress
  <2> QED  BY <2>1, <2>2
<1>3. CASE RebuildStarts(p)
  <2>1. UNCHANGED <<reports, publicVersion>>
    BY <1>3 DEF RebuildStarts
  <2>2. /\ \A b \in Actors \ {p} : attempt'[b] = attempt[b]
        /\ attempt'[p].pc = "next"
    BY <1>0, <1>3 DEF RebuildStarts, Goto, Tables, AttemptType
  <2>3. /\ \A q \in Rebuilders \ {p} : batch'[q] = batch[q]
        /\ batch'[p].all => batch'[p].rows = Old
    BY <1>3 DEF RebuildStarts, Tables
  <2>4. publicVersion = 1 => \A r \in LegacyRepos : \E x \in Old : x.repo = r
    BY LegacyIsOld DEF Old, Versions
  <2>5. Progress'
    BY <1>0, <1>2, <2>1, <2>2, <2>3, <2>4 DEF Tables
  <2> QED  BY <1>1, <2>1, <2>2, <2>5, TableSame
<1>4. CASE TakeRow(p)
  <2>1. UNCHANGED <<reports, publicVersion>>
    BY <1>4 DEF TakeRow
  <2>2. PICK x \in batch[p].rows :
          /\ batch' = [batch EXCEPT ![p].rows = @ \ {x}]
          /\ attempt' = [attempt EXCEPT
               ![p] = [pc |-> "clone", repo |-> x.repo, commit |-> x.commit]]
    BY <1>4 DEF TakeRow
  <2>3. /\ \A b \in Actors \ {p} : attempt'[b] = attempt[b]
        /\ attempt'[p].pc = "clone" /\ attempt'[p].repo = x.repo
        /\ \A q \in Rebuilders \ {p} : batch'[q] = batch[q]
        /\ batch'[p].all = batch[p].all /\ batch'[p].rows = batch[p].rows \ {x}
    BY <1>0, <2>2 DEF Tables
  <2>4. attempt[p].pc \notin Working
    BY <1>4 DEF TakeRow, Working
  <2>5. Progress'
    BY <1>0, <1>2, <2>1, <2>3, <2>4 DEF Progress, Tables, Working
  <2> QED  BY <1>1, <2>1, <2>3, <2>5, TableSame
<1>5. CASE CostLimitReached(p) \/ SwitchRaises(p)
  <2>1. UNCHANGED <<reports, publicVersion>>
    BY <1>5 DEF CostLimitReached, SwitchRaises
  <2>2. /\ \A b \in Actors \ {p} : attempt'[b] = attempt[b]
        /\ attempt'[p].pc = "idle"
        /\ \A q \in Rebuilders \ {p} : batch'[q] = batch[q]
        /\ ~ batch'[p].all
    BY <1>0, <1>5 DEF CostLimitReached, SwitchRaises, Tables, Idle, NoBatch
  <2>3. Progress'
    BY <1>0, <1>2, <2>1, <2>2
  <2> QED  BY <1>1, <2>1, <2>2, <2>3, TableSame
<1>6. CASE RebuildEnds(p)
  <2>1. /\ \A b \in Actors \ {p} : attempt'[b] = attempt[b]
        /\ attempt'[p].pc = "idle"
        /\ \A q \in Rebuilders \ {p} : batch'[q] = batch[q]
        /\ ~ batch'[p].all
    BY <1>0, <1>6 DEF RebuildEnds, Tables, Idle, NoBatch
  <2>2. CASE batch[p].all
    <3>1. publicVersion' = 2 /\ reports' = {x \in reports : x.version # 1}
      BY <1>6, <2>2 DEF RebuildEnds, Switch
    <3>2. Kept
      BY <3>1 DEF Kept
    <3>3. attempt[p].pc \notin Working /\ batch[p].rows = {}
      BY <1>6 DEF RebuildEnds, Working
    <3>4. \A r \in LegacyRepos : V2Of(reports, r)
      BY <2>2, <3>3 DEF Progress, Versions, Tables
    <3>5. \A r : V2Of(reports, r) => V2Of(reports', r)
      BY <3>1 DEF V2Of
    <3>6. \A x \in reports' : x.version = 2
      BY <3>1 DEF Tables, RowType
    <3>7. Versions'
      BY <3>1, <3>4, <3>5, <3>6 DEF Versions
    <3>8. Progress'
      BY <3>1 DEF Progress
    <3> QED  BY <1>1, <2>1, <3>2, <3>7, <3>8
  <2>3. CASE ~ batch[p].all
    <3>1. UNCHANGED <<reports, publicVersion>>
      BY <1>6, <2>3 DEF RebuildEnds
    <3>2. Progress'
      BY <1>0, <1>2, <2>1, <3>1
    <3> QED  BY <1>1, <2>1, <3>1, <3>2, TableSame
  <2> QED  BY <2>2, <2>3
<1> QED  BY <1>3, <1>4, <1>5, <1>6 DEF Rebuild

(* The steps of the stage before its attempt, and the clock.                *)
LEMMA StageKeeps ==
  ASSUME IInv, StageStarts \/ PickNone \/ Tick \/ \E r \in Repos : Pick(r)
  PROVE  /\ Kept /\ Versions'
         /\ Progress' /\ Cleanable'
<1> USE DEF IInv
<1>1. UNCHANGED <<reports, publicVersion, batch>>
  BY DEF StageStarts, PickNone, Tick, Pick
<1>2. /\ \A p \in Rebuilders : attempt'[p] = attempt[p]
      /\ attempt'[Run].pc = "cleanup" => attempt'[Run] = attempt[Run]
  BY ActorsAssumption
  DEF StageStarts, PickNone, Tick, Pick, Goto, Idle, Tables, Actors, AttemptType
<1>3. Progress'
  BY <1>1, <1>2 DEF Progress
<1>4. Cleanable'
  BY <1>1, <1>2 DEF Cleanable, Actors
<1> QED  BY <1>1, <1>3, <1>4, TableSame

LEMMA Step == IInv /\ [Next]_vars => IInv' /\ Kept
<1> SUFFICES ASSUME IInv, [Next]_vars PROVE IInv' /\ Kept
  OBVIOUS
<1>1. Tables'
  BY TypeStep DEF IInv
<1>2. CASE UNCHANGED vars
  BY <1>1, <1>2, TableSame DEF vars, IInv, Progress, Cleanable
<1>3. CASE Next
  BY <1>1, <1>3, AttemptKeeps, RebuildKeeps, StageKeeps DEF Next, Operation, IInv
<1> QED  BY <1>2, <1>3

-----------------------------------------------------------------------------
(* Pace: what the stage has checked stays true until it saves.  Between its *)
(* checks and its save only rebuilds complete rows, which the history sets  *)
(* aside; the clock only moves on, and a week that begins meanwhile has     *)
(* none of the others yet.                                                  *)

Counted == {x \in reports : Completed(x) /\ x \notin meanwhile}
ThisWeek == {x \in Counted : x.at >= WeekStart}

Clock ==
  /\ now > WeekLength
  /\ \A x \in reports : x.at <= now
  /\ IsFiniteSet({x \in reports : x.at > 0})

Quota == Generating => Cardinality(ThisWeek) < MAX_DEEP_REPORTS_PER_WEEK

Chosen ==
  attempt[Run].pc \in {"clone", "analyze"} =>
    \A x \in Counted : x.repo = attempt[Run].repo => x.at + WeekLength < now

Paced == Clock /\ Quota /\ Chosen
PInv == Tables /\ Paced

SavedInPace ==
  \A x \in reports' \ reports : x.by = "run" /\ Completed(x) =>
    LET others == {y \in reports' : Completed(y) /\ y \notin meanwhile} \ {x}
    IN  /\ Cardinality({y \in others : y.at >= WeekStart}) < MAX_DEEP_REPORTS_PER_WEEK
        /\ \A y \in others : y.repo = x.repo => y.at + WeekLength < x.at

(* No row is completed but by a rebuild.                                    *)
OnlyRebuilds == \A x \in reports' \ reports : Completed(x) => x.by = "rebuild"

(* Consecutive moments are in one week or the later one begins a week.      *)
LEMMA Division ==
  ASSUME NEW n \in Nat, NEW d \in Nat \ {0}
  PROVE  (n % d) \in 0 .. (d - 1) /\ (n \div d) \in Int /\ n = d * (n \div d) + (n % d)
OBVIOUS

LEMMA NextRemainder ==
  ASSUME NEW d \in Nat \ {0}, NEW q \in Int, NEW k \in Int,
         NEW x \in 0 .. (d - 1), NEW y \in 0 .. (d - 1), d * q + x + 1 = d * k + y
  PROVE  y = x + 1 \/ y = 0
<1>1. d * (k - q) = x + 1 - y
  OBVIOUS
<1>2. CASE k - q >= 1
  <2>1. d * (k - q) >= d
    BY <1>2
  <2> QED  BY <1>1, <2>1
<1>3. CASE q - k >= 1
  <2>1. d * (q - k) >= d
    BY <1>3
  <2>2. d * (q - k) = y - x - 1
    BY <1>1
  <2> QED  BY <2>1, <2>2
<1> QED  BY <1>2, <1>3

LEMMA WeekMoves ==
  ASSUME now \in Nat
  PROVE  /\ WeekStart \in Nat /\ WeekStart <= now /\ now - WeekStart < WeekLength
         /\ now' = now + 1 => WeekStart' = WeekStart \/ WeekStart' = now'
<1> DEFINE w == now % WeekLength
           v == now' % WeekLength
           q == now \div WeekLength
           k == now' \div WeekLength
<1>1. w \in 0 .. (WeekLength - 1) /\ q \in Int /\ now = WeekLength * q + w
  BY Division, QuotaAssumption
<1>2. ASSUME now' = now + 1
      PROVE  v \in 0 .. (WeekLength - 1) /\ k \in Int /\ now' = WeekLength * k + v
  BY <1>2, Division, QuotaAssumption
<1>3. WeekStart = now - w /\ WeekStart' = now' - v
  BY DEF WeekStart
<1> HIDE DEF w, v, q, k
<1>4. w <= now
  <2>1. CASE q >= 0
    <3>1. WeekLength * q >= 0
      BY <1>1, <2>1, QuotaAssumption
    <3> QED  BY <1>1, <3>1, QuotaAssumption
  <2>2. CASE q <= 0 - 1
    <3>1. WeekLength * q <= 0 - WeekLength
      BY <1>1, <2>2, QuotaAssumption
    <3> QED  BY <1>1, <3>1, QuotaAssumption
  <2> QED  BY <1>1, <2>1, <2>2
<1>5. ASSUME now' = now + 1 PROVE v = w + 1 \/ v = 0
  <2>1. WeekLength * q + w + 1 = WeekLength * k + v
    BY <1>1, <1>2, <1>5, QuotaAssumption
  <2> QED  BY <1>1, <1>2, <1>5, <2>1, NextRemainder, QuotaAssumption
<1>6. now' = now + 1 => WeekStart' = WeekStart \/ WeekStart' = now'
  BY <1>1, <1>3, <1>5, QuotaAssumption
<1> QED  BY <1>1, <1>3, <1>4, <1>6, QuotaAssumption

(* The rows that count are finitely many.                                   *)
LEMMA WeekIsFinite ==
  ASSUME Tables, Clock
  PROVE  /\ IsFiniteSet(ThisWeek) /\ Cardinality(ThisWeek) \in Nat
         /\ QuotaUsed \in Nat /\ Cardinality(ThisWeek) <= QuotaUsed
<1> DEFINE used == {x \in reports : Completed(x) /\ x.at >= WeekStart}
<1>1. WeekStart > 0 /\ WeekStart \in Nat
  BY WeekMoves, QuotaAssumption DEF Tables, Clock
<1>2. \A x \in reports : x.at \in Nat
  BY DEF Tables, RowType
<1>3. used \subseteq {x \in reports : x.at > 0}
  BY <1>1, <1>2
<1>4. IsFiniteSet(used)
  BY <1>3, FS_Subset DEF Clock
<1>5. ThisWeek \subseteq used
  BY DEF ThisWeek, Counted
<1> QED  BY <1>4, <1>5, FS_Subset, FS_CardinalityType DEF QuotaUsed

(* A row that is saved is of this moment or of none, and one more row; only *)
(* the server completes one that counts.                                    *)
LEMMA SavePaced ==
  ASSUME Tables, Clock, NEW a \in Actors, NEW status \in {"completed", "failed"},
         Save(a, status), UNCHANGED now
  PROVE  /\ Clock'
         /\ a # Run \/ status = "failed" => OnlyRebuilds
         /\ \E new : /\ new.repo = attempt[a].repo
                     /\ status = "completed" => new.at = now
                     /\ reports' \subseteq reports \union {new}
<1> DEFINE same == {x \in reports : /\ x.repo = attempt[a].repo
                                    /\ x.commit = attempt[a].commit /\ x.version = 2}
           new == Row(attempt[a].repo, attempt[a].commit, 2, status, Writer(a),
                      IF status = "completed" THEN now ELSE 0)
<1>1. /\ new.repo = attempt[a].repo /\ new.status = status /\ new.by = Writer(a)
      /\ new.at \in {0, now}
      /\ status = "completed" => new.at = now
  BY DEF Row
<1>2. reports' \subseteq reports \union {new}
  BY DEF Save
<1> HIDE DEF new
<1>3. ASSUME a # Run \/ status = "failed" PROVE OnlyRebuilds
  BY <1>1, <1>2, <1>3 DEF OnlyRebuilds, Completed, Writer
<1>4. Clock'
  <2> DEFINE dated(S) == {x \in S : x.at > 0}
  <2>1. dated(reports') \subseteq dated(reports) \union {new}
    BY <1>2
  <2>2. IsFiniteSet(dated(reports) \union {new})
    BY FS_AddElement DEF Clock
  <2>3. IsFiniteSet(dated(reports'))
    BY <2>1, <2>2, FS_Subset
  <2>4. now \in Nat /\ new.at <= now
    BY <1>1 DEF Tables
  <2>5. \A x \in reports' : x.at <= now
    BY <1>2, <2>4 DEF Clock
  <2> QED  BY <2>3, <2>5 DEF Clock
<1> QED  BY <1>1, <1>2, <1>3, <1>4

(* A table that lost rows keeps the clock.                                  *)
LEMMA LossKeepsClock ==
  ASSUME Clock, UNCHANGED now, reports' \subseteq reports
  PROVE  Clock' /\ OnlyRebuilds
<1>1. {x \in reports' : x.at > 0} \subseteq {x \in reports : x.at > 0}
  OBVIOUS
<1>2. IsFiniteSet({x \in reports' : x.at > 0})
  BY <1>1, FS_Subset DEF Clock
<1> QED  BY <1>2 DEF Clock, OnlyRebuilds

(* A step in which the server completes nothing, and goes nowhere that it   *)
(* is not allowed to go, keeps the pace.                                    *)
LEMMA QuietStep ==
  ASSUME Tables, Paced, Clock', UNCHANGED now, OnlyRebuilds,
         Meanwhile \/ UNCHANGED <<reports, meanwhile>>,
         Generating' =>
           Generating \/ Cardinality(ThisWeek) < MAX_DEEP_REPORTS_PER_WEEK,
         attempt'[Run].pc \in {"clone", "analyze"} =>
           /\ attempt[Run].pc \in {"clone", "analyze"}
           /\ attempt'[Run].repo = attempt[Run].repo
  PROVE  Paced' /\ SavedInPace
<1>1. WeekStart' = WeekStart
  BY DEF WeekStart
<1>2. ASSUME Generating' PROVE Counted' \subseteq Counted
  <2>1. CASE Meanwhile
    <3> SUFFICES ASSUME NEW x \in reports', Completed(x), x \notin meanwhile'
                 PROVE  x \in Counted
      BY DEF Counted, Completed
    <3>1. meanwhile' = meanwhile \union
                         {y \in reports' \ reports : y.by = "rebuild" /\ Completed(y)}
      BY <1>2, <2>1 DEF Meanwhile
    <3> QED  BY <3>1 DEF Counted, OnlyRebuilds
  <2>2. CASE UNCHANGED <<reports, meanwhile>>
    BY <2>2 DEF Counted, Completed
  <2> QED  BY <2>1, <2>2
<1>3. ASSUME Generating'
      PROVE  /\ Cardinality(ThisWeek') \in Nat
             /\ Cardinality(ThisWeek') <= Cardinality(ThisWeek)
             /\ Cardinality(ThisWeek) \in Nat
  <2>1. ThisWeek' \subseteq ThisWeek
    BY <1>1, <1>2, <1>3 DEF ThisWeek
  <2> QED  BY <2>1, WeekIsFinite, FS_Subset, FS_CardinalityType DEF Paced
<1>4. Quota'
  BY <1>3, QuotaAssumption DEF Paced, Quota
<1>5. Chosen'
  BY <1>2 DEF Paced, Chosen, Generating
<1>6. SavedInPace
  BY DEF SavedInPace, OnlyRebuilds
<1> QED  BY <1>4, <1>5, <1>6 DEF Paced

(* The save of the server's report: the one row that has to be in pace.     *)
LEMMA RunSaves ==
  ASSUME Tables, Paced, SaveCompleted(Run)
  PROVE  Paced' /\ SavedInPace
<1>1. /\ Save(Run, "completed") /\ UNCHANGED now
      /\ attempt[Run].pc = "analyze" /\ Run \in Actors
  BY DEF SaveCompleted, Actors
<1>2. PICK new : /\ new.repo = attempt[Run].repo /\ new.at = now
                 /\ reports' \subseteq reports \union {new}
  BY <1>1, SavePaced DEF Paced
<1>3. Clock'
  BY <1>1, SavePaced DEF Paced
<1>4. attempt'[Run].pc = "idle"
  BY <1>1 DEF SaveCompleted, Over, Idle, Tables
<1>5. Cardinality(ThisWeek) < MAX_DEEP_REPORTS_PER_WEEK
  BY <1>1 DEF Paced, Quota, Generating
<1>6. \A y \in Counted : y.repo = attempt[Run].repo => y.at + WeekLength < now
  BY <1>1 DEF Paced, Chosen
<1>7. ASSUME NEW x \in reports' \ reports
      PROVE  LET others == {y \in reports' : Completed(y) /\ y \notin meanwhile} \ {x}
             IN  /\ Cardinality({y \in others : y.at >= WeekStart})
                       < MAX_DEEP_REPORTS_PER_WEEK
                 /\ \A y \in others : y.repo = x.repo => y.at + WeekLength < x.at
  <2> DEFINE others == {y \in reports' : Completed(y) /\ y \notin meanwhile} \ {x}
             week == {y \in others : y.at >= WeekStart}
  <2>1. x = new
    BY <1>2
  <2>2. others \subseteq Counted
    BY <1>2, <2>1 DEF Counted
  <2>3. week \subseteq ThisWeek
    BY <2>2 DEF ThisWeek
  <2>4. IsFiniteSet(ThisWeek) /\ Cardinality(ThisWeek) \in Nat
    BY WeekIsFinite DEF Paced
  <2>5. Cardinality(week) \in Nat /\ Cardinality(week) <= Cardinality(ThisWeek)
    BY <2>3, <2>4, FS_Subset, FS_CardinalityType
  <2>6. Cardinality(week) < MAX_DEEP_REPORTS_PER_WEEK
    BY <1>5, <2>4, <2>5, QuotaAssumption
  <2>7. \A y \in others : y.repo = x.repo => y.at + WeekLength < x.at
    BY <1>2, <1>6, <2>1, <2>2
  <2> QED  BY <2>6, <2>7
<1>8. SavedInPace
  BY <1>7 DEF SavedInPace
<1>9. Quota' /\ Chosen'
  BY <1>4 DEF Quota, Chosen, Generating
<1> QED  BY <1>3, <1>8, <1>9 DEF Paced

LEMMA TickPaced ==
  ASSUME Tables, Paced, Tick, Meanwhile
  PROVE  Paced' /\ SavedInPace
<1>1. now' = now + 1 /\ now \in Nat /\ UNCHANGED <<reports, attempt>>
  BY DEF Tick, Tables
<1>2. \A x \in reports : x.at \in Nat /\ x.at <= now
  BY DEF Tables, RowType, Paced, Clock
<1>3. Clock'
  <2>1. \A x \in reports' : x.at <= now'
    BY <1>1, <1>2
  <2> QED  BY <1>1, <2>1, QuotaAssumption DEF Paced, Clock
<1>4. ASSUME Generating' PROVE Generating /\ Counted' = Counted
  <2>1. meanwhile' = meanwhile
    BY <1>1, <1>4 DEF Meanwhile
  <2> QED  BY <1>1, <1>4, <2>1 DEF Counted, Completed, Generating
<1>5. ASSUME Generating' PROVE ThisWeek' = ThisWeek \/ ThisWeek' = {}
  <2>1. CASE WeekStart' = WeekStart
    BY <1>4, <1>5, <2>1 DEF ThisWeek
  <2>2. CASE WeekStart' = now'
    <3>1. \A x \in Counted : ~ (x.at >= now')
      BY <1>1, <1>2 DEF Counted
    <3> QED  BY <1>4, <1>5, <2>2, <3>1 DEF ThisWeek
  <2> QED  BY <1>1, <2>1, <2>2, WeekMoves
<1>6. Cardinality(ThisWeek) \in Nat /\ Cardinality({}) = 0
  BY WeekIsFinite, FS_EmptySet DEF Paced
<1>7. Quota'
  <2> SUFFICES ASSUME Generating' PROVE Cardinality(ThisWeek') < MAX_DEEP_REPORTS_PER_WEEK
    BY DEF Quota
  <2>1. Cardinality(ThisWeek) < MAX_DEEP_REPORTS_PER_WEEK
    BY <1>4 DEF Paced, Quota
  <2> QED  BY <1>5, <1>6, <2>1, QuotaAssumption
<1>8. Chosen'
  <2> SUFFICES ASSUME attempt[Run].pc \in {"clone", "analyze"},
                      NEW x \in Counted', x.repo = attempt[Run].repo
               PROVE  x.at + WeekLength < now'
    BY <1>1 DEF Chosen
  <2>1. x \in Counted
    BY <1>1, <1>4 DEF Generating
  <2>2. x.at + WeekLength < now
    BY <2>1 DEF Paced, Chosen
  <2> QED  BY <1>1, <1>2, <2>1, <2>2, QuotaAssumption DEF Counted
<1>9. SavedInPace
  BY <1>1 DEF SavedInPace
<1> QED  BY <1>3, <1>7, <1>8, <1>9 DEF Paced

(* The two checks of the stage establish what the save relies on.           *)
LEMMA StagePaced ==
  ASSUME Tables, Paced, Meanwhile, StageStarts \/ PickNone \/ \E r \in Repos : Pick(r)
  PROVE  Paced' /\ SavedInPace
<1>1. /\ UNCHANGED <<reports, now>> /\ reports' \subseteq reports
      /\ attempt \in [Actors -> AttemptType] /\ Run \in Actors
  BY DEF StageStarts, PickNone, Pick, Tables, Actors
<1>2. Clock' /\ OnlyRebuilds
  BY <1>1, LossKeepsClock DEF Paced
<1>3. CASE StageStarts
  <2>1. CASE UNCHANGED attempt
    BY <1>1, <1>2, <2>1, QuietStep DEF Generating
  <2>2. CASE ~ (QuotaUsed >= MAX_DEEP_REPORTS_PER_WEEK) /\ Goto(Run, "pick")
    <3>1. attempt'[Run].pc = "pick"
      BY <1>1, <2>2, GotoType
    <3>2. Cardinality(ThisWeek) < MAX_DEEP_REPORTS_PER_WEEK
      BY <2>2, WeekIsFinite, QuotaAssumption DEF Paced
    <3> QED  BY <1>1, <1>2, <3>1, <3>2, QuietStep
  <2> QED  BY <1>3, <2>1, <2>2 DEF StageStarts
<1>4. CASE PickNone
  <2>1. attempt'[Run].pc = "idle"
    BY <1>1, <1>4 DEF PickNone, Idle
  <2> QED  BY <1>1, <1>2, <2>1, QuietStep DEF Generating
<1>5. ASSUME NEW r \in Repos, Pick(r) PROVE Paced' /\ SavedInPace
  <2>1. attempt'[Run].repo = r /\ attempt'[Run].pc = "clone" /\ attempt[Run].pc = "pick"
    BY <1>1, <1>5 DEF Pick
  <2>2. \A x \in reports : x.repo = r /\ Completed(x) => x.at + WeekLength < now
    BY <1>5, QuotaAssumption DEF Pick, Recent, Tables, RowType
  <2>3. Chosen'
    BY <1>1, <2>1, <2>2 DEF Chosen, Counted, Completed
  <2>4. meanwhile' = meanwhile
    BY <1>1, <2>1 DEF Meanwhile, Generating
  <2>5. ThisWeek' = ThisWeek
    BY <1>1, <2>4 DEF ThisWeek, Counted, WeekStart, Completed
  <2>6. Quota'
    BY <2>1, <2>5 DEF Paced, Quota, Generating
  <2>7. SavedInPace
    BY <1>1 DEF SavedInPace
  <2> QED  BY <1>2, <2>3, <2>6, <2>7 DEF Paced
<1> QED  BY <1>3, <1>4, <1>5

(* Everything else an actor does on its way.                                *)
LEMMA AttemptPaced ==
  ASSUME Tables, Paced, Meanwhile, NEW a \in Actors, Attempt(a)
  PROVE  Paced' /\ SavedInPace
<1>0. attempt \in [Actors -> AttemptType] /\ Run \in Actors /\ UNCHANGED now
  BY DEF Tables, Actors, Attempt, CloneDone, AttemptFails, AnalyzeFails, SaveCompleted,
         Cleanup, SaveRaises, SaveFailed, SaveFailedRaises, Crash
(* Where the server may go when it is the actor, and it stays when not.     *)
<1>1. ASSUME Clock', OnlyRebuilds,
             \A b \in Actors \ {a} : attempt'[b] = attempt[b],
             \/ attempt'[a].pc \in {"idle", "none", "fail"} \/ a # Run
             \/ /\ attempt[a].pc \in {"clone", "analyze"}
                /\ attempt'[a].pc \in {"clone", "analyze"}
                /\ attempt'[a].repo = attempt[a].repo
      PROVE  Paced' /\ SavedInPace
  <2>1. CASE a = Run /\ attempt'[a].pc \in {"idle", "none", "fail"}
    BY <1>0, <1>1, <2>1, QuietStep DEF Generating
  <2>2. CASE a = Run /\ attempt'[a].pc \notin {"idle", "none", "fail"}
    BY <1>0, <1>1, <2>2, QuietStep DEF Generating
  <2>3. CASE a # Run
    BY <1>0, <1>1, <2>3, QuietStep DEF Generating
  <2> QED  BY <2>1, <2>2, <2>3
<1>2. ASSUME UNCHANGED reports PROVE Clock' /\ OnlyRebuilds
  BY <1>0, <1>2, LossKeepsClock DEF Paced
<1>3. CASE CloneDone(a)
  <2>1. PICK c \in Commits :
          attempt' = [attempt EXCEPT ![a].pc = "analyze", ![a].commit = c]
    BY <1>3 DEF CloneDone
  <2> DEFINE next == [attempt[a] EXCEPT !.pc = "analyze", !.commit = c]
  <2>2. attempt' = [attempt EXCEPT ![a] = next]
    BY <2>1
  <2>3. next.pc = "analyze" /\ next.repo = attempt[a].repo
    BY <1>0 DEF AttemptType
  <2> HIDE DEF next
  <2>4. /\ attempt'[a].pc = "analyze" /\ attempt'[a].repo = attempt[a].repo
        /\ \A b \in Actors \ {a} : attempt'[b] = attempt[b]
    BY <1>0, <2>2, <2>3
  <2>5. attempt[a].pc = "clone" /\ UNCHANGED reports
    BY <1>3 DEF CloneDone
  <2> QED  BY <1>1, <1>2, <2>4, <2>5
<1>4. CASE AttemptFails(a) \/ AnalyzeFails(a) \/ SaveRaises(a)
  <2>1. PICK pc \in {"fail", "none"} : Goto(a, pc)
    BY <1>4 DEF AttemptFails, AnalyzeFails, SaveRaises
  <2>2. UNCHANGED reports
    BY <1>4 DEF AttemptFails, AnalyzeFails, SaveRaises
  <2>3. /\ attempt'[a].pc \in {"none", "fail"}
        /\ \A b \in Actors \ {a} : attempt'[b] = attempt[b]
    BY <1>0, <2>1, GotoType DEF Working
  <2> QED  BY <1>1, <1>2, <2>2, <2>3
<1>5. CASE SaveCompleted(a) /\ a # Run
  <2>1. Save(a, "completed") /\ Goto(a, "cleanup")
    BY <1>5 DEF SaveCompleted
  <2>2. \A b \in Actors \ {a} : attempt'[b] = attempt[b]
    BY <1>0, <2>1, GotoType DEF Working
  <2>3. Clock' /\ OnlyRebuilds
    BY <1>0, <1>5, <2>1, SavePaced DEF Paced
  <2> QED  BY <1>1, <1>5, <2>2, <2>3
<1>6. CASE SaveCompleted(a) /\ a = Run
  BY <1>6, RunSaves
<1>7. CASE Cleanup(a)
  <2>1. reports' \subseteq reports /\ Over(a)
    BY <1>7 DEF Cleanup, DeleteFailed
  <2>2. Clock' /\ OnlyRebuilds
    BY <1>0, <2>1, LossKeepsClock DEF Paced
  <2>3. attempt'[a].pc = "idle" \/ a # Run
    BY <1>0, <2>1 DEF Over, Idle
  <2> QED  BY <1>1, <2>1, <2>2, <2>3, OverType
<1>8. CASE SaveFailed(a)
  <2>1. Save(a, "failed") /\ Over(a)
    BY <1>8 DEF SaveFailed
  <2>2. Clock' /\ OnlyRebuilds
    BY <1>0, <2>1, SavePaced DEF Paced
  <2>3. attempt'[a].pc = "idle" \/ a # Run
    BY <1>0, <2>1 DEF Over, Idle
  <2> QED  BY <1>1, <2>1, <2>2, <2>3, OverType
<1>9. CASE SaveFailedRaises(a) \/ Crash(a)
  <2>1. UNCHANGED reports /\ attempt' = [attempt EXCEPT ![a] = Idle]
    BY <1>9 DEF SaveFailedRaises, Crash
  <2>2. attempt'[a].pc = "idle" /\ \A b \in Actors \ {a} : attempt'[b] = attempt[b]
    BY <1>0, <2>1 DEF Idle
  <2> QED  BY <1>1, <1>2, <2>1, <2>2
<1> QED  BY <1>3, <1>4, <1>5, <1>6, <1>7, <1>8, <1>9 DEF Attempt

(* A rebuild between its attempts leaves the server alone; its switch only  *)
(* takes rows away.                                                         *)
LEMMA RebuildPaced ==
  ASSUME Tables, Paced, Meanwhile, NEW p \in Rebuilders, Rebuild(p)
  PROVE  Paced' /\ SavedInPace
<1>1. reports' \subseteq reports /\ UNCHANGED now
  BY DEF Rebuild, RebuildStarts, TakeRow, CostLimitReached, RebuildEnds, Switch, SwitchRaises
<1>2. attempt'[Run] = attempt[Run]
  BY ActorsAssumption
  DEF Rebuild, RebuildStarts, Goto, TakeRow, CostLimitReached, RebuildEnds, SwitchRaises,
      Tables, Actors
<1>3. Clock' /\ OnlyRebuilds
  BY <1>1, LossKeepsClock DEF Paced
<1> QED  BY <1>1, <1>2, <1>3, QuietStep DEF Generating

LEMMA PacedInit == Init => Paced
<1> SUFFICES ASSUME Init PROVE Paced
  OBVIOUS
<1>1. \A x \in reports : x.at = 0
  <2>1. reports = LegacyRows /\ \A l \in Legacy : Row(l[1], l[2], 1, "completed", "run", 0).at = 0
    BY DEF Init, Row
  <2> QED  BY <2>1 DEF LegacyRows
<1>2. now > WeekLength /\ attempt[Run].pc = "idle"
  BY QuotaAssumption DEF Init, Idle, Actors
<1>3. Clock
  <2>1. {x \in reports : x.at > 0} = {}
    BY <1>1
  <2>2. \A x \in reports : x.at <= now
    BY <1>1, QuotaAssumption DEF Init
  <2> QED  BY <1>2, <2>1, <2>2, FS_EmptySet DEF Clock
<1>4. Quota /\ Chosen
  BY <1>2 DEF Quota, Chosen, Generating
<1> QED  BY <1>3, <1>4 DEF Paced

LEMMA PacedStep == PInv /\ [Next]_vars => PInv' /\ (SavedInPace \/ UNCHANGED vars)
<1> SUFFICES ASSUME Tables, Paced, [Next]_vars PROVE Tables' /\ Paced' /\ SavedInPace
  BY DEF PInv
<1>1. Tables'
  BY TypeStep
<1>2. CASE UNCHANGED vars
  <2>1. UNCHANGED <<reports, now, attempt, meanwhile>>
    BY <1>2 DEF vars
  <2>2. Clock' /\ OnlyRebuilds
    BY <2>1, LossKeepsClock DEF Paced
  <2> QED  BY <1>1, <2>1, <2>2, QuietStep DEF Generating
<1>3. CASE Next
  BY <1>1, <1>3, StagePaced, TickPaced, AttemptPaced, RebuildPaced DEF Next, Operation
<1> QED  BY <1>1, <1>2, <1>3

-----------------------------------------------------------------------------
(* The table and what the actors hold have their types, keys are unique and *)
(* completed reports have a commit.                                         *)
THEOREM TypeCorrect == Spec => []TypeOK
<1>1. Init => TypeOK
  BY InitIInv DEF IInv, TypeOK, Init
<1>2. TypeOK /\ [Next]_vars => TypeOK'
  <2> SUFFICES ASSUME TypeOK, [Next]_vars PROVE TypeOK'
    OBVIOUS
  <2>1. Tables'
    BY TypeStep DEF TypeOK
  <2>2. (meanwhile \subseteq RowType)'
    <3>1. reports' \subseteq RowType
      BY <2>1 DEF Tables
    <3>2. CASE Meanwhile
      BY <3>1, <3>2 DEF Meanwhile, TypeOK
    <3>3. CASE UNCHANGED meanwhile
      BY <3>3 DEF TypeOK
    <3> QED  BY <3>2, <3>3 DEF Next, vars
  <2> QED  BY <2>1, <2>2 DEF TypeOK
<1> QED  BY <1>1, <1>2, PTL DEF Spec

(* Neither a failed rebuild, nor one that is stopped or dies, nor any       *)
(* number of rebuilds at once beside the runs of the server make the public *)
(* reports incomplete or forget a repository.                               *)
THEOREM NothingForgotten == Spec => []VersionIsComplete
<1>1. IInv => VersionIsComplete
  BY LegacyIsOld
  DEF IInv, Tables, Versions, VersionIsComplete, Public, Old, V2Of
<1>2. IInv /\ [Next]_vars => IInv'
  BY Step
<1> QED  BY <1>1, <1>2, InitIInv, PTL DEF Spec

(* A completed report of version 2 is never lost or downgraded.             *)
THEOREM CompletedStays == Spec => CompletedIsKept
<1>1. IInv /\ [Next]_vars => IInv'
  BY Step
<1>2. IInv /\ [Next]_vars => [Kept]_vars
  BY Step
<1>3. [Kept]_vars <=> [\A x \in reports : x.version = 2 /\ Completed(x) =>
                        \E y \in reports' : /\ y.repo = x.repo /\ y.commit = x.commit
                                            /\ y.version = 2 /\ Completed(y)]_vars
  BY DEF Kept
<1> QED  BY <1>1, <1>2, <1>3, InitIInv, PTL DEF Spec, CompletedIsKept

(* The report a run completes keeps the quota of its week and the distance *)
(* to the others of its repository, counting every writer's, although both *)
(* are checked before a clone and an analysis during which the clock runs  *)
(* and rebuilds write to the table: only what they completed since then is *)
(* left out.                                                               *)
THEOREM ReportsArePaced == Spec => PacedReports
<1>1. Init => PInv
  BY InitIInv, PacedInit DEF IInv, PInv
<1>2. PInv /\ [Next]_vars => PInv'
  BY PacedStep
<1>3. PInv /\ [Next]_vars => [SavedInPace]_vars
  BY PacedStep
<1>4. [SavedInPace]_vars <=>
        [\A x \in reports' \ reports : x.by = "run" /\ Completed(x) =>
           LET others == {y \in reports' : Completed(y) /\ y \notin meanwhile} \ {x}
           IN  /\ Cardinality({y \in others : y.at >= WeekStart}) < MAX_DEEP_REPORTS_PER_WEEK
               /\ \A y \in others : y.repo = x.repo => y.at + WeekLength < x.at]_vars
  BY DEF SavedInPace
<1> QED  BY <1>1, <1>2, <1>3, <1>4, PTL DEF Spec, PacedReports
=============================================================================
