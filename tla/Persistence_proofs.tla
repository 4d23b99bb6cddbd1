------------------------- MODULE Persistence_proofs -------------------------
(***************************************************************************)
(* What the database promises, proved for any items, urls, sources, tags,  *)
(* releases and bounds: an article is analyzed and approved once, but for  *)
(* the runs that were cut short; a completed run leaves no item of its own *)
(* without a last word; tags are damaged by faults only, one article each, *)
(* or two where another coroutine's insert confuses the id; the summaries  *)
(* of a run add up; and the migrations come to the full schema with the    *)
(* old data from any release, whatever statements the processes before     *)
(* have died at.                                                           *)
(***************************************************************************)
EXTENDS Persistence, FiniteSetTheorems, TLAPS

Db == [ id : [Urls -> Nat], tags : [Ids -> SUBSET Tags], row : [Urls -> RowStatuses] ]

Faults == crashes + errors + others

AtHand == {"rowid", "record", "untag", "tag"}

\* What is committed differs from what is seen in the tags only.
Typed ==
  /\ view \in Db /\ disk \in Db
  /\ disk.id = view.id /\ disk.row = view.row
  /\ at \in Points
  /\ new \subseteq raw /\ raw \subseteq Items /\ left \subseteq new
  /\ approvals \in [Urls -> Nat]
  /\ errors \in Nat /\ others \in Nat /\ crashes \in Nat
  /\ at # "idle" => outcome = "running"
  /\ at = "dedup" => left = {}

\* The entry at hand is still left, and its article is there.
HandIsSaved == at \in AtHand => item \in left /\ view.id[UrlOf[item]] # 0

NewIsUnknown == at = "graph" => \A i \in new : view.id[UrlOf[i]] = 0

\* An entry that the persist phase makes an article of.
Publishes(i) == verdict[i] = "approved" /\ SourceOf[First(new, UrlOf[i])] \notin trial

Pending(u) ==
  /\ at \in AtHand \union {"persist"}
  /\ \E i \in left : UrlOf[i] = u /\ Publishes(i)

\* The id of the entry at hand is, or will be, one that no article has.
Confused ==
  \/ at = "rowid" /\ \A u \in Urls : view.id[u] # lastRowid
  \/ at = "record" /\ \A u \in Urls : view.id[u] # articleId

(* An article approved beyond the faults is in the database or about to be,*)
(* and not in a run that a confused id is going to end.                    *)
Accounted(u) ==
  \/ approvals[u] <= Faults
  \/ /\ approvals[u] <= Faults + 1
     /\ view.id[u] # 0 \/ Pending(u)
     /\ ~ Confused

HasWord(u) == view.row[u] \notin {"none", "collected"}

(* Skipped items have their word from the start, analyzed ones when no     *)
(* entry of their url is left, and all of them when the run completes.     *)
Worded ==
  /\ at \in AtHand \union {"graph", "persist"} => \A i \in raw \ new : HasWord(UrlOf[i])
  /\ at \in AtHand \union {"persist"} =>
       \A i \in Analyzed : (\E j \in left : UrlOf[j] = UrlOf[i]) \/ HasWord(UrlOf[i])
  /\ at \in {"untag", "tag"} => HasWord(UrlOf[item])
  /\ Completed => \A i \in raw : HasWord(UrlOf[i])

IInv ==
  /\ Typed /\ HandIsSaved /\ NewIsUnknown
  /\ \A u \in Urls : Accounted(u)
  /\ Worded

-----------------------------------------------------------------------------
(* There are finitely many urls.                                           *)
LEMMA UrlsFinite == IsFiniteSet(Urls)
<1>1. IsFiniteSet(Items)
  BY FS_Interval, ItemAssumption DEF Items
<1> DEFINE url == [i \in Items |-> UrlOf[i]]
<1>2. url \in Surjection(Items, Urls)
  BY DEF Surjection, Urls
<1> QED
  BY <1>1, <1>2, FS_Surjection

(* Every item has a url.                                                   *)
LEMMA UrlOfType == \A i \in Items : UrlOf[i] \in Urls
BY DEF Urls

(* SQLite never gives the id 0.                                            *)
LEMMA NewIdPositive == NewId \in Nat /\ NewId # 0
<1>1. Cardinality({u \in Urls : view.id[u] # 0}) \in Nat
  BY UrlsFinite, FS_Subset, FS_CardinalityType
<1> QED
  BY <1>1 DEF NewId

(* record_collection_item changes the rows of the urls it is given only.   *)
LEMMA RecordedRows ==
  ASSUME NEW tables \in Db, NEW U, NEW status \in RowStatuses
  PROVE  /\ Recorded(tables, U, status) \in Db
         /\ Recorded(tables, U, status).id = tables.id
         /\ \A u \in Urls : Recorded(tables, U, status).row[u]
                              = IF u \in U THEN status ELSE tables.row[u]
BY DEF Recorded, Db

LEMMA InitInvariant == Init => IInv
<1> SUFFICES ASSUME Init PROVE IInv
  OBVIOUS
<1> USE DEF Init, StoreInit, MigrationInit
<1>1. Typed
  BY DEF Typed, Db, RowStatuses, Points
<1> QED
  BY <1>1 DEF IInv, HandIsSaved, NewIsUnknown, Accounted, Faults, Worded, AtHand, Completed

-----------------------------------------------------------------------------
(* Sums of naturals grow with their terms.                                 *)
LEMMA SumGrows ==
  \A a, b, c, k, m, n \in Nat :
    a <= k /\ b <= m /\ c <= n => /\ a + b + c <= k + m + n
                                 /\ a + b + c \in Nat /\ k + m + n \in Nat
OBVIOUS

(* A step that changes neither ids nor rows nor the run's entries, and     *)
(* leaves the faults as they are or adds to them, keeps what is accounted. *)
LEMMA Kept ==
  ASSUME IInv, Typed', view'.id = view.id, view'.row = view.row,
         UNCHANGED <<at, new, raw, left, item, verdict, trial, approvals, outcome,
                     lastRowid, articleId>>,
         crashes <= crashes', errors <= errors', others <= others'
  PROVE  IInv'
<1>1. HandIsSaved' /\ NewIsUnknown'
  BY DEF IInv, HandIsSaved, NewIsUnknown
<1>2. ASSUME NEW u \in Urls PROVE Accounted(u)'
  <2>1. Pending(u) => Pending(u)'
    BY DEF Pending, Publishes
  <2>2. Confused' => Confused
    BY DEF Confused
  <2>3. Faults \in Nat /\ Faults' \in Nat /\ Faults <= Faults'
    <3>1. /\ crashes \in Nat /\ errors \in Nat /\ others \in Nat
          /\ crashes' \in Nat /\ errors' \in Nat /\ others' \in Nat
      BY DEF IInv, Typed
    <3> QED
      BY <3>1, SumGrows DEF Faults
  <2>4. Accounted(u) /\ approvals[u] \in Nat /\ approvals'[u] = approvals[u]
    BY DEF IInv, Typed
  <2>5. \A a, f, g \in Nat : f <= g => /\ (a <= f => a <= g)
                                        /\ (a <= f + 1 => a <= g + 1)
    OBVIOUS
  <2>6. view'.id[u] = view.id[u]
    OBVIOUS
  <2> HIDE DEF Faults
  <2> QED
    BY <2>1, <2>2, <2>3, <2>4, <2>5, <2>6 DEF Accounted
<1>3. Worded'
  BY DEF IInv, Worded, HasWord, Analyzed, Completed
<1> QED
  BY <1>1, <1>2, <1>3 DEF IInv

(* While the database is migrated the store stands still.                  *)
LEMMA MigrateKeeps ==
  ASSUME IInv, UNCHANGED storeVars, crashes' = crashes
  PROVE  IInv'
<1>1. Typed'
  BY DEF IInv, Typed, storeVars, store, locals, persisting, history
<1> QED
  BY <1>1, Kept DEF storeVars, store, locals, persisting, history, IInv, Typed

LEMMA CollectKeeps ==
  ASSUME IInv, Serve(Collect)
  PROVE  IInv'
<1> USE DEF Serve, Collect, Commit, migrationVars
<1>1. Typed' /\ view'.id = view.id
  BY DEF IInv, Typed, Db, RowStatuses, Points
<1>2. HandIsSaved' /\ NewIsUnknown' /\ Worded'
  BY DEF HandIsSaved, NewIsUnknown, Worded, AtHand, Completed
<1>3. \A u \in Urls : Accounted(u)'
  BY <1>1 DEF IInv, Typed, Accounted, Faults, Pending, Confused, AtHand
<1> QED
  BY <1>1, <1>2, <1>3 DEF IInv

LEMMA DedupKeeps ==
  ASSUME IInv, Serve(Dedup)
  PROVE  IInv'
<1> USE DEF Serve, Dedup, Commit, migrationVars
<1>1. /\ view' \in Db /\ view'.id = view.id
      /\ \A u \in Urls : view'.row[u] = IF u \in UrlsOf(raw \ new') THEN "dedup_skipped"
                                                                ELSE view.row[u]
  BY RecordedRows DEF IInv, Typed, RowStatuses
<1>2. Typed'
  BY <1>1 DEF IInv, Typed, Points, persisting
<1>3. HandIsSaved' /\ NewIsUnknown'
  BY <1>1, UrlOfType DEF IInv, Typed, HandIsSaved, NewIsUnknown, AtHand, Existing
<1>4. \A u \in Urls : Accounted(u)'
  BY <1>1 DEF IInv, Typed, Accounted, Faults, Pending, Confused, AtHand
<1>5. \A i \in raw' \ new' : HasWord(UrlOf[i])'
  BY <1>1, UrlOfType DEF IInv, Typed, HasWord, UrlsOf
<1>6. Worded'
  BY <1>5 DEF Worded, AtHand, Completed
<1> QED
  BY <1>2, <1>3, <1>4, <1>6 DEF IInv

LEMMA GraphKeeps ==
  ASSUME IInv, Serve(Graph)
  PROVE  IInv'
<1> USE DEF Serve, Graph, migrationVars, store
<1>1. Typed'
  BY DEF IInv, Typed, Points
<1>2. HandIsSaved' /\ NewIsUnknown'
  BY DEF HandIsSaved, NewIsUnknown, AtHand
<1>3. ASSUME NEW u \in Urls PROVE Accounted(u)'
  <2>1. CASE \E i \in new : /\ UrlOf[i] = u /\ verdict'[i] = "approved"
                            /\ SourceOf[First(new, u)] \notin trial
    <3>1. Pending(u)'
      <4>1. PICK i \in new : /\ UrlOf[i] = u /\ verdict'[i] = "approved"
                             /\ SourceOf[First(new, u)] \notin trial
        BY <2>1
      <4>2. i \in left' /\ Publishes(i)'
        BY <4>1 DEF Publishes
      <4> QED
        BY <4>1, <4>2 DEF Pending
    <3>2. approvals[u] <= Faults
      BY <2>1 DEF IInv, NewIsUnknown, Accounted, Pending, AtHand
    <3> QED
      BY <2>1, <3>1, <3>2 DEF IInv, Typed, Accounted, Faults, Confused
  <2>2. CASE ~ \E i \in new : /\ UrlOf[i] = u /\ verdict'[i] = "approved"
                              /\ SourceOf[First(new, u)] \notin trial
    BY <2>2 DEF IInv, Typed, Accounted, Faults, Confused, Pending, AtHand
  <2> QED
    BY <2>1, <2>2
<1>4. ASSUME NEW i \in Analyzed' PROVE \E j \in left' : UrlOf[j] = UrlOf[i]
  <2>1. CASE verdict'[i] = "merged"
    <3>1. Cardinality({j \in left' : UrlOf[j] = UrlOf[i]}) = 1
      BY <2>1 DEF Analyzed
    <3>2. {j \in left' : UrlOf[j] = UrlOf[i]} # {}
      BY <3>1, FS_EmptySet
    <3> QED
      BY <3>2
  <2>2. CASE verdict'[i] # "merged"
    BY <2>2 DEF Analyzed
  <2> QED
    BY <2>1, <2>2
<1>5. Worded'
  BY <1>4 DEF IInv, Typed, Worded, AtHand, HasWord, Completed
<1> QED
  BY <1>1, <1>2, <1>3, <1>5 DEF IInv

-----------------------------------------------------------------------------
(* A step that is not a fault and at which no approval is given keeps what *)
(* is accounted, if no article disappears and none is about to be lost.    *)
LEMMA StillAccounted ==
  ASSUME IInv, NEW u \in Urls, approvals' = approvals,
         UNCHANGED <<crashes, errors, others>>,
         approvals[u] <= Faults \/ ((view.id[u] # 0 => view'.id[u] # 0) /\ ~ Confused'
                                    /\ (Pending(u) => Pending(u)' \/ view'.id[u] # 0))
  PROVE  Accounted(u)'
<1>1. Faults' = Faults
  BY DEF Faults
<1>2. Accounted(u)
  BY DEF IInv
<1> HIDE DEF Faults
<1> QED
  BY <1>1, <1>2 DEF Accounted

(* A fault excuses one approval more.                                      *)
LEMMA FaultExcuses ==
  ASSUME IInv, approvals' = approvals, Faults' = Faults + 1, NEW u \in Urls
  PROVE  Accounted(u)'
<1>1. Faults \in Nat /\ approvals[u] \in Nat
  BY DEF IInv, Typed, Faults
<1>2. Accounted(u)
  BY DEF IInv
<1>3. \A a, f \in Nat : a <= f + 1 \/ a <= f => a <= f + 1
  OBVIOUS
<1> HIDE DEF Faults
<1> QED
  BY <1>1, <1>2, <1>3 DEF Accounted

LEMMA PersistNoArticleKeeps ==
  ASSUME IInv, NEW i \in Items, Serve(PersistNoArticle(i))
  PROVE  IInv'
<1> USE DEF Serve, PersistNoArticle, Commit, migrationVars, history
<1> DEFINE status == IF verdict[i] = "discarded" THEN "reviewed_discarded"
                                                  ELSE "trial_approved"
<1>1. /\ view' \in Db /\ view'.id = view.id /\ disk' = view'
      /\ \A u \in Urls : view'.row[u] = IF u = UrlOf[i] THEN status ELSE view.row[u]
  BY RecordedRows DEF IInv, Typed, RowStatuses
<1>2. Typed'
  BY <1>1 DEF IInv, Typed, Points
<1>3. HandIsSaved' /\ NewIsUnknown'
  BY DEF HandIsSaved, NewIsUnknown, AtHand
<1>4. ASSUME NEW u \in Urls PROVE Accounted(u)'
  <2>1. Pending(u) => Pending(u)'
    BY DEF Pending, Publishes
  <2> QED
    BY <1>1, <2>1, StillAccounted DEF Confused
<1>5. \A u \in Urls : HasWord(u) \/ u = UrlOf[i] => HasWord(u)'
  BY <1>1 DEF HasWord
<1>6. Worded'
  BY <1>5, UrlOfType DEF IInv, Typed, Worded, AtHand, Analyzed, Completed
<1> QED
  BY <1>2, <1>3, <1>4, <1>6 DEF IInv

LEMMA SaveArticleKeeps ==
  ASSUME IInv, NEW i \in Items, Serve(SaveArticle(i))
  PROVE  IInv'
<1> USE DEF Serve, SaveArticle, Commit, migrationVars, history
<1>1. /\ view' \in Db /\ disk'.id = view'.id /\ disk'.row = view'.row /\ disk' \in Db
      /\ view'.row = view.row
      /\ \A u \in Urls : view.id[u] # 0 => view'.id[u] = view.id[u]
      /\ view'.id[UrlOf[i]] # 0
      /\ at' = "rowid" => view'.id[UrlOf[i]] = lastRowid'
      /\ at' = "record" => view'.id[UrlOf[i]] = articleId'
  BY NewIdPositive, UrlOfType DEF IInv, Typed, Db
<1>2. Typed'
  BY <1>1 DEF IInv, Typed, Points
<1>3. HandIsSaved' /\ NewIsUnknown'
  BY <1>1 DEF HandIsSaved, NewIsUnknown, AtHand
<1>4. ASSUME NEW u \in Urls PROVE Accounted(u)'
  <2>1. Pending(u) => Pending(u)'
    BY DEF Pending, Publishes, AtHand
  <2>2. ~ Confused'
    BY <1>1, UrlOfType DEF Confused
  <2> QED
    BY <1>1, <2>1, <2>2, StillAccounted
<1>5. Worded'
  BY <1>1 DEF IInv, Worded, AtHand, HasWord, Analyzed, Completed
<1> QED
  BY <1>2, <1>3, <1>4, <1>5 DEF IInv

LEMMA LastInsertRowidKeeps ==
  ASSUME IInv, Serve(LastInsertRowid)
  PROVE  IInv'
<1> USE DEF Serve, LastInsertRowid, migrationVars, history, store
<1>1. Typed'
  BY DEF IInv, Typed, Points
<1>2. HandIsSaved' /\ NewIsUnknown'
  BY DEF IInv, HandIsSaved, NewIsUnknown, AtHand
<1>3. ASSUME NEW u \in Urls PROVE Accounted(u)'
  <2>1. Pending(u) => Pending(u)'
    BY DEF Pending, Publishes, AtHand
  <2>2. Confused' => Confused
    BY DEF Confused
  <2>3. approvals[u] <= Faults \/ ~ Confused
    BY DEF IInv, Accounted
  <2> QED
    BY <2>1, <2>2, <2>3, StillAccounted
<1>4. Worded'
  BY DEF IInv, Worded, AtHand, HasWord, Analyzed, Completed
<1> QED
  BY <1>1, <1>2, <1>3, <1>4 DEF IInv

LEMMA RecordInsertedKeeps ==
  ASSUME IInv, Serve(RecordInserted)
  PROVE  IInv'
<1> USE DEF Serve, RecordInserted, Commit, migrationVars, history
<1>1. /\ view' \in Db /\ view'.id = view.id /\ disk' = view'
      /\ \A u \in Urls : view'.row[u] = IF u = UrlOf[item] THEN "inserted" ELSE view.row[u]
  BY RecordedRows DEF IInv, Typed, RowStatuses
<1>2. Typed'
  BY <1>1 DEF IInv, Typed, Points
<1>3. HandIsSaved' /\ NewIsUnknown'
  BY <1>1 DEF IInv, HandIsSaved, NewIsUnknown, AtHand
<1>4. ASSUME NEW u \in Urls PROVE Accounted(u)'
  <2>1. Pending(u) => Pending(u)'
    BY DEF Pending, Publishes, AtHand
  <2> QED
    BY <1>1, <2>1, StillAccounted DEF Confused
<1>5. item \in Items
  BY DEF IInv, Typed, HandIsSaved, AtHand
<1>6. \A u \in Urls : HasWord(u) \/ u = UrlOf[item] => HasWord(u)'
  BY <1>1 DEF HasWord
<1>7. Worded'
  BY <1>5, <1>6, UrlOfType DEF IInv, Typed, Worded, AtHand, Analyzed, Completed
<1> QED
  BY <1>2, <1>3, <1>4, <1>7 DEF IInv

(* Tags are neither ids nor rows.                                          *)
LEMMA DeleteTagsKeeps ==
  ASSUME IInv, Serve(DeleteTags)
  PROVE  IInv'
<1> USE DEF Serve, DeleteTags, migrationVars, history
<1>1. view' \in Db /\ view'.id = view.id /\ view'.row = view.row
  BY DEF IInv, Typed, Db
<1>2. Typed'
  BY <1>1 DEF IInv, Typed, Points
<1>3. HandIsSaved' /\ NewIsUnknown'
  BY <1>1 DEF IInv, HandIsSaved, NewIsUnknown, AtHand
<1>4. ASSUME NEW u \in Urls PROVE Accounted(u)'
  <2>1. Pending(u) => Pending(u)'
    BY DEF Pending, Publishes, AtHand
  <2> QED
    BY <1>1, <2>1, StillAccounted DEF Confused
<1>5. Worded'
  BY <1>1 DEF IInv, Worded, AtHand, HasWord, Analyzed, Completed
<1> QED
  BY <1>2, <1>3, <1>4, <1>5 DEF IInv

LEMMA InsertTagKeeps ==
  ASSUME IInv, NEW t \in Tags, Serve(InsertTag(t))
  PROVE  IInv'
<1> USE DEF Serve, InsertTag, migrationVars, history
<1>1. view' \in Db /\ view'.id = view.id /\ view'.row = view.row
  BY DEF IInv, Typed, Db
<1>2. Typed'
  BY <1>1 DEF IInv, Typed, Points
<1>3. crashes <= crashes' /\ errors <= errors' /\ others <= others'
  BY DEF IInv, Typed
<1> QED
  BY <1>1, <1>2, <1>3, Kept

(* The entry that is done has its word, and its article is there.          *)
LEMMA RecordEventKeeps ==
  ASSUME IInv, Serve(RecordEvent)
  PROVE  IInv'
<1> USE DEF Serve, RecordEvent, migrationVars, history
<1>1. Typed'
  BY DEF IInv, Typed, Points
<1>2. HandIsSaved' /\ NewIsUnknown'
  BY DEF HandIsSaved, NewIsUnknown, AtHand
<1>3. ASSUME NEW u \in Urls PROVE Accounted(u)'
  <2>1. Pending(u) => Pending(u)' \/ view'.id[u] # 0
    BY DEF IInv, HandIsSaved, Pending, Publishes, AtHand
  <2> QED
    BY <2>1, StillAccounted DEF Confused
<1>4. Worded'
  BY DEF IInv, Typed, Worded, AtHand, HasWord, Analyzed, Completed
<1> QED
  BY <1>1, <1>2, <1>3, <1>4 DEF IInv

(* Nothing is left when a run ends: what is approved is saved.             *)
LEMMA EndRunKeeps ==
  ASSUME IInv, Serve(EndRun)
  PROVE  IInv'
<1> USE DEF Serve, EndRun, Commit, migrationVars, locals, persisting
<1>1. /\ view' \in Db /\ view'.id = view.id /\ disk' = view'
      /\ \A u \in Urls : view'.row[u] = IF u \in UrlsOf(Unanalyzed) THEN "analysis_failed"
                                                                   ELSE view.row[u]
  BY RecordedRows DEF IInv, Typed, RowStatuses
<1>2. Typed'
  BY <1>1 DEF IInv, Typed, Points
<1>3. HandIsSaved' /\ NewIsUnknown'
  BY DEF HandIsSaved, NewIsUnknown, AtHand
<1>4. ASSUME NEW u \in Urls PROVE Accounted(u)'
  <2>1. ~ Pending(u)
    BY DEF Pending
  <2> QED
    BY <1>1, <2>1, StillAccounted DEF Confused
<1>5. ASSUME NEW i \in raw PROVE HasWord(UrlOf[i])'
  <2>1. CASE i \in new /\ UrlOf[i] \notin UrlsOf(Analyzed)
    BY <1>1, <2>1, UrlOfType DEF IInv, Typed, HasWord, UrlsOf, Unanalyzed
  <2>2. CASE i \notin new
    BY <1>1, <2>2, UrlOfType DEF IInv, Typed, Worded, HasWord
  <2>3. CASE i \in new /\ UrlOf[i] \in UrlsOf(Analyzed)
    <3>1. PICK j \in Analyzed : UrlOf[j] = UrlOf[i]
      BY <2>3 DEF UrlsOf
    <3>2. HasWord(UrlOf[i])
      BY <3>1 DEF IInv, Worded
    <3> QED
      BY <1>1, <3>2, UrlOfType DEF IInv, Typed, HasWord
  <2> QED
    BY <2>1, <2>2, <2>3
<1>6. Worded'
  BY <1>5 DEF Worded, AtHand, Completed
<1> QED
  BY <1>2, <1>3, <1>4, <1>6 DEF IInv

-----------------------------------------------------------------------------
(* A run that fails, or is lost, leaves nothing at hand.                   *)
LEMMA StatementRaisesKeeps ==
  ASSUME IInv, Serve(StatementRaises)
  PROVE  IInv'
<1> USE DEF Serve, StatementRaises, RunFails, Forgotten, migrationVars
<1>1. Typed'
  BY DEF IInv, Typed, Points
<1>2. HandIsSaved' /\ NewIsUnknown' /\ Worded'
  BY DEF HandIsSaved, NewIsUnknown, Worded, AtHand, Completed
<1>3. Faults' = Faults + 1
  BY DEF IInv, Typed, Faults
<1> QED
  BY <1>1, <1>2, <1>3, FaultExcuses DEF IInv

LEMMA RecordRaisesKeeps ==
  ASSUME IInv, Serve(RecordRaises)
  PROVE  IInv'
<1> USE DEF Serve, RecordRaises, RunFails, Forgotten, migrationVars
<1>1. Typed'
  BY DEF IInv, Typed, Points
<1>2. HandIsSaved' /\ NewIsUnknown' /\ Worded'
  BY DEF HandIsSaved, NewIsUnknown, Worded, AtHand, Completed
<1>3. \A u \in Urls : approvals[u] <= Faults
  BY DEF IInv, Accounted, Confused
<1> QED
  BY <1>1, <1>2, <1>3, StillAccounted DEF IInv

LEMMA OtherInsertsKeeps ==
  ASSUME IInv, Serve(OtherInserts)
  PROVE  IInv'
<1> USE DEF Serve, OtherInserts, migrationVars, locals, persisting
<1>1. Typed'
  BY DEF IInv, Typed
<1>2. HandIsSaved' /\ NewIsUnknown'
  BY DEF IInv, HandIsSaved, NewIsUnknown
<1>3. Faults' = Faults + 1
  BY DEF IInv, Typed, Faults
<1>4. Worded'
  BY DEF IInv, Worded, HasWord, Analyzed, Completed
<1> QED
  BY <1>1, <1>2, <1>3, <1>4, FaultExcuses DEF IInv

LEMMA OtherCommitsKeeps ==
  ASSUME IInv, Serve(OtherCommits)
  PROVE  IInv'
<1> USE DEF Serve, OtherCommits, migrationVars, locals, persisting, history
<1>1. Typed'
  BY DEF IInv, Typed
<1>2. crashes <= crashes' /\ errors <= errors' /\ others <= others'
  BY DEF IInv, Typed
<1> QED
  BY <1>1, <1>2, Kept

LEMMA CrashKeeps ==
  ASSUME IInv, Crash
  PROVE  IInv'
<1> USE DEF Crash, ProcessDies, Lost, Forgotten, locals, persisting
<1>1. Typed'
  BY DEF IInv, Typed, Points
<1>2. HandIsSaved' /\ NewIsUnknown'
  BY DEF HandIsSaved, NewIsUnknown, AtHand
<1>3. Faults' = Faults + 1
  BY DEF IInv, Typed, Faults
<1>4. Worded'
  BY DEF IInv, Typed, Worded, AtHand, HasWord, Completed
<1> QED
  BY <1>1, <1>2, <1>3, <1>4, FaultExcuses DEF IInv

-----------------------------------------------------------------------------
LEMMA NextInvariant == IInv /\ [Next]_vars => IInv'
<1> SUFFICES ASSUME IInv, [Next]_vars PROVE IInv'
  OBVIOUS
<1>1. CASE \/ Migrate(Start) \/ Migrate(Creates) \/ Migrate(Versions)
           \/ Migrate(Gathers) \/ Migrate(Merges) \/ Migrate(Forgets)
           \/ Migrate(Renames) \/ Migrate(Copies) \/ Migrate(Drops)
           \/ Migrate(Raises) \/ Migrate(RecordVersion)
  <2>1. UNCHANGED storeVars /\ crashes' = crashes
    BY <1>1 DEF Migrate, Start, Creates, Versions, Gathers, Merges, Forgets, Renames,
                Copies, Drops, Raises, RecordVersion, Applied
  <2> QED
    BY <2>1, MigrateKeeps
<1>2. CASE Serve(Collect)
  BY <1>2, CollectKeeps
<1>3. CASE Serve(Dedup)
  BY <1>3, DedupKeeps
<1>4. CASE Serve(Graph)
  BY <1>4, GraphKeeps
<1>5. ASSUME NEW i \in Items, Serve(PersistNoArticle(i)) PROVE IInv'
  BY <1>5, PersistNoArticleKeeps
<1>6. ASSUME NEW i \in Items, Serve(SaveArticle(i)) PROVE IInv'
  BY <1>6, SaveArticleKeeps
<1>7. CASE Serve(LastInsertRowid) \/ Serve(RecordInserted)
  BY <1>7, LastInsertRowidKeeps, RecordInsertedKeeps
<1>8. CASE Serve(DeleteTags) \/ Serve(RecordEvent) \/ Serve(EndRun)
  BY <1>8, DeleteTagsKeeps, RecordEventKeeps, EndRunKeeps
<1>9. ASSUME NEW t \in Tags, Serve(InsertTag(t)) PROVE IInv'
  BY <1>9, InsertTagKeeps
<1>10. CASE \/ Serve(StatementRaises) \/ Serve(RecordRaises)
            \/ Serve(OtherInserts) \/ Serve(OtherCommits)
  BY <1>10, StatementRaisesKeeps, RecordRaisesKeeps, OtherInsertsKeeps, OtherCommitsKeeps
<1>11. CASE Crash
  BY <1>11, CrashKeeps
<1>12. CASE UNCHANGED vars
  BY <1>12, MigrateKeeps DEF vars, migrationVars
<1>13. CASE Quiet
  BY <1>12, <1>13 DEF Quiet
<1> QED
  BY <1>1, <1>2, <1>3, <1>4, <1>5, <1>6, <1>7, <1>8, <1>9, <1>10, <1>11, <1>12, <1>13
  DEF Next

(* The inductive invariant of the database and the run that writes to it.  *)
THEOREM Invariance == Spec => []IInv
<1> QED
  BY InitInvariant, NextInvariant, PTL DEF Spec

(* save_article and batch_check_existing_urls, with the graph between      *)
(* them: an article is approved in a second run only if a run was cut short*)
(* before it was saved, once more for every such run.                      *)
THEOREM ApprovedOnce == Spec => []ApprovedInOneRun
<1>1. IInv => ApprovedInOneRun
  <2> SUFFICES ASSUME IInv, NEW u \in Urls
               PROVE  approvals[u] <= 1 + crashes + errors + others
    BY DEF ApprovedInOneRun
  <2>1. Accounted(u) /\ approvals[u] \in Nat
    BY DEF IInv, Typed
  <2> QED
    BY <2>1 DEF IInv, Typed, Accounted, Faults
<1> QED
  BY <1>1, Invariance, PTL

(* record_collection_item, keyed by url, and the verdicts, held by item:   *)
(* a run that completes has said of every item it kept what became of it.  *)
THEOREM LastWordAlways == Spec => []EveryItemHasLastWord
<1>1. IInv => EveryItemHasLastWord
  BY DEF IInv, Typed, Worded, HasWord, EveryItemHasLastWord
<1> QED
  BY <1>1, Invariance, PTL

-----------------------------------------------------------------------------
(***************************************************************************)
(* Types of the store, and the tags.  Ids are given in order, one to an    *)
(* article; a run approves a url at most once.                             *)
(***************************************************************************)
Saved == {u \in Urls : view.id[u] # 0}

Numbered ==
  /\ \A u \in Urls : view.id[u] \in 0..Cardinality(Saved)
  /\ \A u, v \in Urls : view.id[u] # 0 /\ view.id[u] = view.id[v] => u = v

Approved ==
  \A u \in Urls : IF at \in {"dedup", "graph"} THEN approvals[u] < runs ELSE approvals[u] <= runs

\* What the run holds of the entry at hand.
Hand ==
  /\ item # 0 <=> at \in AtHand
  /\ item \in new \union {0}
  /\ lastRowid \in Ids \union OtherRowids \union {0}
  /\ articleId \in Ids \union OtherRowids \union {0}
  /\ tagsLeft \subseteq Tags /\ inserted \subseteq Urls /\ trial \subseteq Sources
  /\ verdict \in [Items -> {"none", "failed", "merged", "approved", "discarded"}]

Bounds ==
  /\ runs \in 0..MaxRuns /\ errors + others <= MaxFaults
  /\ outcome \in {"none", "running", "completed", "failed"}

SInv == IInv /\ Numbered /\ Approved /\ Hand /\ Bounds

\* The articles whose tags are not their own.
Wrong(db) == {u \in Urls : db.id[u] # 0 /\ db.tags[db.id[u]] # TagsOf[u]}

\* The articles the run may have left half tagged: the entry's, and the one it writes to.
Touched ==
  {u \in Urls : \/ at \in AtHand /\ u = UrlOf[item]
                \/ at = "tag" /\ view.id[u] = articleId /\ articleId # 0}

Damaged == (Wrong(view) \union Wrong(disk)) \ Touched

\* The run is about to tag an article that is not the entry's.
Mistaken ==
  \/ at = "rowid" /\ lastRowid # view.id[UrlOf[item]]
  \/ at \in {"record", "untag", "tag"} /\ articleId # view.id[UrlOf[item]]

DInv ==
  /\ at = "tag" /\ ~ Mistaken => view.tags[articleId] \union tagsLeft = TagsOf[UrlOf[item]]
  /\ Cardinality(Damaged) + (IF Mistaken THEN 2 ELSE 0) <= crashes + errors + 2 * others

(* A cardinality of urls is a number, and a set has no more than the whole. *)
LEMMA UrlSets ==
  ASSUME NEW A \in SUBSET Urls, NEW B \in SUBSET Urls
  PROVE  /\ IsFiniteSet(A) /\ Cardinality(A) \in Nat /\ Cardinality(Urls) \in Nat
         /\ Cardinality(A) <= Cardinality(Urls)
         /\ A \subseteq B => Cardinality(A) <= Cardinality(B)
<1>1. IsFiniteSet(A) /\ IsFiniteSet(B) /\ IsFiniteSet(Urls)
  BY UrlsFinite, FS_Subset
<1>2. /\ Cardinality(A) \in Nat /\ Cardinality(Urls) \in Nat
      /\ Cardinality(A) <= Cardinality(Urls)
  BY <1>1, UrlsFinite, FS_Subset, FS_CardinalityType
<1>3. A \subseteq B => Cardinality(A) <= Cardinality(B)
  BY <1>1, FS_Subset
<1> QED  BY <1>1, <1>2, <1>3

LEMMA OneMoreUrl ==
  ASSUME NEW B \in SUBSET Urls, NEW x \in Urls
  PROVE  /\ Cardinality(B \union {x}) \in Nat
         /\ Cardinality(B \union {x}) <= Cardinality(B) + 1
         /\ x \notin B => Cardinality(B \union {x}) = Cardinality(B) + 1
<1>1. IsFiniteSet(B) /\ Cardinality(B) \in Nat
  BY UrlsFinite, FS_Subset, FS_CardinalityType
<1>2. Cardinality(B \union {x}) = IF x \in B THEN Cardinality(B) ELSE Cardinality(B) + 1
  BY <1>1, FS_AddElement
<1>3. \A n \in Nat : n + 1 \in Nat /\ n <= n + 1
  OBVIOUS
<1>4. CASE x \in B
  BY <1>1, <1>2, <1>3, <1>4
<1>5. CASE x \notin B
  BY <1>1, <1>2, <1>3, <1>5
<1> QED  BY <1>4, <1>5

(* The ids are those of AUTOINCREMENT: the next one is free, and there are  *)
(* never more of them than urls.                                            *)
LEMMA IdsFit ==
  ASSUME SInv
  PROVE  /\ \A u \in Urls : view.id[u] \in 0..Cardinality(Urls)
         /\ \A u \in Urls : view.id[u] # 0 => view.id[u] \in Ids
         /\ NewId = Cardinality(Saved) + 1 /\ Cardinality(Saved) \in Nat
         /\ \A u \in Urls : view.id[u] = 0 => NewId \in Ids
<1>1. /\ Saved \in SUBSET Urls /\ Cardinality(Saved) \in Nat /\ Cardinality(Urls) \in Nat
      /\ Cardinality(Saved) <= Cardinality(Urls)
  BY UrlSets DEF Saved
<1>2. NewId = Cardinality(Saved) + 1
  BY <1>1 DEF NewId, Saved
<1>3. \A u \in Urls : view.id[u] \in 0..Cardinality(Saved)
  BY DEF SInv, Numbered
<1>4. ASSUME NEW u \in Urls, view.id[u] = 0 PROVE NewId \in Ids
  <2>1. u \notin Saved
    BY <1>4 DEF Saved
  <2>2. Cardinality(Saved \union {u}) = Cardinality(Saved) + 1
    BY <1>1, <2>1, OneMoreUrl
  <2>3. Cardinality(Saved \union {u}) <= Cardinality(Urls)
    BY <1>1, UrlSets
  <2> HIDE DEF Saved
  <2> QED  BY <1>1, <1>2, <2>2, <2>3 DEF Ids
<1> HIDE DEF Saved
<1>5. \A u \in Urls : view.id[u] \in 0..Cardinality(Urls)
  BY <1>1, <1>3
<1>6. \A u \in Urls : view.id[u] # 0 => view.id[u] \in Ids
  BY <1>1, <1>5 DEF Ids
<1> QED  BY <1>1, <1>2, <1>4, <1>5, <1>6

LEMMA NumberedStays ==
  ASSUME SInv, view'.id = view.id
  PROVE  Numbered'
BY DEF SInv, Numbered, Saved

(* A new article has a number that no other one has.                        *)
LEMMA SaveNumbers ==
  ASSUME SInv, NEW u \in Urls, view.id[u] = 0,
         view' = [view EXCEPT !.id[u] = NewId]
  PROVE  Numbered' /\ view'.id[u] = NewId /\ view'.tags = view.tags
         /\ \A v \in Urls : v # u => view'.id[v] = view.id[v]
<1>1. /\ view'.id[u] = NewId /\ view'.tags = view.tags
      /\ \A v \in Urls : v # u => view'.id[v] = view.id[v]
  BY DEF SInv, IInv, Typed, Db
<1>2. NewId = Cardinality(Saved) + 1 /\ Cardinality(Saved) \in Nat
  BY IdsFit
<1>3. Saved' = Saved \union {u} /\ u \notin Saved /\ Saved \in SUBSET Urls
  BY <1>1, NewIdPositive DEF Saved
<1>4. Cardinality(Saved') = Cardinality(Saved) + 1
  BY <1>3, OneMoreUrl
<1>5. \A v \in Urls : view.id[v] \in 0..Cardinality(Saved)
  BY DEF SInv, Numbered
<1>6. ASSUME NEW v \in Urls PROVE view'.id[v] \in 0..Cardinality(Saved')
  BY <1>1, <1>2, <1>4, <1>5
<1>7. \A v \in Urls : v # u => view'.id[v] # NewId
  BY <1>1, <1>2, <1>5
<1>8. ASSUME NEW v \in Urls, NEW w \in Urls, view'.id[v] # 0, view'.id[v] = view'.id[w]
      PROVE  v = w
  BY <1>1, <1>7, <1>8 DEF SInv, Numbered
<1> QED  BY <1>1, <1>6, <1>8 DEF Numbered

(* The steps that leave the ids alone, and what the others do.              *)
LEMMA IdsStay ==
  ASSUME SInv,
         \/ UNCHANGED storeVars
         \/ Collect \/ Dedup \/ Graph \/ LastInsertRowid \/ RecordInserted \/ DeleteTags
         \/ RecordEvent \/ EndRun \/ StatementRaises \/ RecordRaises \/ OtherInserts
         \/ OtherCommits \/ Crash
         \/ \E i \in Items : PersistNoArticle(i)
         \/ \E t \in Tags : InsertTag(t)
  PROVE  view'.id = view.id
<1> USE DEF SInv, IInv, Typed, Db, Commit, Recorded, store
<1>1. CASE UNCHANGED storeVars \/ Graph \/ LastInsertRowid \/ RecordEvent \/ StatementRaises
           \/ RecordRaises \/ OtherInserts \/ OtherCommits \/ Crash
  BY <1>1 DEF storeVars, Graph, LastInsertRowid, RecordEvent, StatementRaises, RecordRaises,
              OtherInserts, OtherCommits, Crash, Lost
<1>2. CASE Collect \/ Dedup \/ RecordInserted \/ EndRun \/ \E i \in Items : PersistNoArticle(i)
  BY <1>2 DEF Collect, Dedup, RecordInserted, EndRun, PersistNoArticle
<1>3. CASE DeleteTags \/ \E t \in Tags : InsertTag(t)
  BY <1>3 DEF DeleteTags, InsertTag
<1> QED  BY <1>1, <1>2, <1>3

-----------------------------------------------------------------------------
(* What a step leaves of the run's approvals, entry at hand and bounds.     *)
RunTyped == Approved /\ Hand /\ Bounds

LEMMA TagsOfUrls == \A u \in Urls : TagsOf[u] \subseteq Tags
BY DEF Tags

(* A run that is forgotten, or never was.                                   *)
LEMMA NothingAtHand ==
  ASSUME SInv, Forgotten, at' = "idle", lastRowid' \in {lastRowid, 0},
         UNCHANGED <<runs, approvals>>, errors' + others' <= MaxFaults,
         outcome' \in {"none", "running", "completed", "failed"}
  PROVE  RunTyped'
<1>1. Approved'
  <2> SUFFICES ASSUME NEW u \in Urls PROVE approvals[u] <= runs
    BY DEF Approved
  <2>1. approvals[u] \in Nat /\ runs \in Nat
    BY DEF SInv, IInv, Typed, Bounds
  <2> QED  BY <2>1 DEF SInv, Approved
<1>2. Hand'
  BY DEF SInv, Hand, Forgotten, AtHand
<1>3. Bounds'
  BY DEF SInv, Bounds
<1> QED  BY <1>1, <1>2, <1>3 DEF RunTyped

LEMMA CollectTyped == ASSUME SInv, Collect PROVE RunTyped'
<1> USE DEF Collect
<1>1. Approved'
  <2> SUFFICES ASSUME NEW u \in Urls PROVE approvals[u] < runs + 1
    BY DEF Approved
  <2>1. approvals[u] \in Nat /\ runs \in Nat /\ approvals[u] <= runs
    BY DEF SInv, IInv, Typed, Bounds, Approved
  <2> QED  BY <2>1
<1>2. Hand'
  BY DEF SInv, Hand, AtHand
<1>3. Bounds'
  <2>1. runs + 1 \in 0..MaxRuns
    BY BoundAssumption DEF SInv, Bounds
  <2> QED  BY <2>1 DEF SInv, Bounds
<1> QED  BY <1>1, <1>2, <1>3 DEF RunTyped

LEMMA DedupTyped == ASSUME SInv, Dedup PROVE RunTyped'
<1> USE DEF Dedup, persisting
<1>1. Approved'
  <2>1. \A u \in Urls : approvals[u] \in Nat /\ runs \in Nat /\ approvals[u] < runs
    BY DEF SInv, IInv, Typed, Bounds, Approved
  <2> QED  BY <2>1 DEF Approved
<1>2. Hand'
  BY DEF SInv, Hand, AtHand
<1>3. Bounds'
  BY DEF SInv, Bounds
<1> QED  BY <1>1, <1>2, <1>3 DEF RunTyped

LEMMA GraphTyped == ASSUME SInv, Graph PROVE RunTyped'
<1> USE DEF Graph, store
<1>1. Approved'
  <2> SUFFICES ASSUME NEW u \in Urls PROVE approvals'[u] <= runs
    BY DEF Approved
  <2>1. approvals'[u] \in {approvals[u], approvals[u] + 1}
    OBVIOUS
  <2>2. approvals[u] \in Nat /\ runs \in Nat /\ approvals[u] < runs
    BY DEF SInv, IInv, Typed, Bounds, Approved
  <2> QED  BY <2>1, <2>2
<1>2. Hand'
  BY DEF SInv, Hand, AtHand
<1>3. Bounds'
  BY DEF SInv, Bounds
<1> QED  BY <1>1, <1>2, <1>3 DEF RunTyped

(* The steps that persist an entry neither approve nor fail.                *)
LEMMA PersistTyped ==
  ASSUME SInv,
         \/ LastInsertRowid \/ RecordInserted \/ DeleteTags \/ RecordEvent \/ EndRun
         \/ \E i \in Items : PersistNoArticle(i) \/ SaveArticle(i)
         \/ \E t \in Tags : InsertTag(t)
  PROVE  RunTyped'
<1>1. /\ at \in AtHand \union {"persist"} /\ at' \in AtHand \union {"persist", "idle"}
      /\ UNCHANGED <<runs, approvals, errors, others>>
      /\ outcome' \in {outcome, "failed", "completed"}
  BY DEF LastInsertRowid, RecordInserted, DeleteTags, RecordEvent, EndRun, PersistNoArticle,
         SaveArticle, InsertTag, AtHand, history
<1>2. Approved' /\ Bounds'
  <2>1. Approved'
    BY <1>1 DEF SInv, Approved, AtHand
  <2>2. Bounds'
    BY <1>1 DEF SInv, Bounds
  <2> QED  BY <2>1, <2>2
<1> USE DEF SInv, Hand
<1>3. CASE LastInsertRowid \/ RecordEvent \/ EndRun \/ \E t \in Tags : InsertTag(t)
  <2>1. Hand'
    BY <1>3 DEF LastInsertRowid, RecordEvent, EndRun, InsertTag, store, locals, persisting, AtHand
  <2> QED  BY <1>2, <2>1 DEF RunTyped
<1>4. CASE \E i \in Items : PersistNoArticle(i)
  <2>1. Hand'
    BY <1>4 DEF PersistNoArticle, AtHand
  <2> QED  BY <1>2, <2>1 DEF RunTyped
<1>5. CASE RecordInserted \/ DeleteTags
  <2>1. UrlOf[item] \in Urls /\ TagsOf[UrlOf[item]] \subseteq Tags
    BY <1>5, UrlOfType, TagsOfUrls DEF RecordInserted, DeleteTags, AtHand, IInv, HandIsSaved, Typed
  <2>2. Hand'
    BY <1>5, <2>1 DEF RecordInserted, DeleteTags, AtHand
  <2> QED  BY <1>2, <2>2 DEF RunTyped
<1>6. ASSUME NEW i \in Items, SaveArticle(i) PROVE RunTyped'
  <2>1. i \in new /\ i # 0 /\ UrlOf[i] \in Urls
    BY <1>6, UrlOfType DEF SaveArticle, IInv, Typed, Items
  <2>2. view.id[UrlOf[i]] # 0 => view.id[UrlOf[i]] \in Ids
    BY <2>1, IdsFit
  <2>3. view.id[UrlOf[i]] = 0 => NewId \in Ids
    BY <2>1, IdsFit
  <2>4. Hand'
    BY <1>6, <2>1, <2>2, <2>3 DEF SaveArticle, AtHand
  <2> QED  BY <1>2, <2>4 DEF RunTyped
<1> QED  BY <1>3, <1>4, <1>5, <1>6

LEMMA FailureTyped ==
  ASSUME SInv, StatementRaises \/ RecordRaises \/ OtherInserts \/ OtherCommits \/ Crash
  PROVE  RunTyped'
<1>0. /\ errors \in Nat /\ others \in Nat /\ MaxFaults \in Nat
      /\ \A e, o, m \in Nat : e + o < m => (e + 1) + o <= m /\ e + (o + 1) <= m
  BY BoundAssumption DEF SInv, IInv, Typed
<1>1. CASE StatementRaises \/ RecordRaises
  <2>1. /\ Forgotten /\ at' = "idle" /\ outcome' = "failed" /\ lastRowid' = lastRowid
        /\ UNCHANGED <<runs, approvals>>
    BY <1>1 DEF StatementRaises, RecordRaises, RunFails
  <2>2. errors' + others' <= MaxFaults
    BY <1>0, <1>1 DEF StatementRaises, RecordRaises, SInv, Bounds
  <2> QED  BY <2>1, <2>2, NothingAtHand
<1>2. CASE OtherInserts
  <2>1. Approved'
    BY <1>2 DEF OtherInserts, locals, SInv, Approved
  <2>2. Hand'
    BY <1>2 DEF OtherInserts, locals, persisting, SInv, Hand
  <2>3. errors' + others' <= MaxFaults
    BY <1>0, <1>2 DEF OtherInserts
  <2>4. Bounds'
    BY <1>2, <2>3 DEF OtherInserts, SInv, Bounds
  <2> QED  BY <2>1, <2>2, <2>4 DEF RunTyped
<1>3. CASE OtherCommits
  BY <1>3 DEF OtherCommits, locals, persisting, history, SInv, Approved, Hand, Bounds, RunTyped
<1>4. CASE Crash
  <2>1. UNCHANGED <<runs, approvals, errors, others>> /\ lastRowid' = 0 /\ outcome' = outcome
    BY <1>4 DEF Crash, Lost
  <2>2. CASE at = "idle"
    <3>1. Hand'
      BY <1>4, <2>2 DEF Crash, Lost, locals, persisting, SInv, Hand
    <3>2. Approved' /\ Bounds'
      BY <1>4, <2>1, <2>2 DEF Crash, Lost, SInv, Approved, Bounds
    <3> QED  BY <3>1, <3>2 DEF RunTyped
  <2>3. CASE at # "idle"
    BY <1>4, <2>1, <2>3, NothingAtHand DEF Crash, Lost, SInv, Bounds
  <2> QED  BY <2>2, <2>3
<1> QED  BY <1>1, <1>2, <1>3, <1>4

LEMMA SInvInitial == Init => SInv
<1> SUFFICES ASSUME Init PROVE SInv
  OBVIOUS
<1> USE DEF Init, StoreInit
<1>1. IInv
  BY InitInvariant
<1>2. Numbered
  <2>1. Cardinality(Saved) \in Nat /\ \A u \in Urls : view.id[u] = 0
    BY UrlSets DEF Saved
  <2> QED  BY <2>1 DEF Numbered
<1>3. Approved /\ Hand /\ Bounds
  BY BoundAssumption DEF Approved, Hand, AtHand, Bounds
<1> QED  BY <1>1, <1>2, <1>3 DEF SInv

(* A step of the store.                                                     *)
StoreStep ==
  \/ UNCHANGED storeVars
  \/ Collect \/ Dedup \/ Graph \/ LastInsertRowid \/ RecordInserted \/ DeleteTags
  \/ RecordEvent \/ EndRun \/ StatementRaises \/ RecordRaises \/ OtherInserts
  \/ OtherCommits \/ Crash
  \/ \E i \in Items : PersistNoArticle(i) \/ SaveArticle(i)
  \/ \E t \in Tags : InsertTag(t)

LEMMA NextIsStoreStep == [Next]_vars => StoreStep
<1> USE DEF Migrate, Serve, Quiet, vars, StoreStep
<1> QED  BY DEF Next

LEMMA SInvStep == SInv /\ [Next]_vars => SInv'
<1> SUFFICES ASSUME SInv, [Next]_vars PROVE SInv'
  OBVIOUS
<1>1. IInv'
  BY NextInvariant DEF SInv
<1>2. StoreStep
  BY NextIsStoreStep
<1>3. Numbered'
  <2>1. CASE \E i \in Items : SaveArticle(i)
    <3>1. PICK i \in Items : SaveArticle(i)
      BY <2>1
    <3>2. CASE view.id[UrlOf[i]] # 0
      BY <3>1, <3>2, NumberedStays DEF SaveArticle
    <3>3. CASE view.id[UrlOf[i]] = 0
      BY <3>1, <3>3, SaveNumbers, UrlOfType DEF SaveArticle, Commit
    <3> QED  BY <3>2, <3>3
  <2>2. CASE ~ \E i \in Items : SaveArticle(i)
    BY <1>2, <2>2, IdsStay, NumberedStays DEF StoreStep
  <2> QED  BY <2>1, <2>2
<1>4. RunTyped'
  <2>1. CASE UNCHANGED storeVars
    BY <2>1 DEF storeVars, store, locals, persisting, history, SInv, Approved, Hand, Bounds,
                RunTyped
  <2> QED
    BY <1>2, <2>1, CollectTyped, DedupTyped, GraphTyped, PersistTyped, FailureTyped DEF StoreStep
<1> QED  BY <1>1, <1>3, <1>4 DEF SInv, RunTyped

LEMMA StoreInvariance == Spec => []SInv
<1> QED  BY SInvInitial, SInvStep, PTL DEF Spec

LEMMA StoreTyped == SInv => StoreTypeOK
<1> SUFFICES ASSUME SInv PROVE StoreTypeOK
  OBVIOUS
<1>1. view \in Tables /\ disk \in Tables
  <2>1. view \in Db /\ disk \in Db /\ disk.id = view.id
    BY DEF SInv, IInv, Typed
  <2>2. \A u \in Urls : view.id[u] \in 0..Cardinality(Urls)
    BY IdsFit
  <2>3. view.id \in [Urls -> 0..Cardinality(Urls)]
    BY <2>1, <2>2 DEF Db
  <2> QED  BY <2>1, <2>3 DEF Db, Tables
<1>2. approvals \in [Urls -> 0..MaxRuns]
  <2>1. approvals \in [Urls -> Nat] /\ runs \in 0..MaxRuns /\ MaxRuns \in Nat
    BY BoundAssumption DEF SInv, IInv, Typed, Bounds
  <2>2. ASSUME NEW u \in Urls PROVE approvals[u] \in 0..MaxRuns
    <3>1. approvals[u] \in Nat /\ (approvals[u] < runs \/ approvals[u] <= runs)
      BY <2>1 DEF SInv, Approved
    <3> QED  BY <2>1, <3>1
  <2> QED  BY <2>1, <2>2
<1>3. errors + others \in 0..MaxFaults
  BY BoundAssumption DEF SInv, IInv, Typed, Bounds
<1> QED  BY <1>1, <1>2, <1>3 DEF StoreTypeOK, SInv, IInv, Typed, Hand, Bounds

-----------------------------------------------------------------------------
(* The tags: what a step adds to the articles that are damaged, and what    *)
(* the faults allow.                                                        *)
Bill == crashes + errors + 2 * others

LEMMA Bills ==
  ASSUME SInv, SInv'
  PROVE  /\ Bill \in Nat /\ Cardinality(Damaged) \in Nat
         /\ Bill' \in Nat /\ Cardinality(Damaged') \in Nat
<1>1. Damaged \in SUBSET Urls /\ Damaged' \in SUBSET Urls
  BY DEF Damaged, Wrong
<1>2. Cardinality(Damaged) \in Nat /\ Cardinality(Damaged') \in Nat
  BY <1>1, UrlSets
<1>3. Bill \in Nat /\ Bill' \in Nat
  <2>1. /\ crashes \in Nat /\ errors \in Nat /\ others \in Nat
        /\ crashes' \in Nat /\ errors' \in Nat /\ others' \in Nat
    BY DEF SInv, IInv, Typed
  <2>2. \A a, b, c \in Nat : a + b + 2 * c \in Nat
    OBVIOUS
  <2> QED  BY <2>1, <2>2 DEF Bill
<1> QED  BY <1>2, <1>3

LEMMA TouchedUrls == Touched \in SUBSET Urls /\ (at \notin AtHand => Touched = {})
BY DEF Touched, AtHand

(* No more is damaged, and the bill is no smaller.                          *)
LEMMA NoneDamaged ==
  ASSUME SInv, SInv', DInv, Damaged' \subseteq Damaged, Mistaken' => Mistaken, Bill <= Bill'
  PROVE  Cardinality(Damaged') + (IF Mistaken' THEN 2 ELSE 0) <= Bill'
<1>1. /\ Bill \in Nat /\ Cardinality(Damaged) \in Nat
      /\ Bill' \in Nat /\ Cardinality(Damaged') \in Nat
  BY Bills
<1>2. Cardinality(Damaged') <= Cardinality(Damaged)
  <2>1. Damaged \in SUBSET Urls /\ Damaged' \in SUBSET Urls
    BY DEF Damaged, Wrong
  <2> QED  BY <2>1, UrlSets
<1>3. Cardinality(Damaged) + (IF Mistaken THEN 2 ELSE 0) <= Bill
  BY DEF DInv, Bill
<1> DEFINE d == Cardinality(Damaged)  e == Cardinality(Damaged')
           m == IF Mistaken THEN 2 ELSE 0  n == IF Mistaken' THEN 2 ELSE 0
<1>4. m \in Nat /\ n \in Nat /\ n <= m
  OBVIOUS
<1>5. d \in Nat /\ e \in Nat /\ e <= d /\ d + m <= Bill
  BY <1>1, <1>2, <1>3
<1> HIDE DEF d, e, m, n, Bill
<1>6. e + n <= Bill'
  BY <1>1, <1>4, <1>5
<1> QED  BY <1>6 DEF e, n

(* The run may have touched one article besides the entry's own, and none   *)
(* unless it is mistaken.                                                   *)
LEMMA FewTouched ==
  ASSUME SInv
  PROVE  \/ Touched = {}
         \/ at \in AtHand /\ UrlOf[item] \in Urls /\ Touched \subseteq {UrlOf[item]}
         \/ /\ Mistaken /\ UrlOf[item] \in Urls
            /\ \E v \in Urls : Touched \subseteq {UrlOf[item]} \union {v}
<1>1. CASE at \notin AtHand
  BY <1>1, TouchedUrls
<1>2. CASE at \in AtHand
  <2>1. UrlOf[item] \in Urls /\ view.id[UrlOf[item]] # 0
    BY <1>2, UrlOfType DEF SInv, IInv, HandIsSaved, Typed
  <2>2. CASE at # "tag" \/ articleId = 0
    BY <1>2, <2>1, <2>2 DEF Touched
  <2>3. ASSUME at = "tag", articleId # 0, ~ Mistaken PROVE Touched \subseteq {UrlOf[item]}
    BY <2>1, <2>3 DEF Touched, Mistaken, SInv, Numbered
  <2>4. ASSUME at = "tag", articleId # 0, Mistaken
        PROVE  \E v \in Urls : Touched \subseteq {UrlOf[item]} \union {v}
    <3>1. CASE \E v \in Urls : view.id[v] = articleId
      <4>1. PICK v \in Urls : view.id[v] = articleId
        BY <3>1
      <4>2. Touched \subseteq {UrlOf[item]} \union {v}
        BY <2>4, <4>1 DEF Touched, SInv, Numbered
      <4> QED  BY <4>2
    <3>2. CASE ~ \E v \in Urls : view.id[v] = articleId
      <4>1. Touched \subseteq {UrlOf[item]} \union {UrlOf[item]}
        BY <3>2 DEF Touched
      <4> QED  BY <2>1, <4>1
    <3> QED  BY <3>1, <3>2
  <2> QED  BY <1>2, <2>1, <2>2, <2>3, <2>4
<1> QED  BY <1>1, <1>2

(* A run that stops leaves what it had touched as it is: one fault more     *)
(* pays for it, or, if it was mistaken, the one that made it so.            *)
LEMMA LeftAsTheyAre ==
  ASSUME SInv, SInv', DInv, ~ Mistaken',
         Damaged' \subseteq Wrong(view) \union Wrong(disk),
         Bill' = Bill + 1 \/ (Bill' = Bill /\ Mistaken)
  PROVE  Cardinality(Damaged') + (IF Mistaken' THEN 2 ELSE 0) <= Bill'
<1> DEFINE d == Cardinality(Damaged)  e == Cardinality(Damaged')
           m == IF Mistaken THEN 2 ELSE 0
<1>1. /\ Bill \in Nat /\ d \in Nat /\ Bill' \in Nat /\ e \in Nat
      /\ m \in {0, 2} /\ d + m <= Bill
      /\ Damaged \in SUBSET Urls /\ Damaged' \in SUBSET Urls
      /\ Damaged' \subseteq Damaged \union Touched
  <2>1. /\ Bill \in Nat /\ d \in Nat /\ Bill' \in Nat /\ e \in Nat
    BY Bills
  <2>2. m \in {0, 2} /\ d + m <= Bill
    BY DEF DInv, Bill
  <2>3. /\ Damaged \in SUBSET Urls /\ Damaged' \in SUBSET Urls
        /\ Damaged' \subseteq Damaged \union Touched
    BY DEF Damaged, Wrong
  <2> QED  BY <2>1, <2>2, <2>3
<1>2. (Touched = {} => e <= d)
  BY <1>1, UrlSets
<1>3. ASSUME NEW u \in Urls, Touched \subseteq {u} PROVE e <= d + 1
  <2>1. Damaged \union {u} \in SUBSET Urls /\ Damaged' \subseteq Damaged \union {u}
    BY <1>1, <1>3
  <2>2. e <= Cardinality(Damaged \union {u})
    BY <1>1, <2>1, UrlSets
  <2>3. Cardinality(Damaged \union {u}) <= d + 1 /\ Cardinality(Damaged \union {u}) \in Nat
    BY <1>1, OneMoreUrl
  <2> HIDE DEF d, e
  <2> QED  BY <1>1, <2>2, <2>3
<1>4. ASSUME NEW u \in Urls, NEW v \in Urls, Touched \subseteq {u} \union {v} PROVE e <= d + 2
  <2>1. /\ Damaged \union {u} \in SUBSET Urls
        /\ (Damaged \union {u}) \union {v} \in SUBSET Urls
        /\ Damaged' \subseteq (Damaged \union {u}) \union {v}
    BY <1>1, <1>4
  <2>2. e <= Cardinality((Damaged \union {u}) \union {v})
    BY <1>1, <2>1, UrlSets
  <2>3. Cardinality(Damaged \union {u}) <= d + 1 /\ Cardinality(Damaged \union {u}) \in Nat
    BY <1>1, OneMoreUrl
  <2>4. /\ Cardinality((Damaged \union {u}) \union {v}) <= Cardinality(Damaged \union {u}) + 1
        /\ Cardinality((Damaged \union {u}) \union {v}) \in Nat
    BY <2>1, OneMoreUrl
  <2> HIDE DEF d, e
  <2> QED  BY <1>1, <2>2, <2>3, <2>4
<1> HIDE DEF d, e
<1>5. e <= d \/ e <= d + 1 \/ (Mistaken /\ e <= d + 2)
  BY <1>2, <1>3, <1>4, FewTouched
<1>6. (Mistaken => m = 2) /\ (~ Mistaken => e <= d \/ e <= d + 1)
  <2>1. ~ Mistaken => e <= d \/ e <= d + 1
    BY <1>5
  <2> QED  BY <2>1
<1>7. e <= Bill'
  <2> HIDE DEF m, Bill
  <2>1. CASE Mistaken
    <3>1. d + 2 <= Bill /\ (e <= d + 2)
      BY <1>1, <1>5, <1>6, <2>1
    <3> QED  BY <1>1, <3>1
  <2>2. CASE ~ Mistaken
    <3>1. d <= Bill /\ e <= d + 1 /\ Bill' = Bill + 1
      BY <1>1, <1>6, <2>2
    <3> QED  BY <1>1, <3>1
  <2> QED  BY <2>1, <2>2
<1> QED  BY <1>1, <1>7 DEF e

(* Ids and tags that stay, or are committed as they are seen.               *)
LEMMA SameTags ==
  ASSUME SInv, SInv', view'.id = view.id,
         view'.tags \in {view.tags, disk.tags}, disk'.tags \in {view.tags, disk.tags}
  PROVE  (Wrong(view) \union Wrong(disk))' \subseteq Wrong(view) \union Wrong(disk)
<1>1. disk.id = view.id /\ disk'.id = view.id
  BY DEF SInv, IInv, Typed
<1> QED  BY <1>1 DEF Wrong

(* Before and between the entries, when nothing is at hand.                 *)
LEMMA NoEntryDamages ==
  ASSUME SInv, SInv', DInv,
         \/ Collect \/ Dedup \/ Graph \/ EndRun
         \/ \E i \in Items : PersistNoArticle(i),
         crashes' = crashes
  PROVE  DInv'
<1>1. /\ at \notin AtHand /\ at' \notin AtHand
      /\ view'.id = view.id /\ view'.tags = view.tags
      /\ disk'.tags \in {view.tags, disk.tags}
      /\ errors' = errors /\ others' = others
  <2> USE DEF SInv, IInv, Typed, Db, Commit, Recorded, AtHand
  <2>1. CASE Collect \/ Dedup
    BY <2>1 DEF Collect, Dedup
  <2>2. CASE Graph \/ EndRun
    BY <2>2 DEF Graph, EndRun, store
  <2>3. CASE \E i \in Items : PersistNoArticle(i)
    BY <2>3 DEF PersistNoArticle, history
  <2> QED  BY <2>1, <2>2, <2>3
<1>2. ~ Mistaken' /\ at' # "tag" /\ Touched = {}
  BY <1>1, TouchedUrls DEF Mistaken, AtHand
<1>3. Damaged' \subseteq Damaged
  BY <1>1, <1>2, SameTags DEF Damaged
<1>4. Bill <= Bill'
  BY <1>1, Bills DEF Bill
<1>5. Cardinality(Damaged') + (IF Mistaken' THEN 2 ELSE 0) <= Bill'
  BY <1>2, <1>3, <1>4, NoneDamaged
<1> QED  BY <1>2, <1>5 DEF DInv, Bill

(* A new article is at hand, and its number its own.                        *)
LEMMA SaveDamages ==
  ASSUME SInv, SInv', DInv, NEW i \in Items, SaveArticle(i), crashes' = crashes
  PROVE  DInv'
<1>1. /\ at = "persist" /\ item' = i /\ UrlOf[i] \in Urls
      /\ at' \in {"rowid", "record"} /\ errors' = errors /\ others' = others
  BY UrlOfType DEF SaveArticle, history
<1>2. /\ ~ Mistaken'
      /\ view'.tags = view.tags /\ disk'.tags = view.tags
      /\ \A v \in Urls : v # UrlOf[i] => view'.id[v] = view.id[v]
  <2>1. CASE view.id[UrlOf[i]] # 0
    <3>1. /\ at' = "record" /\ articleId' = view.id[UrlOf[i]] /\ view' = view /\ disk' = view
      BY <2>1 DEF SaveArticle
    <3> QED  BY <1>1, <3>1 DEF Mistaken
  <2>2. CASE view.id[UrlOf[i]] = 0
    <3>1. /\ at' = "rowid" /\ lastRowid' = NewId
          /\ view' = [view EXCEPT !.id[UrlOf[i]] = NewId] /\ disk' = view'
      BY <2>2 DEF SaveArticle, Commit
    <3>2. /\ view'.id[UrlOf[i]] = NewId /\ view'.tags = view.tags
          /\ \A v \in Urls : v # UrlOf[i] => view'.id[v] = view.id[v]
      BY <1>1, <2>2, <3>1, SaveNumbers
    <3> QED  BY <1>1, <3>1, <3>2 DEF Mistaken
  <2> QED  BY <2>1, <2>2
<1>3. Damaged' \subseteq Damaged
  <2>1. disk'.id = view'.id
    BY DEF SInv, IInv, Typed
  <2>2. Touched = {} /\ \A v \in Urls : v \notin Touched' => v # UrlOf[i]
    BY <1>1, TouchedUrls DEF Touched, AtHand
  <2> QED  BY <1>2, <2>1, <2>2 DEF Damaged, Wrong
<1>4. Bill <= Bill'
  BY <1>1, Bills DEF Bill
<1>5. Cardinality(Damaged') + (IF Mistaken' THEN 2 ELSE 0) <= Bill'
  BY <1>2, <1>3, <1>4, NoneDamaged
<1> QED  BY <1>1, <1>5 DEF DInv, Bill

LEMMA EntryDamages ==
  ASSUME SInv, SInv', DInv, LastInsertRowid \/ RecordInserted, crashes' = crashes
  PROVE  DInv'
<1>1. /\ at \in {"rowid", "record"} /\ at' \in {"record", "untag"} /\ item' = item
      /\ view'.id = view.id /\ view'.tags = view.tags
      /\ disk'.tags \in {view.tags, disk.tags}
      /\ errors' = errors /\ others' = others
      /\ Mistaken' => Mistaken
  <2> USE DEF SInv, IInv, Typed, Db, Commit, Recorded, history, Mistaken
  <2>1. CASE LastInsertRowid
    BY <2>1 DEF LastInsertRowid, store
  <2>2. CASE RecordInserted
    BY <2>2 DEF RecordInserted
  <2> QED  BY <2>1, <2>2
<1>2. Touched' = Touched
  BY <1>1 DEF Touched, AtHand
<1>3. Damaged' \subseteq Damaged
  BY <1>1, <1>2, SameTags DEF Damaged
<1>4. Bill <= Bill'
  BY <1>1, Bills DEF Bill
<1>5. Cardinality(Damaged') + (IF Mistaken' THEN 2 ELSE 0) <= Bill'
  BY <1>1, <1>3, <1>4, NoneDamaged
<1> QED  BY <1>1, <1>5 DEF DInv, Bill

(* Tags are deleted and inserted at the article the run believes it has     *)
(* saved: whatever it is, it is touched.                                    *)
LEMMA TaggingDamages ==
  ASSUME SInv, SInv', DInv, DeleteTags \/ \E t \in Tags : InsertTag(t), crashes' = crashes
  PROVE  DInv'
<1>1. /\ at \in {"untag", "tag"} /\ at' = "tag"
      /\ UNCHANGED <<disk, item, articleId, errors, others>>
      /\ view'.id = view.id
      /\ \A a \in Ids : a # articleId => view'.tags[a] = view.tags[a]
  <2> USE DEF SInv, IInv, Typed, Db, history
  <2>1. CASE DeleteTags
    BY <2>1 DEF DeleteTags
  <2>2. CASE \E t \in Tags : InsertTag(t)
    BY <2>2 DEF InsertTag
  <2> QED  BY <2>1, <2>2
<1>2. Mistaken' => Mistaken
  BY <1>1 DEF Mistaken
<1>3. Damaged' \subseteq Damaged
  <2>1. Touched \subseteq Touched'
    BY <1>1 DEF Touched, AtHand
  <2>2. ASSUME NEW v \in Urls, v \notin Touched', view.id[v] # 0
        PROVE  view'.tags[view.id[v]] = view.tags[view.id[v]]
    <3>1. view.id[v] \in Ids /\ view.id[v] # articleId
      BY <1>1, <2>2, IdsFit DEF Touched
    <3> QED  BY <1>1, <3>1
  <2> QED  BY <1>1, <2>1, <2>2 DEF Damaged, Wrong
<1>4. Bill <= Bill'
  BY <1>1, Bills DEF Bill
<1>5. Cardinality(Damaged') + (IF Mistaken' THEN 2 ELSE 0) <= Bill'
  BY <1>2, <1>3, <1>4, NoneDamaged
<1>6. ASSUME ~ Mistaken'
      PROVE  view'.tags[articleId] \union tagsLeft' = TagsOf[UrlOf[item]]
  <2>1. articleId \in Ids /\ UrlOf[item] \in Urls
    BY <1>1, <1>6, UrlOfType, IdsFit DEF Mistaken, AtHand, SInv, IInv, HandIsSaved, Typed
  <2>2. view.tags \in [Ids -> SUBSET Tags] /\ ~ Mistaken
    BY <1>1, <1>6 DEF SInv, IInv, Typed, Db, Mistaken
  <2>3. CASE DeleteTags
    BY <2>1, <2>2, <2>3 DEF DeleteTags, SInv, IInv, Typed, Db
  <2>4. CASE \E t \in Tags : InsertTag(t)
    BY <2>1, <2>2, <2>4 DEF InsertTag, DInv, SInv, IInv, Typed, Db
  <2> QED  BY <2>3, <2>4
<1> QED  BY <1>1, <1>5, <1>6 DEF DInv, Bill

(* With its event the entry's tags are committed, all of them and at its    *)
(* article, unless the run was mistaken.                                    *)
LEMMA EventDamages ==
  ASSUME SInv, SInv', DInv, RecordEvent, crashes' = crashes
  PROVE  DInv'
<1>1. /\ at = "tag" /\ at' = "persist" /\ tagsLeft = {} /\ view' = view /\ disk' = view
      /\ errors' = errors /\ others' = others
  BY DEF RecordEvent, history
<1>2. ~ Mistaken' /\ Bill' = Bill
  BY <1>1 DEF Mistaken, Bill
<1>3. Damaged' \subseteq Wrong(view) \union Wrong(disk)
  BY <1>1 DEF Damaged, Wrong
<1>4. CASE Mistaken
  <2>1. Cardinality(Damaged') + (IF Mistaken' THEN 2 ELSE 0) <= Bill'
    BY <1>2, <1>3, <1>4, LeftAsTheyAre
  <2> QED  BY <1>1, <2>1 DEF DInv, Bill
<1>5. CASE ~ Mistaken
  <2>1. /\ UrlOf[item] \in Urls /\ view.id[UrlOf[item]] = articleId /\ articleId # 0
        /\ view.tags[articleId] = TagsOf[UrlOf[item]]
    BY <1>1, <1>5, UrlOfType DEF Mistaken, DInv, AtHand, SInv, IInv, HandIsSaved, Typed
  <2>2. \A v \in Touched : v = UrlOf[item]
    BY <1>1, <2>1 DEF Touched, SInv, Numbered
  <2>3. Damaged' \subseteq Damaged
    BY <1>1, <2>1, <2>2 DEF Damaged, Wrong
  <2>4. Bill <= Bill'
    BY <1>2, Bills
  <2>5. Cardinality(Damaged') + (IF Mistaken' THEN 2 ELSE 0) <= Bill'
    BY <1>2, <2>3, <2>4, NoneDamaged
  <2> QED  BY <1>1, <2>5 DEF DInv, Bill
<1> QED  BY <1>4, <1>5

(* A fault, and the confused rowid that another coroutine causes.           *)
LEMMA FaultDamages ==
  ASSUME SInv, SInv', DInv,
         \/ Crash
         \/ (StatementRaises \/ RecordRaises \/ OtherInserts \/ OtherCommits) /\ crashes' = crashes
  PROVE  DInv'
<1>0. /\ crashes \in Nat /\ errors \in Nat /\ others \in Nat
      /\ \A a, b, c \in Nat : /\ (a + 1) + b + 2 * c = (a + b + 2 * c) + 1
                              /\ a + (b + 1) + 2 * c = (a + b + 2 * c) + 1
                              /\ a + b + 2 * (c + 1) = (a + b + 2 * c) + 2
  BY DEF SInv, IInv, Typed
<1>1. CASE StatementRaises /\ crashes' = crashes
  <2>1. /\ at' = "idle" /\ view' = view /\ disk' \in {view, disk}
        /\ errors' = errors + 1 /\ others' = others
    BY <1>1 DEF StatementRaises, RunFails
  <2>2. ~ Mistaken' /\ Bill' = Bill + 1 /\ Damaged' \subseteq Wrong(view) \union Wrong(disk)
    BY <1>0, <1>1, <2>1 DEF Mistaken, Bill, Damaged, Wrong
  <2> QED  BY <2>1, <2>2, LeftAsTheyAre DEF DInv, Bill
<1>2. CASE RecordRaises /\ crashes' = crashes
  <2>1. /\ at' = "idle" /\ view' = view /\ disk' = view
        /\ errors' = errors /\ others' = others
        /\ at = "record" /\ \A u \in Urls : view.id[u] # articleId
    BY <1>2 DEF RecordRaises, RunFails
  <2>2. Mistaken
    BY <2>1, UrlOfType DEF Mistaken, AtHand, SInv, IInv, HandIsSaved, Typed
  <2>3. ~ Mistaken' /\ Bill' = Bill /\ Damaged' \subseteq Wrong(view) \union Wrong(disk)
    BY <1>2, <2>1 DEF Mistaken, Bill, Damaged, Wrong
  <2> QED  BY <2>1, <2>2, <2>3, LeftAsTheyAre DEF DInv, Bill
<1>3. CASE Crash
  <2>1. /\ at' = "idle" /\ view' = disk /\ disk' = disk /\ crashes' = crashes + 1
        /\ errors' = errors /\ others' = others
    BY <1>3 DEF Crash, ProcessDies, Lost
  <2>2. ~ Mistaken' /\ Bill' = Bill + 1 /\ Damaged' \subseteq Wrong(view) \union Wrong(disk)
    BY <1>0, <2>1 DEF Mistaken, Bill, Damaged, Wrong
  <2> QED  BY <2>1, <2>2, LeftAsTheyAre DEF DInv, Bill
<1>4. CASE OtherInserts /\ crashes' = crashes
  <2>1. /\ at = "rowid" /\ at' = at /\ item' = item /\ articleId' = articleId
        /\ view' = view /\ disk' = view /\ errors' = errors /\ others' = others + 1
    BY <1>4 DEF OtherInserts, locals, persisting
  <2>2. Damaged' \subseteq Damaged
    BY <2>1 DEF Damaged, Wrong, Touched
  <2>3. Bill' = Bill + 2
    BY <1>0, <1>4, <2>1 DEF Bill
  <2>4. Cardinality(Damaged') + 2 <= Bill'
    <3>1. Damaged \in SUBSET Urls /\ Damaged' \in SUBSET Urls
      BY DEF Damaged, Wrong
    <3>2. Cardinality(Damaged') <= Cardinality(Damaged)
      BY <2>2, <3>1, UrlSets
    <3>3. Cardinality(Damaged) + (IF Mistaken THEN 2 ELSE 0) <= Bill
      BY DEF DInv, Bill
    <3> DEFINE d == Cardinality(Damaged)  e == Cardinality(Damaged')
    <3>4. d \in Nat /\ e \in Nat /\ e <= d /\ (d + 2 <= Bill \/ d + 0 <= Bill) /\ Bill \in Nat
      BY <3>2, <3>3, Bills
    <3> HIDE DEF d, e, Bill
    <3>5. e + 2 <= Bill'
      BY <2>3, <3>4
    <3> QED  BY <3>5 DEF e
  <2>5. Cardinality(Damaged') \in Nat /\ Bill' \in Nat
    BY Bills
  <2>6. Cardinality(Damaged') + (IF Mistaken' THEN 2 ELSE 0) <= Bill'
    <3> DEFINE e == Cardinality(Damaged')
    <3>1. e \in Nat /\ e + 2 <= Bill' /\ Bill' \in Nat
      BY <2>4, <2>5
    <3> HIDE DEF e, Bill
    <3>2. e + 0 <= Bill'
      BY <3>1
    <3> QED  BY <3>1, <3>2 DEF e
  <2> QED  BY <2>1, <2>6 DEF DInv, Bill
<1>5. CASE OtherCommits /\ crashes' = crashes
  <2>1. /\ view' = view /\ disk' = view
        /\ UNCHANGED <<at, item, articleId, lastRowid, tagsLeft, errors, others>>
    BY <1>5 DEF OtherCommits, locals, persisting, history
  <2>2. Damaged' \subseteq Damaged /\ (Mistaken' => Mistaken)
    BY <2>1 DEF Damaged, Wrong, Touched, Mistaken
  <2>3. Bill <= Bill'
    BY <1>5, <2>1, Bills DEF Bill
  <2>4. Cardinality(Damaged') + (IF Mistaken' THEN 2 ELSE 0) <= Bill'
    BY <2>2, <2>3, NoneDamaged
  <2> QED  BY <2>1, <2>4 DEF DInv, Bill, Mistaken
<1> QED  BY <1>1, <1>2, <1>3, <1>4, <1>5

LEMMA DInvInitial == Init => DInv
<1> SUFFICES ASSUME Init PROVE DInv
  OBVIOUS
<1>1. at = "idle" /\ crashes = 0 /\ errors = 0 /\ others = 0
  BY DEF Init, StoreInit, MigrationInit
<1>2. Damaged = {} /\ ~ Mistaken
  BY <1>1 DEF Init, StoreInit, Damaged, Wrong, Mistaken
<1>3. Cardinality(Damaged) = 0
  BY <1>2, FS_EmptySet
<1> QED  BY <1>1, <1>2, <1>3 DEF DInv

LEMMA DInvStep == SInv /\ SInv' /\ DInv /\ [Next]_vars => DInv'
<1> SUFFICES ASSUME SInv, SInv', DInv, [Next]_vars PROVE DInv'
  OBVIOUS
<1>1. CASE Crash
  BY <1>1, FaultDamages
<1>2. CASE UNCHANGED storeVars /\ crashes' = crashes
  BY <1>2 DEF storeVars, store, locals, persisting, history, DInv, Damaged, Wrong, Touched,
              Mistaken
<1>3. CASE ~ Crash
  <2>1. crashes' = crashes
    BY <1>3 DEF Next, vars, Migrate, Serve, Quiet, migrationVars, Start, Creates, Versions,
                Gathers, Merges, Forgets, Renames, Copies, Drops, Raises, RecordVersion, Applied
  <2> QED
    BY <1>2, <1>3, <2>1, NextIsStoreStep, NoEntryDamages, SaveDamages, EntryDamages,
       TaggingDamages, EventDamages, FaultDamages DEF StoreStep
<1> QED  BY <1>1, <1>3

LEMMA DamageInvariance == Spec => [](SInv /\ DInv)
<1>1. Init => SInv /\ DInv
  BY SInvInitial, DInvInitial
<1>2. (SInv /\ DInv) /\ [Next]_vars => (SInv /\ DInv)'
  BY SInvStep, DInvStep
<1> QED  BY <1>1, <1>2, PTL DEF Spec

(* save_tags, which leaves the commit to whatever comes next, and           *)
(* last_insert_rowid, which answers for the whole connection: tags are lost *)
(* or misplaced by faults only, one article for each, and two where an id   *)
(* is confused.                                                             *)
THEOREM TagDamageAlwaysBounded == Spec => []TagDamageIsBounded
<1>1. SInv /\ DInv => TagDamageIsBounded
  <2> SUFFICES ASSUME SInv, DInv PROVE TagDamageIsBounded
    OBVIOUS
  <2> DEFINE atHand == IF item = 0 THEN {} ELSE {UrlOf[item]}
             wrong == {u \in Urls : disk.id[u] # 0 /\ disk.tags[disk.id[u]] # TagsOf[u]}
             h == Cardinality(wrong \ atHand)  d == Cardinality(Damaged)
  <2>1. /\ wrong = Wrong(disk) /\ (item # 0 <=> at \in AtHand)
        /\ Damaged \in SUBSET Urls /\ wrong \ atHand \in SUBSET Urls
    BY DEF Wrong, Damaged, SInv, Hand
  <2>2. /\ h \in Nat /\ d \in Nat /\ Bill \in Nat /\ d + (IF Mistaken THEN 2 ELSE 0) <= Bill
    <3>1. h \in Nat /\ d \in Nat
      BY <2>1, UrlSets
    <3>2. crashes \in Nat /\ errors \in Nat /\ others \in Nat
      BY DEF SInv, IInv, Typed
    <3>3. \A a, b, c \in Nat : a + b + 2 * c \in Nat
      OBVIOUS
    <3> QED  BY <3>1, <3>2, <3>3 DEF DInv, Bill
  <2>3. h <= d \/ (Mistaken /\ h <= d + 1)
    <3>1. CASE Touched = {} \/ (at \in AtHand /\ Touched \subseteq {UrlOf[item]})
      <4>1. wrong \ atHand \subseteq Damaged
        BY <2>1, <3>1 DEF Damaged, Wrong
      <4> QED  BY <2>1, <4>1, UrlSets
    <3>2. ASSUME Mistaken, NEW v \in Urls, Touched \subseteq {UrlOf[item]} \union {v}
          PROVE  h <= d + 1
      <4>1. at \in AtHand
        BY <3>2 DEF Mistaken, AtHand
      <4>2. wrong \ atHand \subseteq Damaged \union {v} /\ Damaged \union {v} \in SUBSET Urls
        BY <2>1, <3>2, <4>1 DEF Damaged, Wrong
      <4>3. h <= Cardinality(Damaged \union {v})
        BY <2>1, <4>2, UrlSets
      <4>4. Cardinality(Damaged \union {v}) <= d + 1 /\ Cardinality(Damaged \union {v}) \in Nat
        BY <2>1, OneMoreUrl
      <4> HIDE DEF h, d
      <4> QED  BY <2>2, <4>3, <4>4
    <3> HIDE DEF h, d
    <3> QED  BY <3>1, <3>2, FewTouched
  <2>4. h <= Bill
    <3> HIDE DEF h, d, Bill
    <3>1. CASE Mistaken
      <4>1. d + 2 <= Bill /\ (h <= d \/ h <= d + 1)
        BY <2>2, <2>3, <3>1
      <4> QED  BY <2>2, <4>1
    <3>2. CASE ~ Mistaken
      <4>1. d + 0 <= Bill /\ h <= d
        BY <2>2, <2>3, <3>2
      <4> QED  BY <2>2, <4>1
    <3> QED  BY <3>1, <3>2
  <2> QED  BY <2>4 DEF TagDamageIsBounded, Bill
<1> QED  BY <1>1, DamageInvariance, PTL

-----------------------------------------------------------------------------
(***************************************************************************)
(* The migrations.  What the proofs need of the scripts, statement by      *)
(* statement: which ones move rows, which script makes an object, and that *)
(* none but 011 touches what an earlier one has made.                      *)
(***************************************************************************)
Kinds == {"ensure", "add", "insert", "rename", "copy", "drop",
          "gather", "merge", "forget", "version"}

\* The objects that 010 makes and 011 makes again.
Volatile == {"deep_reports", "idx_deep_reports"}

\* The script that makes an object first.
Home ==
  [ articles |-> 1, tags |-> 1, pipeline_runs |-> 1, cost_logs |-> 1, circuit_events |-> 1,
    pipeline_phase_logs |-> 2, ref_url |-> 3, idx_cost_logs_ref_url |-> 3,
    source_health |-> 4, idx_source_health |-> 4, discovered_sources |-> 4,
    github_repo_snapshots |-> 5, source |-> 6, source_detail |-> 6, source_id |-> 6,
    idx_cost_logs_source |-> 6, collection_items |-> 8, pipeline_source_runs |-> 8,
    status |-> 8, error |-> 8, latency_ms |-> 8, attempt_no |-> 8, prompt_name |-> 8,
    prompt_version |-> 8, idx_cost_logs_status |-> 8, pipeline_events |-> 9,
    deep_reports |-> 10, idx_deep_reports |-> 10, deep_report_settings |-> 11,
    public_version |-> 11, source_registry |-> 12, source_health_daily |-> 12,
    source_governance_events |-> 12, dashboard_indexes |-> 13, failed |-> 14 ]

HomeOf(o, s) ==
  /\ o # "none" /\ o # V1
  /\ IF o \in Volatile THEN s \in {10, 11} ELSE Home[o] = s

StatementShape(s, d, st) ==
  /\ st.does \in Kinds
  /\ st.does \in {"ensure", "add", "insert"} <=> st.object # "none"
  /\ st.does = "gather" <=> (s = 7 /\ d = 1)
  /\ st.does = "merge" <=> (s = 7 /\ d = 2)
  /\ st.does = "forget" <=> (s = 7 /\ d = 3)
  /\ st.does = "rename" <=> (s = 11 /\ d = 1)
  /\ st.does = "copy" <=> (s = 11 /\ d = 3)
  /\ st.does = "drop" <=> (s = 11 /\ d = 4)
  /\ st.object # "none" => HomeOf(st.object, s)
  /\ s = 11 => /\ st.object = "deep_reports" <=> d = 2
               /\ st.object = "idx_deep_reports" <=> d = 7

Shape(s) ==
  /\ Len(Scripts[s]) \in 1..10 /\ DOMAIN Scripts[s] = 1..Len(Scripts[s])
  /\ s = 11 => Len(Scripts[s]) = 8
  /\ s = 7 => Len(Scripts[s]) = 4
  /\ \A d \in 1..Len(Scripts[s]) :
       /\ StatementShape(s, d, Scripts[s][d])
       /\ Scripts[s][d].does = "version" => d = Len(Scripts[s])
       /\ \A e \in 1..(d - 1) :
            Scripts[s][d].object # "none" => Scripts[s][e].object # Scripts[s][d].object

LEMMA ScriptShapes == Last = 14 /\ \A s \in 1..Last : Shape(s)
<1> USE DEF Shape, StatementShape, HomeOf, Home, Volatile, V1, Kinds, Ensure, Add, Insert, Do,
            SetVersion
<1>0. Last = 14
  BY DEF Last, Scripts
<1>1. Shape(1)  BY DEF Scripts, InitTables
<1>2. Shape(2)  BY DEF Scripts, PhaseLogs
<1>3. Shape(3)  BY DEF Scripts, CostLogsRefUrl
<1>4. Shape(4)  BY DEF Scripts, SourceHealth
<1>5. Shape(5)  BY DEF Scripts, GithubRepoSnapshots
<1>6. Shape(6)  BY DEF Scripts, CostLogsSourceFields
<1>7. Shape(7)  BY DEF Scripts, NormalizeSourceHealthIds
<1>8. Shape(8)  BY DEF Scripts, ObservabilityTables
<1>9. Shape(9)  BY DEF Scripts, PipelineEvents
<1>10. Shape(10)  BY DEF Scripts, DeepReportTables
<1>11. Shape(11)  BY DEF Scripts, DeepReportV2
<1>12. Shape(12)  BY DEF Scripts, GovernanceTables
<1>13. Shape(13)  BY DEF Scripts, DashboardIndexes
<1>14. Shape(14)  BY DEF Scripts, SourceHealthDailyFailed
<1> HIDE DEF Shape
<1> QED
  BY <1>0, <1>1, <1>2, <1>3, <1>4, <1>5, <1>6, <1>7, <1>8, <1>9, <1>10, <1>11, <1>12,
     <1>13, <1>14

\* The objects that the first d statements of script s make.
MadeBy(s, d) == {Scripts[s][e].object : e \in 1..d} \ {"none"}

LEMMA MadeByGrows ==
  ASSUME NEW s \in 1..Last, NEW d \in Nat, d < Len(Scripts[s])
  PROVE  /\ MadeBy(s, d + 1) = MadeBy(s, d) \union ({Scripts[s][d + 1].object} \ {"none"})
         /\ MadeBy(s, 0) = {}
         /\ Scripts[s][d + 1].object \notin MadeBy(s, d)
<1>1. 1..(d + 1) = (1..d) \union {d + 1}
  OBVIOUS
<1>2. MadeBy(s, d + 1) = MadeBy(s, d) \union ({Scripts[s][d + 1].object} \ {"none"})
  BY <1>1 DEF MadeBy
<1>3. MadeBy(s, 0) = {}
  BY DEF MadeBy
<1>4. Scripts[s][d + 1].object \notin MadeBy(s, d)
  <2>0. Shape(s)
    BY ScriptShapes
  <2>1. d + 1 \in 1..Len(Scripts[s])
    BY <2>0 DEF Shape
  <2>2. \A e \in 1..d : Scripts[s][d + 1].object # "none" =>
                          Scripts[s][e].object # Scripts[s][d + 1].object
    BY <2>0, <2>1 DEF Shape
  <2> QED  BY <2>2 DEF MadeBy
<1> QED  BY <1>2, <1>3, <1>4

(* A version has the objects of the one before and those of its script.    *)
LEMMA SchemaGrows ==
  /\ SchemaAt(0) = {}
  /\ \A n \in 1..Last : SchemaAt(n) = SchemaAt(n - 1) \union MadeBy(n, Len(Scripts[n]))
  /\ \A n \in 0..Last : \A o :
       o \in SchemaAt(n) <=> \E k \in 1..n : o \in MadeBy(k, Len(Scripts[k]))
<1>1. ASSUME NEW k \in 1..Last, NEW o
      PROVE  o \in MadeBy(k, Len(Scripts[k])) <=>
               o # "none" /\ \E e \in DOMAIN Scripts[k] : o = Scripts[k][e].object
  BY ScriptShapes DEF Shape, MadeBy
<1>2. ASSUME NEW n \in 0..Last, NEW o
      PROVE  o \in SchemaAt(n) <=> \E k \in 1..n : o \in MadeBy(k, Len(Scripts[k]))
  <2>1. 1..n \subseteq 1..Last
    BY ScriptShapes
  <2>2. o \in SchemaAt(n) <=>
          o # "none" /\ \E k \in 1..n : \E e \in DOMAIN Scripts[k] : o = Scripts[k][e].object
    BY DEF SchemaAt, Objects
  <2>3. \A k \in 1..n : o \in MadeBy(k, Len(Scripts[k])) <=>
                           o # "none" /\ \E e \in DOMAIN Scripts[k] : o = Scripts[k][e].object
    BY <1>1, <2>1
  <2> QED  BY <2>2, <2>3, Zenon
<1>3. SchemaAt(0) = {}
  BY DEF SchemaAt, Objects
<1>4. ASSUME NEW n \in 1..Last
      PROVE  SchemaAt(n) = SchemaAt(n - 1) \union MadeBy(n, Len(Scripts[n]))
  <2>1. 1..n = (1..(n - 1)) \union {n} /\ n \in 0..Last /\ n - 1 \in 0..Last
    BY ScriptShapes
  <2> QED  BY <1>2, <2>1
<1> QED  BY <1>2, <1>3, <1>4

(* The schema of a version holds what has its home there or before.        *)
LEMMA SchemaHome ==
  ASSUME NEW n \in 0..Last, NEW o \in SchemaAt(n)
  PROVE  /\ o # "none" /\ o # V1
         /\ o \in SchemaAt(Last)
         /\ IF o \in Volatile THEN n >= 10 ELSE Home[o] \in 1..n
<1>1. PICK k \in 1..n : o \in MadeBy(k, Len(Scripts[k]))
  BY SchemaGrows
<1>2. k \in 1..Last /\ 1..n \subseteq 1..Last
  BY ScriptShapes
<1>3. PICK e \in 1..Len(Scripts[k]) : o = Scripts[k][e].object /\ o # "none"
  BY <1>1 DEF MadeBy
<1>4. HomeOf(o, k)
  BY <1>2, <1>3, ScriptShapes DEF Shape, StatementShape
<1>5. o \in SchemaAt(Last)
  BY <1>1, <1>2, SchemaGrows, ScriptShapes
<1> QED  BY <1>3, <1>4, <1>5 DEF HomeOf

LEMMA SchemaOf10 == Volatile \subseteq SchemaAt(10)
<1>1. Volatile \subseteq MadeBy(10, Len(Scripts[10]))
  <2>1. Scripts[10] = DeepReportTables /\ Len(Scripts[10]) = 3
    BY DEF Scripts, DeepReportTables
  <2>2. DeepReportTables[1].object = "deep_reports" /\ DeepReportTables[2].object = "idx_deep_reports"
    BY DEF DeepReportTables, Ensure
  <2> QED  BY <2>1, <2>2 DEF MadeBy, Volatile
<1> QED  BY <1>1, SchemaGrows, ScriptShapes

LEMMA MaxOfTwo == ASSUME NEW a \in Nat, NEW b \in Nat, a <= b PROVE Max({a, b}) = b
<1>1. \A x \in {a, b} : (\A y \in {a, b} : x >= y) <=> x = b
  OBVIOUS
<1>2. b \in {a, b} /\ \A y \in {a, b} : b >= y
  OBVIOUS
<1> QED  BY <1>1, <1>2 DEF Max

-----------------------------------------------------------------------------
(* The inductive invariant of the migrations: where the process is, what    *)
(* is in the schema there whoever died before, and exactly what when nobody *)
(* did, and where the rows are that a script moves.                         *)

Running(s, D) == process = "migrating" /\ script = s /\ done \in D

Position ==
  /\ process = "migrating" =>
       /\ script \in 1..Last /\ done \in 0..Len(Scripts[script])
       /\ \/ version = script - 1
          \/ version = script /\ done = Len(Scripts[script])
  /\ process = "up" => version = Last
  /\ process = "raised" => crashes > 0

\* What a process that dies within script s may leave missing of the schema before.
Endangered(s) == IF s = 11 THEN Volatile ELSE {}

\* What the first d statements of script s have taken away.
Gone(s, d) ==
  IF s # 11 \/ d = 0 THEN {} ELSE IF d < 4 THEN {"deep_reports"} ELSE Volatile

Exact ==
  IF process = "migrating"
    THEN schema = (SchemaAt(script - 1) \ Gone(script, done))
                    \union MadeBy(script, done)
                    \union (IF script = 11 /\ done \in 1..3 THEN {V1} ELSE {})
    ELSE schema = SchemaAt(version)

SchemaKnown ==
  /\ IF process = "migrating"
       THEN (SchemaAt(script - 1) \ Endangered(script)) \union MadeBy(script, done)
              \subseteq schema
       ELSE SchemaAt(version) \ Endangered(version + 1) \subseteq schema
  /\ V1 \in schema => /\ version = 10 /\ process # "up"
                      /\ process = "migrating" => script = 11 /\ done \in 0..3
  /\ crashes = 0 => Exact

Moving ==
  /\ legacy => version <= 6 /\ ~ Running(7, {3, 4})
  /\ Running(7, {1}) => (gathered <=> legacy)
  /\ Running(7, {2}) /\ legacy => counted >= 1
  /\ counted <= crashes + (IF legacy /\ ~ Running(7, {2}) THEN 0 ELSE 1)
  /\ released \in 4..6 => legacy \/ counted >= 1
  /\ oldReports => V1 \in schema
  /\ released = 10 => /\ reports \/ oldReports
                      /\ Running(11, {1, 2}) => oldReports
                      /\ Running(11, 3..8) => reports

MInv == MigrationTypeOK /\ Position /\ SchemaKnown /\ Moving

\* What MigrationTypeOK says of the counts, in the form the steps need.
CountsTyped ==
  /\ counted \in Nat /\ crashes \in Nat /\ MaxCrashes \in Nat /\ crashes <= MaxCrashes
  /\ version \in 0..Last /\ Last = 14

LEMMA Counts == MInv => CountsTyped
<1>1. MInv => /\ counted \in Nat /\ crashes \in Nat /\ crashes <= MaxCrashes
              /\ version \in 0..Last
  BY ReleaseAssumption DEF MInv, MigrationTypeOK
<1> QED  BY <1>1, ReleaseAssumption, ScriptShapes DEF CountsTyped

LEMMA MigrationInitial == MigrationInit => MInv
<1> SUFFICES ASSUME MigrationInit PROVE MInv
  OBVIOUS
<1>1. Last = 14 /\ released \in 0..Last /\ MaxCrashes \in Nat
  BY ReleaseAssumption, ScriptShapes DEF MigrationInit
<1>2. SchemaAt(released) \subseteq SchemaAt(Last) /\ V1 \notin SchemaAt(released)
  BY <1>1, SchemaHome
<1>3. MigrationTypeOK
  <2>1. legacy \in BOOLEAN /\ reports \in BOOLEAN
    BY DEF MigrationInit
  <2>2. gathered \in BOOLEAN /\ oldReports \in BOOLEAN
    BY DEF MigrationInit
  <2>3. script \in 0..Last /\ done \in 0..10 /\ version \in 0..Last
    BY <1>1 DEF MigrationInit
  <2>4. counted \in 0..(MaxCrashes + 1) /\ crashes \in 0..MaxCrashes
    BY <1>1 DEF MigrationInit
  <2> QED
    BY <1>2, <2>1, <2>2, <2>3, <2>4 DEF MigrationInit, MigrationTypeOK, FullSchema
<1>4. Position
  BY DEF MigrationInit, Position
<1>5. SchemaKnown
  BY <1>2 DEF MigrationInit, SchemaKnown, Exact
<1>6. Moving
  <2>1. process # "migrating" /\ counted = 0 /\ crashes = 0 /\ ~ oldReports
    BY DEF MigrationInit
  <2>2. /\ legacy <=> released \in 4..6
        /\ released = 10 => reports
        /\ version = released
    BY DEF MigrationInit
  <2> QED  BY <1>1, <2>1, <2>2 DEF Moving, Running
<1> QED  BY <1>3, <1>4, <1>5, <1>6 DEF MInv

(* What is known of a statement that is executed.                          *)
LEMMA Executes ==
  ASSUME MInv, NEW w, Executing(w)
  PROVE  /\ script \in 1..Last /\ done \in Nat /\ done < Len(Scripts[script])
         /\ Len(Scripts[script]) \in 1..10 /\ version = script - 1
         /\ Statement.does = w /\ StatementShape(script, done + 1, Statement)
         /\ w = "version" => done + 1 = Len(Scripts[script])
         /\ MadeBy(script, done + 1)
              = MadeBy(script, done) \union ({Statement.object} \ {"none"})
         /\ Statement.object \notin MadeBy(script, done)
         /\ process = "migrating"
         /\ done \in 0..9
         /\ script = 11 => Len(Scripts[script]) = 8 /\ done \in 0..7
         /\ script = 7 => Len(Scripts[script]) = 4 /\ done \in 0..3
<1>1. /\ script \in 1..Last /\ done \in 0..Len(Scripts[script])
      /\ process = "migrating" /\ Statement.does = w
  BY DEF MInv, Position, Executing
<1>2. Shape(script)
  BY <1>1, ScriptShapes
<1>3. Len(Scripts[script]) \in 1..10
  BY <1>2 DEF Shape
<1>4. done \in Nat /\ done < Len(Scripts[script]) /\ done + 1 \in 1..Len(Scripts[script])
  BY <1>1, <1>3 DEF Executing
<1>5. version = script - 1
  BY <1>1, <1>3, <1>4 DEF MInv, Position
<1>6. /\ StatementShape(script, done + 1, Statement)
      /\ w = "version" => done + 1 = Len(Scripts[script])
  BY <1>1, <1>2, <1>4 DEF Shape, Statement
<1>7. /\ MadeBy(script, done + 1)
           = MadeBy(script, done) \union ({Statement.object} \ {"none"})
      /\ Statement.object \notin MadeBy(script, done)
  BY <1>1, <1>4, MadeByGrows DEF Statement
<1>8. /\ done \in 0..9
      /\ script = 11 => Len(Scripts[script]) = 8 /\ done \in 0..7
      /\ script = 7 => Len(Scripts[script]) = 4 /\ done \in 0..3
  <2> DEFINE n == Len(Scripts[script])
  <2>1. n \in 1..10 /\ done \in Nat /\ done < n
    BY <1>3, <1>4
  <2>2. (script = 11 => n = 8) /\ (script = 7 => n = 4)
    BY <1>2 DEF Shape
  <2> HIDE DEF n
  <2>3. done \in 0..9 /\ (script = 11 => done \in 0..7) /\ (script = 7 => done \in 0..3)
    BY <2>1, <2>2
  <2> QED  BY <2>2, <2>3 DEF n
<1> QED  BY <1>1, <1>3, <1>4, <1>5, <1>6, <1>7, <1>8

(* A statement takes the process one further.                              *)
LEMMA AppliedPosition ==
  ASSUME MInv, NEW w, Executing(w), Applied,
         IF w = "version" THEN version' = script ELSE UNCHANGED version
  PROVE  /\ Position' /\ done' = done + 1
         /\ process' \in {"down", "migrating", "up", "raised"} /\ script' \in 0..Last
         /\ done' \in 0..10 /\ version' \in 0..Last
         /\ UNCHANGED <<process, script, released, crashes>>
         /\ released \in Released /\ crashes \in 0..MaxCrashes
<1>1. /\ script \in 1..Last /\ done \in Nat /\ done < Len(Scripts[script])
      /\ done \in 0..9
      /\ Len(Scripts[script]) \in 1..10 /\ version = script - 1 /\ process = "migrating"
      /\ w = "version" => done + 1 = Len(Scripts[script])
  BY Executes
<1>2. done' = done + 1 /\ UNCHANGED <<process, script, released, crashes>>
  BY DEF Applied
<1>3. Last = 14
  BY ScriptShapes
<1>4. version' = script - 1 \/ (version' = script /\ done' = Len(Scripts[script]))
  BY <1>1, <1>2
<1>5. Position'
  BY <1>1, <1>2, <1>4 DEF Position
<1>6. done' \in 0..10 /\ version' \in 0..Last
  <2>1. done' \in 0..10
    BY <1>1, <1>2
  <2>2. version' \in 0..Last
    BY <1>1, <1>3, <1>4
  <2> QED  BY <2>1, <2>2
<1> QED  BY <1>1, <1>2, <1>5, <1>6 DEF MInv, MigrationTypeOK

(* A statement that moves rows or sets the version leaves the schema.      *)
LEMMA SchemaStays ==
  ASSUME MInv, NEW w \in {"copy", "gather", "merge", "forget", "version"},
         Executing(w), Applied, UNCHANGED schema,
         IF w = "version" THEN version' = script ELSE UNCHANGED version
  PROVE  SchemaKnown'
<1>1. /\ script \in 1..Last /\ done \in Nat /\ process = "migrating"
      /\ version = script - 1 /\ StatementShape(script, done + 1, Statement)
      /\ Statement.does = w /\ done < Len(Scripts[script])
      /\ script = 11 => Len(Scripts[script]) = 8 /\ done \in 0..7
      /\ w = "version" => done + 1 = Len(Scripts[script])
      /\ MadeBy(script, done + 1) = MadeBy(script, done) \union ({Statement.object} \ {"none"})
  BY Executes
<1>2. done' = done + 1 /\ UNCHANGED <<process, script, crashes>>
  BY DEF Applied
<1>3. Statement.object = "none"
  BY <1>1 DEF StatementShape
<1>4. MadeBy(script, done + 1) = MadeBy(script, done)
  BY <1>1, <1>3
<1>5. script = 11 => (w = "copy" /\ done = 2) \/ (w = "version" /\ done = 7)
  <2>1. ASSUME script = 11 PROVE w \in {"copy", "version"}
    BY <1>1, <2>1 DEF StatementShape
  <2>2. w = "copy" => done + 1 = 3
    BY <1>1 DEF StatementShape
  <2>3. ASSUME script = 11, w = "version" PROVE done = 7
    <3>1. done + 1 = 8
      BY <1>1, <2>3
    <3> QED  BY <1>1, <3>1
  <2>4. ASSUME w = "copy" PROVE done = 2
    BY <1>1, <2>2, <2>4
  <2> QED  BY <2>1, <2>3, <2>4
<1>6. Gone(script, done + 1) = Gone(script, done)
  BY <1>1, <1>5 DEF Gone
<1>7. (script = 11 /\ done + 1 \in 1..3) <=> (script = 11 /\ done \in 1..3)
  BY <1>5
<1>8. V1 \in schema => w # "version" /\ done + 1 \in 0..3 /\ script = 11 /\ version = 10
  BY <1>1, <1>5 DEF MInv, SchemaKnown
<1>9. Exact => Exact'
  BY <1>1, <1>2, <1>4, <1>6, <1>7 DEF Exact
<1> QED
  BY <1>1, <1>2, <1>4, <1>8, <1>9 DEF MInv, SchemaKnown

LEMMA CreatesKeeps == MInv /\ Creates => MInv'
<1> SUFFICES ASSUME MInv, Creates PROVE MInv'
  OBVIOUS
<1> DEFINE o == Statement.object
<1>1. PICK w \in {"ensure", "add", "insert"} : Executing(w)
  BY DEF Creates
<1>2. /\ script \in 1..Last /\ done \in Nat /\ process = "migrating"
      /\ version = script - 1 /\ StatementShape(script, done + 1, Statement)
      /\ Statement.does = w /\ done < Len(Scripts[script])
      /\ script = 11 => done \in 0..7
      /\ script = 7 => done \in 0..3
      /\ MadeBy(script, done + 1) = MadeBy(script, done) \union ({o} \ {"none"})
  BY <1>1, Executes
<1>3. Applied /\ schema' = schema \union {o}
      /\ UNCHANGED <<gathered, version, legacy, counted, reports, oldReports>>
  BY DEF Creates
<1>a. o # "none" /\ o # V1
  BY <1>2 DEF StatementShape, HomeOf
<1>b. /\ script = 7 => done >= 3
      /\ script = 11 => done \in {1, 4, 5, 6, 7}
      /\ script = 11 => (o = "deep_reports" <=> done = 1)
      /\ script = 11 => (o = "idx_deep_reports" <=> done = 6)
  <2>1. script = 7 => done + 1 \notin {1, 2, 3}
    BY <1>2 DEF StatementShape
  <2>2. script = 11 => done + 1 \notin {1, 3, 4}
    BY <1>2 DEF StatementShape
  <2>3. /\ script = 11 => (o = "deep_reports" <=> done + 1 = 2)
        /\ script = 11 => (o = "idx_deep_reports" <=> done + 1 = 7)
    BY <1>2 DEF StatementShape
  <2>4. done \in 0..9
    BY <1>1, Executes
  <2>5. (script = 7 => done \in 0..3) /\ (script = 11 => done \in 0..7)
    BY <1>2
  <2> HIDE DEF o
  <2>6. script = 7 => done >= 3
    BY <2>1, <2>4, <2>5
  <2>7. script = 11 => done \in {1, 4, 5, 6, 7}
    BY <2>2, <2>4, <2>5
  <2>8. (done + 1 = 2 <=> done = 1) /\ (done + 1 = 7 <=> done = 6)
    BY <2>4
  <2> QED  BY <2>3, <2>6, <2>7, <2>8
<1>5. /\ Position' /\ done' = done + 1 /\ UNCHANGED <<process, script, released, crashes>>
      /\ process' \in {"down", "migrating", "up", "raised"} /\ script' \in 0..Last
      /\ done' \in 0..10 /\ version' \in 0..Last
      /\ released \in Released /\ crashes \in 0..MaxCrashes
  BY <1>1, <1>3, AppliedPosition
<1>6. o \in MadeBy(script, Len(Scripts[script])) /\ o \in FullSchema
  <2>1. done + 1 \in 1..Len(Scripts[script])
    BY <1>1, <1>2, Executes
  <2>2. o \in MadeBy(script, Len(Scripts[script]))
    BY <1>a, <2>1 DEF MadeBy, Statement
  <2>3. (\E k \in 1..Last : o \in MadeBy(k, Len(Scripts[k]))) /\ Last \in 0..Last
    <3>1. Last \in 0..Last
      BY ScriptShapes
    <3> HIDE DEF o
    <3> QED  BY <1>2, <2>2, <3>1, Zenon
  <2> QED  BY <2>2, <2>3, SchemaGrows DEF FullSchema
<1>7. MigrationTypeOK'
  BY <1>3, <1>5, <1>6 DEF MInv, MigrationTypeOK
<1>8. SchemaKnown'
  <2>1. MadeBy(script, done + 1) = MadeBy(script, done) \union {o}
    BY <1>2, <1>a
  <2>2. V1 \in schema => script = 11 /\ done + 1 \in 0..3 /\ version = 10
    BY <1>2, <1>b DEF MInv, SchemaKnown
  <2>3. Gone(script, done + 1) = Gone(script, done)
    BY <1>2, <1>b DEF Gone
  <2>4. (script = 11 /\ done + 1 \in 1..3) <=> (script = 11 /\ done \in 1..3)
    BY <1>b
  <2>5. Exact => Exact'
    BY <1>2, <1>3, <1>5, <2>1, <2>3, <2>4 DEF Exact
  <2> HIDE DEF o
  <2>6. V1 \in schema' => V1 \in schema
    BY <1>3, <1>a
  <2> QED
    BY <1>2, <1>3, <1>5, <2>1, <2>2, <2>5, <2>6 DEF MInv, SchemaKnown
<1>9. Moving'
  <2>1. /\ ~ Running(7, {1})' /\ ~ Running(7, {2})' /\ ~ Running(7, {2})
        /\ legacy => ~ Running(7, {3, 4})'
    BY <1>2, <1>3, <1>5, <1>b DEF MInv, Moving, Running
  <2>2. released = 10 => /\ Running(11, {1, 2})' => Running(11, {1, 2})
                         /\ Running(11, 3..8)' => Running(11, 3..8)
    BY <1>2, <1>5, <1>b DEF Running
  <2> HIDE DEF o
  <2> QED
    BY <1>3, <1>5, <2>1, <2>2 DEF MInv, Moving
<1> QED  BY <1>5, <1>7, <1>8, <1>9 DEF MInv

(* SetVersion: 007 has forgotten the legacy rows by then.                   *)
LEMMA VersionsKeeps == MInv /\ Versions => MInv'
<1> SUFFICES ASSUME MInv, Versions PROVE MInv'
  OBVIOUS
<1>1. Executing("version") /\ Applied
      /\ UNCHANGED <<gathered, schema, legacy, counted, reports, oldReports>>
  BY DEF Versions
<1>2. /\ script \in 1..Last /\ done \in Nat /\ process = "migrating"
      /\ version = script - 1 /\ done \in 0..9
      /\ StatementShape(script, done + 1, Statement) /\ Statement.does = "version"
      /\ script = 11 => Len(Scripts[script]) = 8 /\ done \in 0..7
      /\ script = 7 => Len(Scripts[script]) = 4 /\ done \in 0..3
      /\ done + 1 = Len(Scripts[script])
  BY <1>1, Executes
<1>3. version' = script
  <2>1. version' = Max({version, script})
    BY DEF Versions
  <2>2. version \in Nat /\ script \in Nat /\ version <= script
    BY <1>2, ScriptShapes
  <2> QED  BY <2>1, <2>2, MaxOfTwo
<1>4. /\ Position' /\ done' = done + 1 /\ UNCHANGED <<process, script, released, crashes>>
      /\ process' \in {"down", "migrating", "up", "raised"} /\ script' \in 0..Last
      /\ done' \in 0..10 /\ version' \in 0..Last
      /\ released \in Released /\ crashes \in 0..MaxCrashes
  BY <1>1, <1>3, AppliedPosition
<1>5. MigrationTypeOK'
  BY <1>1, <1>4 DEF MInv, MigrationTypeOK
<1>6. SchemaKnown'
  BY <1>1, <1>3, SchemaStays
<1>7. Moving'
  <2>1. script = 7 => done = 3
    <3>1. script = 7 => done + 1 = 4
      BY <1>2
    <3> QED  BY <1>2, <3>1
  <2>2. script = 11 => done = 7
    <3>1. script = 11 => done + 1 = 8
      BY <1>2
    <3> QED  BY <1>2, <3>1
  <2>3. /\ ~ Running(7, {1})' /\ ~ Running(7, {2})' /\ ~ Running(7, {2})
        /\ legacy => script < 7
    <3>1. script = 7 => Running(7, {3, 4})
      BY <1>2, <2>1 DEF Running
    <3>2. legacy => script # 7 /\ version <= 6
      BY <3>1 DEF MInv, Moving
    <3>3. legacy => script < 7
      BY <1>2, <3>2, ScriptShapes
    <3> QED  BY <1>4, <2>1, <3>3 DEF Running
  <2>4. released = 10 => /\ ~ Running(11, {1, 2})'
                         /\ Running(11, 3..8)' => Running(11, 3..8)
    BY <1>2, <1>4, <2>2 DEF Running
  <2>5. legacy => version' <= 6 /\ ~ Running(7, {3, 4})'
    BY <1>2, <1>3, <1>4, <2>3, ScriptShapes DEF Running
  <2> QED
    BY <1>1, <1>4, <2>3, <2>4, <2>5 DEF MInv, Moving
<1> QED  BY <1>4, <1>5, <1>6, <1>7 DEF MInv

(* 007: what is gathered is added before it is forgotten.                   *)
LEMMA CountsMove == MInv /\ (Gathers \/ Merges \/ Forgets) => MInv'
<1> SUFFICES ASSUME MInv, Gathers \/ Merges \/ Forgets PROVE MInv'
  OBVIOUS
<1>1. PICK w \in {"gather", "merge", "forget"} :
        Executing(w) /\ Applied /\ UNCHANGED <<version, schema, reports, oldReports>>
  BY DEF Gathers, Merges, Forgets, database
<1>2. /\ script = 7 /\ process = "migrating" /\ version = 6 /\ done \in 0..3
      /\ done = IF w = "gather" THEN 0 ELSE IF w = "merge" THEN 1 ELSE 2
  <2>1. /\ script \in 1..Last /\ process = "migrating" /\ version = script - 1
        /\ StatementShape(script, done + 1, Statement) /\ Statement.does = w
        /\ done \in 0..9
    BY <1>1, Executes
  <2>2. script = 7 /\ done + 1 = IF w = "gather" THEN 1 ELSE IF w = "merge" THEN 2 ELSE 3
    BY <2>1 DEF StatementShape
  <2> QED  BY <2>1, <2>2
<1>3. /\ Position' /\ done' = done + 1 /\ UNCHANGED <<process, script, released, crashes>>
      /\ process' \in {"down", "migrating", "up", "raised"} /\ script' \in 0..Last
      /\ done' \in 0..10 /\ version' \in 0..Last
      /\ released \in Released /\ crashes \in 0..MaxCrashes
  BY <1>1, AppliedPosition
<1>4. SchemaKnown'
  BY <1>1, SchemaStays
<1>5. /\ CountsTyped
      /\ counted <= crashes + (IF legacy /\ ~ Running(7, {2}) THEN 0 ELSE 1)
      /\ {gathered, legacy, reports, oldReports} \subseteq BOOLEAN
      /\ schema \subseteq FullSchema \union {V1}
      /\ oldReports => V1 \in schema
      /\ released = 10 => reports \/ oldReports
  BY Counts DEF MInv, MigrationTypeOK, Moving
<1>6. CASE Gathers
  <2>1. w = "gather" /\ gathered' = legacy /\ UNCHANGED <<legacy, counted>>
    <3>1. Executing("gather") /\ gathered' = legacy /\ UNCHANGED <<legacy, counted>>
      BY <1>6 DEF Gathers, database
    <3> QED  BY <1>1, <3>1 DEF Executing
  <2>2. done = 0 /\ done' = 1
    BY <1>2, <1>3, <2>1
  <2>3. MigrationTypeOK'
    BY <1>1, <1>3, <1>5, <2>1 DEF MInv, MigrationTypeOK
  <2>4. Moving'
    BY <1>1, <1>2, <1>3, <1>5, <2>1, <2>2 DEF MInv, Moving, Running
  <2> QED  BY <1>3, <1>4, <2>3, <2>4 DEF MInv
<1>7. CASE Merges
  <2>1. w = "merge" /\ counted' = (IF gathered THEN counted + 1 ELSE counted)
        /\ UNCHANGED <<legacy, gathered>>
    BY <1>1, <1>7 DEF Merges, Executing
  <2>2. done = 1 /\ done' = 2
    BY <1>2, <1>3, <2>1
  <2>3. Running(7, {1}) /\ ~ Running(7, {2}) /\ Running(7, {2})' /\ ~ Running(7, {1})'
        /\ ~ Running(7, {3, 4})' /\ (gathered <=> legacy)
    BY <1>2, <1>3, <2>2 DEF Running, MInv, Moving
  <2>4. counted' \in Nat /\ counted' <= crashes + 1 /\ (legacy => counted' >= 1)
        /\ counted <= counted'
    BY <1>5, <2>1, <2>3 DEF CountsTyped
  <2>5. MigrationTypeOK'
    BY <1>1, <1>3, <1>5, <2>1, <2>4 DEF MInv, MigrationTypeOK, CountsTyped
  <2>6. Moving'
    <3>1. ~ Running(11, {1, 2})' /\ ~ Running(11, 3..8)'
      BY <1>2, <1>3 DEF Running
    <3>2. released \in 4..6 => legacy \/ counted' >= 1
      BY <1>5, <2>4 DEF MInv, Moving, CountsTyped
    <3> QED
      BY <1>1, <1>2, <1>3, <1>5, <2>1, <2>3, <2>4, <3>1, <3>2 DEF Moving
  <2> QED  BY <1>3, <1>4, <2>5, <2>6 DEF MInv
<1>8. CASE Forgets
  <2>1. w = "forget" /\ legacy' = FALSE /\ UNCHANGED <<counted, gathered>>
    BY <1>1, <1>8 DEF Forgets, Executing
  <2>2. done = 2 /\ done' = 3
    BY <1>2, <1>3, <2>1
  <2>3. Running(7, {2}) /\ ~ Running(7, {2})' /\ ~ Running(7, {1})'
        /\ ~ Running(11, {1, 2})' /\ ~ Running(11, 3..8)'
    BY <1>2, <1>3, <2>2 DEF Running
  <2>4. MigrationTypeOK'
    BY <1>1, <1>3, <1>5, <2>1 DEF MInv, MigrationTypeOK
  <2>5. counted <= crashes + 1 /\ (released \in 4..6 => counted >= 1)
    BY <1>5, <2>3 DEF MInv, Moving
  <2>6. Moving'
    BY <1>1, <1>3, <1>5, <2>1, <2>3, <2>5 DEF Moving
  <2> QED  BY <1>3, <1>4, <2>4, <2>6 DEF MInv
<1> QED  BY <1>6, <1>7, <1>8

(* 011: the reports are in the old table or in the new one, or in both.     *)
LEMMA ReportsMove == MInv /\ (Renames \/ Copies \/ Drops) => MInv'
<1> SUFFICES ASSUME MInv, Renames \/ Copies \/ Drops PROVE MInv'
  OBVIOUS
<1>1. PICK w \in {"rename", "copy", "drop"} :
        Executing(w) /\ Applied /\ UNCHANGED <<gathered, version, legacy, counted>>
  BY DEF Renames, Copies, Drops
<1>2. /\ script = 11 /\ process = "migrating" /\ version = 10 /\ done \in 0..7
      /\ done = IF w = "rename" THEN 0 ELSE IF w = "copy" THEN 2 ELSE 3
      /\ script \in 1..Last /\ MadeBy(11, done + 1) = MadeBy(11, done)
  <2>1. /\ script \in 1..Last /\ process = "migrating" /\ version = script - 1
        /\ StatementShape(script, done + 1, Statement) /\ Statement.does = w
        /\ done \in 0..9
        /\ MadeBy(script, done + 1) = MadeBy(script, done) \union ({Statement.object} \ {"none"})
    BY <1>1, Executes
  <2>2. script = 11 /\ done + 1 = IF w = "rename" THEN 1 ELSE IF w = "copy" THEN 3 ELSE 4
    BY <2>1 DEF StatementShape
  <2>3. Statement.object = "none"
    BY <2>1 DEF StatementShape
  <2>4. done = IF w = "rename" THEN 0 ELSE IF w = "copy" THEN 2 ELSE 3
    BY <2>1, <2>2
  <2>5. MadeBy(script, done + 1) = MadeBy(script, done)
    BY <2>1, <2>3
  <2>6. version = 10 /\ done \in 0..7
    BY <2>1, <2>2, <2>4
  <2> QED  BY <2>1, <2>2, <2>4, <2>5, <2>6
<1>3. /\ Position' /\ done' = done + 1 /\ UNCHANGED <<process, script, released, crashes>>
      /\ process' \in {"down", "migrating", "up", "raised"} /\ script' \in 0..Last
      /\ done' \in 0..10 /\ version' \in 0..Last
      /\ released \in Released /\ crashes \in 0..MaxCrashes
  BY <1>1, AppliedPosition
<1>4. /\ {gathered, legacy, reports, oldReports} \subseteq BOOLEAN
      /\ schema \subseteq FullSchema \union {V1} /\ counted \in 0..(MaxCrashes + 1)
      /\ oldReports => V1 \in schema
      /\ released = 10 => /\ reports \/ oldReports
                          /\ done = 2 => oldReports
                          /\ done = 3 => reports
  BY <1>2 DEF MInv, MigrationTypeOK, Moving, Running
\* What concerns 007 is untouched.
<1>5. ASSUME oldReports' => V1 \in schema',
             released = 10 => /\ reports' \/ oldReports'
                              /\ done' \in {1, 2} => oldReports'
                              /\ done' \in 3..8 => reports'
      PROVE  Moving'
  <2>1. /\ ~ Running(7, {1}) /\ ~ Running(7, {2}) /\ ~ Running(7, {3, 4})
        /\ ~ Running(7, {1})' /\ ~ Running(7, {2})' /\ ~ Running(7, {3, 4})'
    BY <1>2, <1>3 DEF Running
  <2>2. released = 10 => /\ Running(11, {1, 2})' => oldReports'
                         /\ Running(11, 3..8)' => reports'
    BY <1>5 DEF Running
  <2>3. ~ legacy
    BY <1>2 DEF MInv, Moving
  <2> QED  BY <1>1, <1>3, <1>5, <2>1, <2>2, <2>3 DEF MInv, Moving
<1>6. /\ (SchemaAt(10) \ Volatile) \union MadeBy(11, done) \subseteq schema
      /\ crashes = 0 => schema = (SchemaAt(10) \ Gone(11, done)) \union MadeBy(11, done)
                                    \union (IF done \in 1..3 THEN {V1} ELSE {})
  BY <1>2 DEF MInv, SchemaKnown, Exact, Endangered
<1>7. V1 \notin SchemaAt(10) /\ Volatile \subseteq SchemaAt(10) /\ SchemaAt(10) \subseteq FullSchema
  BY SchemaHome, SchemaOf10, ScriptShapes DEF FullSchema
<1>8. MadeBy(11, 0) = {} /\ MadeBy(11, 3) \subseteq {"deep_reports"} /\ V1 \notin MadeBy(11, done)
  <2>0. Shape(11)
    BY ScriptShapes
  <2>1. Shape(11) /\ Len(Scripts[11]) = 8
    BY <2>0 DEF Shape
  <2>2. \A d \in 1..8 : StatementShape(11, d, Scripts[11][d])
    BY <2>1 DEF Shape
  <2>3. MadeBy(11, 0) = {}
    BY DEF MadeBy
  <2>4. \A d \in 1..3 : Scripts[11][d].object \in {"none", "deep_reports"}
    BY <2>2 DEF StatementShape, Kinds
  <2>5. \A d \in 1..8 : Scripts[11][d].object # V1
    BY <2>2 DEF StatementShape, HomeOf, V1
  <2> QED  BY <1>2, <2>3, <2>4, <2>5 DEF MadeBy
<1>9. ASSUME (SchemaAt(10) \ Volatile) \union MadeBy(11, done') \subseteq schema',
             V1 \in schema' => done' \in 0..3,
             crashes = 0 => schema' = (SchemaAt(10) \ Gone(11, done'))
                               \union MadeBy(11, done')
                               \union (IF done' \in 1..3 THEN {V1} ELSE {})
      PROVE  SchemaKnown'
  <2>1. Exact' <=> schema' = (SchemaAt(10) \ Gone(11, done')) \union MadeBy(11, done')
                               \union (IF done' \in 1..3 THEN {V1} ELSE {})
    BY <1>2, <1>3 DEF Exact
  <2> QED  BY <1>1, <1>2, <1>3, <1>9, <2>1 DEF SchemaKnown, Endangered
<1>10. CASE Renames
  <2>1. /\ w = "rename" /\ V1 \notin schema /\ "deep_reports" \in schema
        /\ schema' = (schema \ {"deep_reports"}) \union {V1}
        /\ oldReports' = reports /\ reports' = FALSE
    BY <1>1, <1>10 DEF Renames, Executing
  <2>2. done = 0 /\ done' = 1
    BY <1>2, <1>3, <2>1
  <2>3. MigrationTypeOK'
    BY <1>1, <1>3, <1>4, <2>1 DEF MInv, MigrationTypeOK
  <2>4. Moving'
    BY <1>4, <1>5, <2>1, <2>2
  <2>5. Gone(11, 0) = {} /\ Gone(11, 1) = {"deep_reports"} /\ "deep_reports" \in Volatile
    BY DEF Gone, Volatile
  <2>6. SchemaKnown'
    BY <1>2, <1>6, <1>7, <1>8, <1>9, <2>1, <2>2, <2>5
  <2> QED  BY <1>3, <2>3, <2>4, <2>6 DEF MInv
<1>11. CASE Copies
  <2>1. w = "copy" /\ UNCHANGED <<schema, oldReports>> /\ reports' = oldReports
    BY <1>1, <1>11 DEF Copies, Executing
  <2>2. done = 2 /\ done' = 3
    BY <1>2, <1>3, <2>1
  <2>3. MigrationTypeOK'
    BY <1>1, <1>3, <1>4, <2>1 DEF MInv, MigrationTypeOK
  <2>4. Moving'
    BY <1>4, <1>5, <2>1, <2>2
  <2>5. SchemaKnown'
    BY <1>1, <2>1, SchemaStays
  <2> QED  BY <1>3, <2>3, <2>4, <2>5 DEF MInv
<1>12. CASE Drops
  <2>1. /\ w = "drop" /\ schema' = schema \ {V1, "idx_deep_reports"}
        /\ oldReports' = FALSE /\ UNCHANGED reports
    BY <1>1, <1>12 DEF Drops, Executing
  <2>2. done = 3 /\ done' = 4
    BY <1>2, <1>3, <2>1
  <2>3. MigrationTypeOK'
    BY <1>1, <1>3, <1>4, <2>1 DEF MInv, MigrationTypeOK
  <2>4. Moving'
    BY <1>4, <1>5, <2>1, <2>2
  <2>5. Gone(11, 3) = {"deep_reports"} /\ Gone(11, 4) = Volatile
        /\ Volatile = {"deep_reports", "idx_deep_reports"} /\ V1 # "deep_reports"
    BY DEF Gone, Volatile, V1
  <2>6. SchemaKnown'
    BY <1>2, <1>6, <1>7, <1>8, <1>9, <2>1, <2>2, <2>5
  <2> QED  BY <1>3, <2>3, <2>4, <2>6 DEF MInv
<1> QED  BY <1>10, <1>11, <1>12

(* A statement raises only when something was made or moved twice.          *)
LEMMA RaisesKeeps == MInv /\ Raises => MInv'
<1> SUFFICES ASSUME MInv, Raises PROVE MInv'
  OBVIOUS
<1>1. /\ process' = "raised" /\ script' = 0 /\ done' = 0 /\ gathered' = FALSE
      /\ UNCHANGED <<version, schema, legacy, counted, reports, oldReports, released, crashes>>
  BY DEF Raises, database
<1>2. PICK w \in {"add", "insert", "rename", "copy", "drop"} :
        /\ Executing(w)
        /\ w \in {"add", "insert"} => Statement.object \in schema
        /\ w = "rename" => ~ ("deep_reports" \in schema /\ V1 \notin schema)
        /\ w \in {"copy", "drop"} => V1 \notin schema
  BY DEF Raises
<1>3. /\ script \in 1..Last /\ process = "migrating" /\ version = script - 1
      /\ StatementShape(script, done + 1, Statement) /\ Statement.does = w
      /\ done \in 0..9 /\ Statement.object \notin MadeBy(script, done)
      /\ script = 11 => done \in 0..7
  BY <1>2, Executes
<1>4. crashes # 0
  <2> SUFFICES ASSUME crashes = 0 PROVE FALSE
    OBVIOUS
  <2>1. schema = (SchemaAt(script - 1) \ Gone(script, done)) \union MadeBy(script, done)
                   \union (IF script = 11 /\ done \in 1..3 THEN {V1} ELSE {})
    BY <1>3 DEF MInv, SchemaKnown, Exact
  <2>2. V1 \notin SchemaAt(script - 1) /\ Volatile \subseteq SchemaAt(10)
    BY <1>3, SchemaHome, SchemaOf10, ScriptShapes
  <2>3. CASE w \in {"add", "insert"}
    <3>1. /\ Statement.object # V1 /\ HomeOf(Statement.object, script)
          /\ script = 11 => /\ Statement.object = "deep_reports" <=> done + 1 = 2
                            /\ Statement.object = "idx_deep_reports" <=> done + 1 = 7
      BY <1>3, <2>3 DEF StatementShape, HomeOf
    <3>2. Statement.object \in SchemaAt(script - 1) \ Gone(script, done)
      BY <1>2, <1>3, <2>1, <2>3, <3>1
    <3>3. script - 1 \in 0..Last
      BY <1>3, ScriptShapes
    <3>4. IF Statement.object \in Volatile THEN script - 1 >= 10
          ELSE Home[Statement.object] \in 1..(script - 1)
      BY <3>2, <3>3, SchemaHome
    <3>5. Statement.object \in Volatile /\ script = 11
      BY <1>3, <3>1, <3>4, ScriptShapes DEF HomeOf
    <3>6. Statement.object \in Gone(11, done)
      <4>1. CASE Statement.object = "deep_reports"
        <5>1. done = 1
          BY <1>3, <3>1, <3>5, <4>1
        <5> QED  BY <4>1, <5>1 DEF Gone
      <4>2. CASE Statement.object = "idx_deep_reports"
        <5>1. done = 6
          BY <1>3, <3>1, <3>5, <4>2
        <5> QED  BY <4>2, <5>1 DEF Gone, Volatile
      <4> QED  BY <3>5, <4>1, <4>2 DEF Volatile
    <3> QED  BY <3>2, <3>5, <3>6
  <2>4. CASE w = "rename"
    <3>1. script = 11 /\ done + 1 = 1
      BY <1>3, <2>4 DEF StatementShape
    <3>2. script = 11 /\ done = 0
      BY <1>3, <3>1
    <3>3. MadeBy(11, 0) = {} /\ Gone(11, 0) = {} /\ script - 1 = 10
      BY <3>2 DEF MadeBy, Gone
    <3>4. schema = SchemaAt(10)
      BY <2>1, <3>2, <3>3
    <3> QED  BY <1>2, <2>2, <2>4, <3>3, <3>4 DEF Volatile
  <2>5. CASE w \in {"copy", "drop"}
    <3>1. script = 11 /\ done + 1 \in {3, 4}
      BY <1>3, <2>5 DEF StatementShape
    <3>2. script = 11 /\ done \in 1..3
      BY <1>3, <3>1
    <3> QED  BY <1>2, <2>1, <2>5, <3>2
  <2> QED  BY <2>3, <2>4, <2>5
<1>5. MigrationTypeOK' /\ crashes > 0
  <2>1. crashes > 0
    BY <1>4, Counts DEF CountsTyped
  <2>2. script' \in 0..Last /\ done' \in 0..10
    BY <1>1, ScriptShapes
  <2>3. /\ gathered \in BOOLEAN /\ legacy \in BOOLEAN /\ reports \in BOOLEAN
        /\ oldReports \in BOOLEAN /\ version \in 0..Last /\ schema \subseteq FullSchema \union {V1}
        /\ counted \in 0..(MaxCrashes + 1) /\ released \in Released
        /\ crashes \in 0..MaxCrashes
    BY DEF MInv, MigrationTypeOK
  <2>4. MigrationTypeOK'
    BY <1>1, <2>2, <2>3 DEF MigrationTypeOK
  <2> QED  BY <2>1, <2>4
<1>6. Position'
  BY <1>1, <1>5 DEF Position
<1>7. SchemaKnown'
  <2>1. version + 1 = script
    BY <1>3, ScriptShapes
  <2> QED
    BY <1>1, <1>3, <1>5, <2>1 DEF MInv, SchemaKnown
<1>8. Moving'
  <2>1. ~ Running(7, {2})
    <3> SUFFICES ASSUME script = 7, done = 2 PROVE FALSE
      BY DEF Running
    <3>1. done + 1 = 3
      OBVIOUS
    <3> QED  BY <1>3, <3>1 DEF StatementShape
  <2>2. counted <= crashes + (IF legacy THEN 0 ELSE 1)
    BY <2>1 DEF MInv, Moving
  <2>3. \A s, D : ~ Running(s, D)'
    BY <1>1 DEF Running
  <2> QED  BY <1>1, <2>2, <2>3 DEF MInv, Moving
<1> QED  BY <1>5, <1>6, <1>7, <1>8 DEF MInv

(* The next script, or none: what is known of the schema goes on.           *)
LEMMA GoesOn ==
  ASSUME NEW n \in 0..Last, GoOn(n)
  PROVE  /\ IF n < Last THEN process' = "migrating" /\ script' = n + 1 /\ done' = 0
                        ELSE process' = "up" /\ script' = 0 /\ done' = 0
         /\ n < Last \/ n = Last
         /\ MadeBy(n + 1, 0) = {}
         /\ process' \in {"down", "migrating", "up", "raised"} /\ script' \in 0..Last
         /\ done' \in 0..10
<1>1. n < Last \/ n = Last
  BY ScriptShapes
<1>2. MadeBy(n + 1, 0) = {}
  BY DEF MadeBy
<1> QED  BY <1>1, <1>2, ScriptShapes DEF GoOn

LEMMA NextScript ==
  ASSUME MInv, NEW n \in 0..Last, GoOn(n), version' = n,
         UNCHANGED <<gathered, schema, legacy, counted, reports, oldReports, released, crashes>>,
         SchemaAt(n) \ Endangered(n + 1) \subseteq schema,
         V1 \in schema => n = 10,
         crashes = 0 => schema = SchemaAt(n),
         legacy => n <= 6, ~ Running(7, {2}) \/ ~ legacy
  PROVE  MInv'
<1>1. /\ IF n < Last THEN process' = "migrating" /\ script' = n + 1 /\ done' = 0
                     ELSE process' = "up" /\ script' = 0 /\ done' = 0
      /\ n < Last \/ n = Last
      /\ MadeBy(n + 1, 0) = {} /\ Last = 14 /\ n + 1 - 1 = n
      /\ process' \in {"down", "migrating", "up", "raised"} /\ script' \in 0..Last
      /\ done' \in 0..10
  BY GoesOn, ScriptShapes
<1>2. MigrationTypeOK'
  BY <1>1 DEF MInv, MigrationTypeOK
<1>3. Position'
  <2>1. ASSUME n < Last PROVE n + 1 \in 1..Last /\ 0 \in 0..Len(Scripts[n + 1])
    <3>1. n + 1 \in 1..Last
      BY <1>1, <2>1
    <3>2. Shape(n + 1)
      BY <3>1, ScriptShapes
    <3> QED  BY <3>1, <3>2 DEF Shape
  <2>2. CASE n < Last
    <3>1. process' = "migrating" /\ script' = n + 1 /\ done' = 0 /\ version' = script' - 1
      BY <1>1, <2>2
    <3> QED  BY <2>1, <2>2, <3>1 DEF Position
  <2>3. CASE n = Last
    <3>1. process' = "up" /\ version' = Last
      BY <1>1, <2>3
    <3> QED  BY <3>1 DEF Position
  <2> QED  BY <1>1, <2>2, <2>3
<1>4. SchemaKnown'
  <2>1. Gone(n + 1, 0) = {}
    BY DEF Gone
  <2>2. CASE n < Last
    BY <1>1, <2>1, <2>2 DEF SchemaKnown, Exact
  <2>3. CASE n = Last
    BY <1>1, <2>3 DEF SchemaKnown, Exact
  <2> QED  BY <1>1, <2>2, <2>3
<1>5. Moving'
  <2>1. /\ ~ Running(7, {1})' /\ ~ Running(7, {2})' /\ ~ Running(7, {3, 4})'
        /\ ~ Running(11, {1, 2})' /\ ~ Running(11, 3..8)'
    BY <1>1 DEF Running
  <2>2. counted <= crashes + (IF legacy THEN 0 ELSE 1)
    BY DEF MInv, Moving
  <2> QED  BY <2>1, <2>2 DEF MInv, Moving
<1> QED  BY <1>2, <1>3, <1>4, <1>5 DEF MInv

LEMMA StartKeeps == MInv /\ Start => MInv'
<1> SUFFICES ASSUME MInv, Start PROVE MInv'
  OBVIOUS
<1>1. /\ process \in {"down", "raised"} /\ GoOn(version)
      /\ UNCHANGED <<gathered, version, schema, legacy, counted, reports, oldReports,
                     released, crashes>>
  BY DEF Start, database
<1>2. version \in 0..Last
  BY DEF MInv, MigrationTypeOK
<1>3. /\ SchemaAt(version) \ Endangered(version + 1) \subseteq schema
      /\ V1 \in schema => version = 10
      /\ crashes = 0 => schema = SchemaAt(version)
  BY <1>1 DEF MInv, SchemaKnown, Exact
<1>4. (legacy => version <= 6) /\ ~ Running(7, {2})
  BY <1>1 DEF MInv, Moving, Running
<1> QED  BY <1>1, <1>2, <1>3, <1>4, NextScript

(* A script that is done has made its objects, and 011 what it endangered.  *)
LEMMA RecordVersionKeeps == MInv /\ RecordVersion => MInv'
<1> SUFFICES ASSUME MInv, RecordVersion PROVE MInv'
  OBVIOUS
<1>1. /\ process = "migrating" /\ done = Len(Scripts[script])
      /\ version' = script /\ GoOn(script)
      /\ UNCHANGED <<gathered, schema, legacy, counted, reports, oldReports,
                     released, crashes>>
  BY DEF RecordVersion
<1>2. script \in 1..Last /\ script \in 0..Last /\ Shape(script) /\ Last = 14
  BY <1>1, ScriptShapes DEF MInv, Position
<1>3. SchemaAt(script) = SchemaAt(script - 1) \union MadeBy(script, Len(Scripts[script]))
  BY <1>2, SchemaGrows
<1>4. script = 11 => Volatile \subseteq MadeBy(script, Len(Scripts[script]))
  <2> SUFFICES ASSUME script = 11 PROVE Volatile \subseteq MadeBy(11, 8)
    BY <1>2 DEF Shape
  <2>1. Shape(11) /\ Len(Scripts[11]) = 8
    BY <1>2 DEF Shape
  <2>2. StatementShape(11, 2, Scripts[11][2]) /\ StatementShape(11, 7, Scripts[11][7])
    BY <2>1 DEF Shape
  <2>3. Scripts[11][2].object = "deep_reports" /\ Scripts[11][7].object = "idx_deep_reports"
    BY <2>2 DEF StatementShape
  <2> QED  BY <2>3 DEF MadeBy, Volatile
<1>5. SchemaAt(script) \subseteq schema
  BY <1>1, <1>3, <1>4 DEF MInv, SchemaKnown, Endangered
<1>6. V1 \in schema => script = 10
  <2> SUFFICES ASSUME V1 \in schema PROVE FALSE
    OBVIOUS
  <2>1. script = 11 /\ done \in 0..3
    BY <1>1 DEF MInv, SchemaKnown
  <2>2. done = 8
    BY <1>1, <1>2, <2>1 DEF Shape
  <2> QED  BY <2>1, <2>2
<1>7. crashes = 0 => schema = SchemaAt(script)
  <2>1. crashes = 0 => schema \subseteq SchemaAt(script) \union {V1}
    BY <1>1, <1>3 DEF MInv, SchemaKnown, Exact
  <2>2. crashes = 0 => V1 \notin schema
    <3>1. crashes = 0 /\ V1 \in schema => script = 11 /\ done \in 0..3
      BY <1>1 DEF MInv, SchemaKnown
    <3>2. script = 11 => done = 8
      BY <1>1, <1>2 DEF Shape
    <3> QED  BY <3>1, <3>2
  <2> QED  BY <1>5, <2>1, <2>2
<1>8. (legacy => script <= 6) /\ ~ Running(7, {2})
  <2>1. script = 7 => done = 4
    BY <1>1, <1>2 DEF Shape
  <2>2. ~ Running(7, {2}) /\ (script = 7 => Running(7, {3, 4}))
    BY <1>1, <2>1 DEF Running
  <2>3. legacy => version <= 6 /\ script # 7
    BY <2>2 DEF MInv, Moving
  <2>4. version = script - 1 \/ version = script
    BY <1>1 DEF MInv, Position
  <2> QED  BY <1>2, <2>2, <2>3, <2>4
<1> QED  BY <1>1, <1>2, <1>5, <1>6, <1>7, <1>8, NextScript

(* Whatever the point at which a process dies.                              *)
LEMMA ProcessDiesKeeps == MInv /\ ProcessDies => MInv'
<1> SUFFICES ASSUME MInv, ProcessDies PROVE MInv'
  OBVIOUS
<1>1. /\ process \in {"migrating", "up"} /\ crashes < MaxCrashes /\ crashes' = crashes + 1
      /\ process' = "down" /\ script' = 0 /\ done' = 0 /\ gathered' = FALSE
      /\ UNCHANGED <<version, schema, legacy, counted, reports, oldReports, released>>
  BY DEF ProcessDies, database
<1>2. CountsTyped
  BY Counts
<1>3. crashes' \in 0..MaxCrashes /\ crashes' # 0
  BY <1>1, <1>2 DEF CountsTyped
<1>4. MigrationTypeOK'
  <2>1. script' \in 0..Last /\ done' \in 0..10
    BY <1>1, ScriptShapes
  <2>2. /\ gathered \in BOOLEAN /\ legacy \in BOOLEAN /\ reports \in BOOLEAN
        /\ oldReports \in BOOLEAN /\ version \in 0..Last /\ schema \subseteq FullSchema \union {V1}
        /\ counted \in 0..(MaxCrashes + 1) /\ released \in Released
    BY DEF MInv, MigrationTypeOK
  <2> QED  BY <1>1, <1>3, <2>1, <2>2 DEF MigrationTypeOK
<1>5. Position'
  BY <1>1 DEF Position
<1>6. SchemaKnown'
  <2>1. CASE process = "migrating"
    <3>1. script \in 1..Last /\ (version = script - 1 \/ (version = script /\ done = Len(Scripts[script])))
      BY <2>1 DEF MInv, Position
    <3>2. (SchemaAt(script - 1) \ Endangered(script)) \union MadeBy(script, done) \subseteq schema
      BY <2>1 DEF MInv, SchemaKnown
    <3>3. SchemaAt(version) \ Endangered(version + 1) \subseteq schema
      <4>1. CASE version = script - 1
        <5>1. version + 1 = script
          BY <3>1, <4>1, ScriptShapes
        <5> QED  BY <3>2, <4>1, <5>1
      <4>2. CASE version = script /\ done = Len(Scripts[script])
        <5>1. SchemaAt(script) = SchemaAt(script - 1) \union MadeBy(script, done)
          BY <3>1, <4>2, SchemaGrows
        <5>2. CASE script # 11
          BY <3>2, <4>2, <5>1, <5>2 DEF Endangered
        <5>3. CASE script = 11
          <6>1. Shape(11)
            BY ScriptShapes
          <6>2. done = 8 /\ StatementShape(11, 2, Scripts[11][2])
                /\ StatementShape(11, 7, Scripts[11][7])
            BY <4>2, <5>3, <6>1 DEF Shape
          <6>3. Volatile \subseteq MadeBy(11, 8)
            BY <6>2 DEF StatementShape, MadeBy, Volatile
          <6> QED  BY <3>2, <4>2, <5>1, <5>3, <6>2, <6>3 DEF Endangered
        <5> QED  BY <5>2, <5>3
      <4> QED  BY <3>1, <4>1, <4>2
    <3> QED  BY <1>1, <1>3, <3>3 DEF MInv, SchemaKnown
  <2>2. CASE process = "up"
    BY <1>1, <1>3, <2>2 DEF MInv, SchemaKnown
  <2> QED  BY <1>1, <2>1, <2>2
<1>7. Moving'
  <2>1. counted <= crashes' + (IF legacy THEN 0 ELSE 1)
    BY <1>1, <1>2 DEF MInv, Moving, CountsTyped
  <2> QED  BY <1>1, <2>1 DEF MInv, Moving, Running
<1> QED  BY <1>4, <1>5, <1>6, <1>7 DEF MInv

LEMMA MigrationInvariant == MInv /\ [MigrationStep \/ ProcessDies]_migrationVars => MInv'
<1> SUFFICES ASSUME MInv, [MigrationStep \/ ProcessDies]_migrationVars PROVE MInv'
  OBVIOUS
<1>1. CASE MigrationStep
  BY <1>1, StartKeeps, CreatesKeeps, VersionsKeeps, CountsMove, ReportsMove, RaisesKeeps,
     RecordVersionKeeps DEF MigrationStep
<1>2. CASE ProcessDies
  BY <1>2, ProcessDiesKeeps
<1>3. CASE UNCHANGED migrationVars
  BY <1>3 DEF migrationVars, database, MInv, MigrationTypeOK, Position, SchemaKnown, Exact,
              Moving, Running
<1> QED  BY <1>1, <1>2, <1>3

LEMMA MInvMeans == MInv => StartsAreSafe /\ NothingMigratedIsLost
<1> SUFFICES ASSUME MInv PROVE StartsAreSafe /\ NothingMigratedIsLost
  OBVIOUS
<1>1. ASSUME process = "up"
      PROVE  schema = FullSchema /\ version = Last /\ ~ legacy /\ (released = 10 => reports)
  <2>1. version = 14 /\ Last = 14
    BY <1>1, ScriptShapes DEF MInv, Position
  <2>2. V1 \notin schema /\ SchemaAt(version) \ Endangered(version + 1) \subseteq schema
    BY <1>1 DEF MInv, SchemaKnown
  <2>3. Endangered(version + 1) = {}
    BY <2>1 DEF Endangered
  <2>4. schema \subseteq FullSchema \union {V1}
    BY DEF MInv, MigrationTypeOK
  <2>5. ~ legacy /\ (released = 10 => reports)
    BY <2>1, <2>2 DEF MInv, Moving
  <2> QED  BY <2>1, <2>2, <2>3, <2>4, <2>5 DEF FullSchema
<1>2. StartsAreSafe
  BY <1>1 DEF StartsAreSafe, MInv, Position
<1>3. counted <= crashes + 1
  BY Counts DEF MInv, Moving, CountsTyped
<1>4. NothingMigratedIsLost
  BY <1>3 DEF NothingMigratedIsLost, MInv, Moving
<1> QED  BY <1>2, <1>4

(* The steps of the server leave the migrations alone.                      *)
LEMMA NextMigrates == [Next]_vars => [MigrationStep \/ ProcessDies]_migrationVars
<1> USE DEF vars
<1> QED
  BY DEF Next, Serve, Migrate, Crash, Quiet, MigrationStep

THEOREM MigrationInvariance == Spec => []MInv
<1>1. Init => MInv
  BY MigrationInitial DEF Init
<1>2. MInv /\ [Next]_vars => MInv'
  BY MigrationInvariant, NextMigrates
<1> QED  BY <1>1, <1>2, PTL DEF Spec

(* _run_migrations and the scripts of src/db/migrations: from the database  *)
(* of any release, whatever statement of whatever start a process dies at,  *)
(* a start serves nothing but the full schema with the old data in it, and  *)
(* raises only after such a death.                                          *)
THEOREM StartsAlwaysSafe == Spec => []StartsAreSafe
<1> QED  BY MInvMeans, MigrationInvariance, PTL

(* 007 and 011, which move rows from one place to another in statements of  *)
(* their own: reports and counts are in one place or the other at all       *)
(* times, and a count is added twice by a death in between only.            *)
THEOREM NothingEverLost == Spec => []NothingMigratedIsLost
<1> QED  BY MInvMeans, MigrationInvariance, PTL

(* Every variable of the store and of the migrations keeps its type: ids    *)
(* are never more than urls, and no url is approved more often than runs    *)
(* were started.                                                            *)
THEOREM TypeCorrect == Spec => []TypeOK
<1>1. SInv /\ MInv => TypeOK
  BY StoreTyped DEF TypeOK, MInv
<1> QED  BY <1>1, StoreInvariance, MigrationInvariance, PTL

-----------------------------------------------------------------------------
(***************************************************************************)
(* The summaries of a run.                                                 *)
(***************************************************************************)
ApprovedItems == {i \in new : verdict[i] = "approved"}

(* Items of one url are new together; what is inserted was approved, and   *)
(* nothing is before the graph has judged.                                 *)
Judged ==
  /\ \A i \in raw : \A j \in new : UrlOf[i] = UrlOf[j] => i \in new
  /\ at \in {"dedup", "graph"} => inserted = {}
  /\ at \in AtHand => verdict[item] = "approved"
  /\ inserted \subseteq UrlsOf(ApprovedItems)

(* A step that is not one of the run's own leaves what they sum up.        *)
LEMMA JudgedStays ==
  ASSUME Judged, UNCHANGED <<raw, new, verdict, item, inserted>>,
         \/ at' = at
         \/ at \in AtHand /\ at' \in AtHand
         \/ at' \notin AtHand \union {"dedup", "graph"}
  PROVE  Judged'
<1>1. ApprovedItems' = ApprovedItems /\ UrlsOf(ApprovedItems)' = UrlsOf(ApprovedItems)
  BY DEF ApprovedItems, UrlsOf
<1> QED
  BY <1>1 DEF Judged, AtHand

(* A run that is over or lost has nothing to sum up.                       *)
LEMMA NothingJudged == ASSUME Forgotten, at' = "idle" PROVE Judged'
<1>1. raw' = {} /\ new' = {} /\ inserted' = {}
  BY DEF Forgotten
<1> QED
  BY <1>1 DEF Judged, AtHand

LEMMA JudgedInitial == Init => Judged
<1> SUFFICES ASSUME Init PROVE Judged
  OBVIOUS
<1>1. raw = {} /\ new = {} /\ inserted = {} /\ at = "idle"
  BY DEF Init, StoreInit
<1> QED
  BY <1>1 DEF Judged, AtHand

LEMMA JudgedStep == SInv /\ Judged /\ [Next]_vars => Judged'
<1> SUFFICES ASSUME SInv, Judged, [Next]_vars PROVE Judged'
  OBVIOUS
<1>1. StoreStep
  BY NextIsStoreStep
<1>2. CASE UNCHANGED storeVars \/ OtherCommits
  BY <1>2, JudgedStays DEF storeVars, locals, persisting, OtherCommits
<1>3. CASE Collect
  <2>1. new' = {} /\ inserted' = {} /\ at' = "dedup"
    BY <1>3 DEF Collect
  <2> QED
    BY <2>1 DEF Judged, AtHand
<1>4. CASE Dedup
  <2>1. /\ new' = {i \in raw : UrlOf[i] \notin Existing} /\ raw' = raw
        /\ inserted' = {} /\ at' \notin AtHand
    BY <1>4 DEF Dedup, persisting, Judged, AtHand
  <2> QED
    BY <2>1 DEF Judged
<1>5. CASE Graph
  <2>1. inserted' = {} /\ at' = "persist" /\ raw' = raw /\ new' = new
    BY <1>5 DEF Graph, Judged
  <2> QED
    BY <2>1 DEF Judged, AtHand
<1>6. CASE LastInsertRowid \/ DeleteTags \/ OtherInserts \/ \E t \in Tags : InsertTag(t)
  <2>1. UNCHANGED <<raw, new, verdict, item, inserted>> /\ at \in AtHand /\ at' \in AtHand
    BY <1>6 DEF LastInsertRowid, DeleteTags, OtherInserts, InsertTag, locals, persisting, AtHand
  <2> QED
    BY <2>1, JudgedStays
<1>7. CASE RecordEvent \/ EndRun \/ \E i \in Items : PersistNoArticle(i)
  <2>1. /\ UNCHANGED <<raw, new, verdict, inserted>> /\ at' \in {"persist", "idle"}
    BY <1>7 DEF RecordEvent, EndRun, PersistNoArticle, locals, persisting
  <2>2. UrlsOf(ApprovedItems)' = UrlsOf(ApprovedItems)
    BY <2>1 DEF ApprovedItems, UrlsOf
  <2> QED
    BY <2>1, <2>2 DEF Judged, AtHand
<1>8. ASSUME NEW i \in Items, SaveArticle(i) PROVE Judged'
  <2>1. /\ UNCHANGED <<raw, new, verdict, inserted>> /\ at' \in AtHand
        /\ item' = i /\ verdict[i] = "approved"
    BY <1>8 DEF SaveArticle, AtHand
  <2>2. UrlsOf(ApprovedItems)' = UrlsOf(ApprovedItems)
    BY <2>1 DEF ApprovedItems, UrlsOf
  <2> QED
    BY <2>1, <2>2 DEF Judged, AtHand
<1>9. CASE RecordInserted
  <2>1. /\ UNCHANGED <<raw, new, verdict, item>> /\ at = "record" /\ at' = "untag"
        /\ inserted' = inserted \union {UrlOf[item]}
    BY <1>9 DEF RecordInserted
  <2>2. item \in ApprovedItems
    BY <2>1 DEF Judged, SInv, IInv, Typed, HandIsSaved, ApprovedItems, AtHand
  <2>3. UrlsOf(ApprovedItems)' = UrlsOf(ApprovedItems) /\ UrlOf[item] \in UrlsOf(ApprovedItems)
    BY <2>1, <2>2 DEF ApprovedItems, UrlsOf
  <2> QED
    BY <2>1, <2>3 DEF Judged, AtHand
<1>10. CASE StatementRaises \/ RecordRaises
  BY <1>10, NothingJudged DEF StatementRaises, RecordRaises, RunFails
<1>11. CASE Crash
  <2>1. CASE at = "idle"
    BY <1>11, <2>1, JudgedStays DEF Crash, Lost, locals, persisting
  <2>2. CASE at # "idle"
    BY <1>11, <2>2, NothingJudged DEF Crash, Lost
  <2> QED
    BY <2>1, <2>2
<1> QED
  BY <1>1, <1>2, <1>3, <1>4, <1>5, <1>6, <1>7, <1>8, <1>9, <1>10, <1>11 DEF StoreStep

(* Two sets without a common member.                                       *)
LEMMA Disjoint ==
  ASSUME NEW A, NEW B, IsFiniteSet(A), IsFiniteSet(B), A \intersect B = {}
  PROVE  /\ IsFiniteSet(A \union B) /\ Cardinality(A) \in Nat /\ Cardinality(B) \in Nat
         /\ Cardinality(A \union B) = Cardinality(A) + Cardinality(B)
<1>1. /\ IsFiniteSet(A \union B)
      /\ Cardinality(A \union B) = Cardinality(A) + Cardinality(B) - Cardinality(A \intersect B)
  BY FS_Union
<1>2. Cardinality(A) \in Nat /\ Cardinality(B) \in Nat /\ Cardinality(A \intersect B) = 0
  BY FS_CardinalityType, FS_EmptySet
<1>3. \A a, b, c \in Nat : c = 0 => a + b - c = a + b
  OBVIOUS
<1> QED
  BY <1>1, <1>2, <1>3

(* To count a finite set by a key and to add it all up comes to its size,  *)
(* or less if some keys are not of sources.                                *)
LEMMA TotalCounts ==
  ASSUME NEW S, IsFiniteSet(S), NEW key
  PROVE  LET total == Total([s \in Sources |-> Cardinality({i \in S : key[i] = s})])
         IN  /\ total \in Nat /\ Cardinality(S) \in Nat /\ total <= Cardinality(S)
             /\ (\A i \in S : key[i] \in Sources) => total = Cardinality(S)
<1> DEFINE Of(s) == {i \in S : key[i] = s}
           f == [s \in Sources |-> Cardinality(Of(s))]
           numbering == [s \in Sources |-> CHOOSE g : g \in Bijection(1..Cardinality(Of(s)), Of(s))]
           Units == UNION {{s} \X (1..f[s]) : s \in Sources}
           unit == [x \in Units |-> numbering[x[1]][x[2]]]
<1>1. ASSUME NEW s \in Sources
      PROVE  numbering[s] \in Bijection(1..f[s], Of(s))
  <2>1. Of(s) \in SUBSET S
    OBVIOUS
  <2>2. IsFiniteSet(Of(s))
    <3> HIDE DEF Of
    <3> QED
      BY <2>1, FS_Subset
  <2>3. ExistsBijection(1..Cardinality(Of(s)), Of(s))
    <3> HIDE DEF Of
    <3> QED
      BY <2>2, FS_CardinalityType
  <2>4. \E g : g \in Bijection(1..Cardinality(Of(s)), Of(s))
    <3> HIDE DEF Of
    <3> QED
      BY <2>3 DEF ExistsBijection
  <2> HIDE DEF Of
  <2> QED
    BY <2>4
<1>2. ASSUME NEW x \in Units
      PROVE  x[1] \in Sources /\ x[2] \in 1..f[x[1]] /\ x = <<x[1], x[2]>>
  <2> HIDE DEF f
  <2>1. PICK s \in Sources : x \in {s} \X (1..f[s])
    OBVIOUS
  <2>2. x[1] = s /\ x[2] \in 1..f[s] /\ x = <<x[1], x[2]>>
    BY <2>1
  <2> QED
    BY <2>2
<1>3. ASSUME NEW x \in Units
      PROVE  unit[x] \in S /\ key[unit[x]] = x[1]
  <2>1. numbering[x[1]] \in [1..f[x[1]] -> Of(x[1])]
    BY <1>1, <1>2 DEF Bijection, Injection
  <2>2. unit[x] \in Of(x[1])
    <3> HIDE DEF Of, f, numbering, Units
    <3> QED
      BY <1>2, <2>1
  <2> QED
    BY <2>2
<1>4. unit \in Injection(Units, S)
  <2>1. ASSUME NEW x \in Units, NEW y \in Units, unit[x] = unit[y] PROVE x = y
    <3>1. x[1] = y[1]
      <4> HIDE DEF unit, Units
      <4>1. key[unit[x]] = x[1] /\ key[unit[y]] = y[1]
        BY <1>3
      <4> QED
        BY <2>1, <4>1
    <3>2. numbering[x[1]] \in Injection(1..f[x[1]], Of(x[1]))
      BY <1>1, <1>2 DEF Bijection
    <3>3. numbering[x[1]][x[2]] = numbering[x[1]][y[2]]
      <4> HIDE DEF numbering, Units, f
      <4> QED
        BY <2>1, <3>1
    <3>4. x[2] = y[2]
      <4> HIDE DEF numbering, Units, f, Of
      <4> QED
        BY <1>2, <3>1, <3>2, <3>3 DEF Injection, IsInjective
    <3> HIDE DEF Units, f
    <3> QED
      BY <1>2, <3>1, <3>4
  <2>2. unit \in [Units -> S]
    <3> HIDE DEF Units, numbering
    <3>1. \A x \in Units : numbering[x[1]][x[2]] \in S
      BY <1>3
    <3> QED
      BY <3>1
  <2> HIDE DEF unit, Units
  <2> QED
    BY <2>1, <2>2 DEF Injection, IsInjective
<1>5. ASSUME \A i \in S : key[i] \in Sources
      PROVE  unit \in Surjection(Units, S)
  <2>1. ASSUME NEW i \in S PROVE \E x \in Units : unit[x] = i
    <3> DEFINE s == key[i]
    <3>1. s \in Sources /\ i \in Of(s)
      BY <1>5
    <3>2. PICK k \in 1..f[s] : numbering[s][k] = i
      <4>1. numbering[s] \in Surjection(1..f[s], Of(s))
        BY <1>1, <3>1 DEF Bijection
      <4> HIDE DEF numbering, f, Of, s
      <4> QED
        BY <3>1, <4>1 DEF Surjection
    <3>3. <<s, k>> \in Units
      <4> HIDE DEF f, s
      <4> QED
        BY <3>1, <3>2
    <3>4. unit[<<s, k>>] = i
      <4> HIDE DEF f, s, numbering, Units
      <4> QED
        BY <3>2, <3>3
    <3> HIDE DEF unit, Units, s
    <3> QED
      BY <3>3, <3>4
  <2>2. unit \in [Units -> S]
    BY <1>4 DEF Injection
  <2> HIDE DEF unit, Units
  <2> QED
    BY <2>1, <2>2 DEF Surjection
<1>6. /\ IsFiniteSet(Units) /\ Cardinality(Units) <= Cardinality(S)
      /\ Cardinality(Units) = Cardinality(S) <=> unit \in Surjection(Units, S)
  <2> HIDE DEF unit, Units
  <2> QED
    BY <1>4, FS_Injection
<1>7. Cardinality(Units) \in Nat /\ Cardinality(S) \in Nat
  <2> HIDE DEF Units
  <2> QED
    BY <1>6, FS_CardinalityType
<1>8. Total([s \in Sources |-> Cardinality({i \in S : key[i] = s})]) = Cardinality(Units)
  BY DEF Total
<1> HIDE DEF unit, Units
<1> QED
  BY <1>5, <1>6, <1>7, <1>8

(* Items of the run, and what is counted of them.                          *)
LEMMA RunItems ==
  ASSUME SInv
  PROVE  /\ IsFiniteSet(raw) /\ new \subseteq raw /\ Analyzed \subseteq new
         /\ Unanalyzed \subseteq new /\ Analyzed \intersect Unanalyzed = {}
         /\ \A i \in raw : SourceOf[i] \in Sources
<1>1. /\ new \subseteq raw /\ raw \subseteq Items /\ NumItems \in Nat
      /\ \A i \in raw : SourceOf[i] \in Sources
  BY ItemAssumption DEF SInv, IInv, Typed, Sources
<1>2. IsFiniteSet(Items)
  BY <1>1, FS_Interval DEF Items
<1>3. IsFiniteSet(raw)
  BY <1>1, <1>2, FS_Subset
<1>4. Analyzed \intersect Unanalyzed = {}
  BY DEF Unanalyzed, Analyzed, UrlsOf
<1> QED
  BY <1>1, <1>3, <1>4 DEF Analyzed, Unanalyzed

(* What is collected is new or skipped.                                    *)
LEMMA CollectedBalances ==
  ASSUME SInv, Judged, NEW s \in Sources
  PROVE  Summary(s).collected = Summary(s).new + Summary(s).skipped
<1> DEFINE Skipped == {i \in raw : UrlOf[i] \notin UrlsOf(new)}
           N == {i \in new : SourceOf[i] = s}  K == {i \in Skipped : SourceOf[i] = s}
           C == {i \in raw : SourceOf[i] = s}
<1>1. C = N \union K /\ N \intersect K = {}
  <2>1. raw = new \union Skipped /\ new \intersect Skipped = {}
    BY RunItems DEF Judged, UrlsOf
  <2> QED
    BY <2>1
<1>2. IsFiniteSet(N) /\ IsFiniteSet(K)
  <2>1. N \in SUBSET raw /\ K \in SUBSET raw
    BY RunItems
  <2> HIDE DEF N, K
  <2> QED
    BY <2>1, RunItems, FS_Subset
<1>3. Cardinality(C) = Cardinality(N) + Cardinality(K)
  <2> HIDE DEF N, K, C
  <2> QED
    BY <1>1, <1>2, Disjoint
<1> QED
  BY <1>3 DEF Summary, CountItems

(* What is inserted was approved, what is approved was analyzed.           *)
LEMMA ApprovedBalances ==
  ASSUME SInv, Judged, NEW s \in Sources
  PROVE  /\ Summary(s).inserted <= Summary(s).approved
         /\ Summary(s).approved <= Summary(s).analyzed
<1> DEFINE source(u) == SourceOf[LastOf(raw, u)]
           I == {u \in inserted : source(u) = s}
           P == {i \in ApprovedItems : source(UrlOf[i]) = s}
           A == {i \in Analyzed : source(UrlOf[i]) = s}
           entry == [u \in I |-> CHOOSE i \in P : UrlOf[i] = u]
<1>1. IsFiniteSet(A) /\ P \in SUBSET A
  <2>1. A \in SUBSET raw /\ P \in SUBSET A
    BY RunItems DEF ApprovedItems, Analyzed
  <2> HIDE DEF A, P
  <2> QED
    BY <2>1, RunItems, FS_Subset
<1>2. \A u \in I : \E i \in P : UrlOf[i] = u
  BY DEF Judged, UrlsOf
<1>3. entry \in Injection(I, P)
  <2>1. \A u \in I : entry[u] \in P /\ UrlOf[entry[u]] = u
    <3> HIDE DEF I, P
    <3> QED
      BY <1>2
  <2>2. entry \in [I -> P]
    <3> HIDE DEF I, P
    <3> QED
      BY <2>1
  <2> HIDE DEF entry, I, P
  <2> QED
    BY <2>1, <2>2 DEF Injection, IsInjective
<1>4. IsFiniteSet(P) /\ Cardinality(P) <= Cardinality(A)
  <2> HIDE DEF A, P
  <2> QED
    BY <1>1, FS_Subset
<1>5. Cardinality(I) <= Cardinality(P)
  <2> HIDE DEF entry, I, P
  <2> QED
    BY <1>3, <1>4, FS_Injection
<1> QED
  BY <1>4, <1>5 DEF Summary, CountMapped, ApprovedItems

(* Over all sources no more is analyzed or failed than was new.            *)
Counted == Analyzed \union Unanalyzed
CountedFor == [i \in Counted |->
                IF i \in Analyzed THEN SourceOf[LastOf(raw, UrlOf[i])] ELSE SourceOf[i]]

LEMMA JudgedOfSource ==
  ASSUME SInv, NEW s \in Sources
  PROVE  Summary(s).analyzed + Summary(s).failed = Cardinality({i \in Counted : CountedFor[i] = s})
<1> DEFINE A == {i \in Analyzed : SourceOf[LastOf(raw, UrlOf[i])] = s}
           F == {i \in Unanalyzed : SourceOf[i] = s}
           C == {i \in Counted : CountedFor[i] = s}
<1>1. C = A \union F /\ A \intersect F = {}
  <2>1. Analyzed \intersect Unanalyzed = {}
    BY RunItems
  <2>2. \A i \in Analyzed : CountedFor[i] = SourceOf[LastOf(raw, UrlOf[i])]
    BY DEF Counted, CountedFor
  <2>3. \A i \in Unanalyzed : CountedFor[i] = SourceOf[i]
    BY <2>1 DEF Counted, CountedFor
  <2> QED
    BY <2>1, <2>2, <2>3 DEF Counted
<1>2. IsFiniteSet(A) /\ IsFiniteSet(F)
  <2>1. A \in SUBSET raw /\ F \in SUBSET raw
    BY RunItems
  <2> HIDE DEF A, F
  <2> QED
    BY <2>1, RunItems, FS_Subset
<1>3. Cardinality(C) = Cardinality(A) + Cardinality(F)
  <2> HIDE DEF A, F, C
  <2> QED
    BY <1>1, <1>2, Disjoint
<1> QED
  BY <1>3 DEF Summary, CountItems, CountMapped

LEMMA TotalsBalance ==
  ASSUME SInv
  PROVE  Total([s \in Sources |-> Summary(s).analyzed + Summary(s).failed])
           <= Total([s \in Sources |-> Summary(s).new])
<1> DEFINE judged == Total([s \in Sources |-> Summary(s).analyzed + Summary(s).failed])
           fresh == Total([s \in Sources |-> Summary(s).new])
           n == Cardinality(new)  c == Cardinality(Counted)
<1>1. IsFiniteSet(new) /\ IsFiniteSet(Counted) /\ c <= n
  <2>1. new \in SUBSET raw /\ Counted \in SUBSET new /\ IsFiniteSet(raw)
    BY RunItems DEF Counted
  <2>2. IsFiniteSet(new)
    BY <2>1, FS_Subset
  <2> QED
    BY <2>1, <2>2, FS_Subset
<1>2. judged <= c /\ judged \in Nat /\ c \in Nat
  <2>1. [s \in Sources |-> Summary(s).analyzed + Summary(s).failed]
          = [s \in Sources |-> Cardinality({i \in Counted : CountedFor[i] = s})]
    BY JudgedOfSource
  <2> QED
    BY <1>1, <2>1, TotalCounts
<1>3. fresh = n /\ n \in Nat
  <2>1. [s \in Sources |-> Summary(s).new]
          = [s \in Sources |-> Cardinality({i \in new : SourceOf[i] = s})]
    BY DEF Summary, CountItems
  <2>2. \A i \in new : SourceOf[i] \in Sources
    BY RunItems
  <2> QED
    BY <1>1, <2>1, <2>2, TotalCounts
<1> HIDE DEF judged, fresh, n, c
<1>4. judged <= fresh
  BY <1>1, <1>2, <1>3
<1> QED
  BY <1>4 DEF judged, fresh

(* Unless items share a url, each source's are its own.                    *)
LEMMA SourcesBalance ==
  ASSUME SInv, Cardinality(UrlsOf(raw)) = Cardinality(raw)
  PROVE  \A s \in Sources : Summary(s).analyzed + Summary(s).failed = Summary(s).new
<1> DEFINE url == [i \in raw |-> UrlOf[i]]
<1>1. url \in Surjection(raw, UrlsOf(raw))
  BY DEF Surjection, UrlsOf
<1>2. url \in Injection(raw, UrlsOf(raw))
  <2> HIDE DEF url
  <2> QED
    BY <1>1, RunItems, FS_Surjection
<1>3. \A i, j \in raw : UrlOf[i] = UrlOf[j] => i = j
  BY <1>2 DEF Injection, IsInjective
<1>4. ASSUME NEW i \in raw PROVE LastOf(raw, UrlOf[i]) = i
  <2>1. {j \in raw : UrlOf[j] = UrlOf[i]} = {i}
    BY <1>3
  <2>2. i \in Nat
    BY ItemAssumption DEF SInv, IInv, Typed, Items
  <2>3. Max({i}) = i
    BY <2>2 DEF Max
  <2> QED
    BY <2>1, <2>3 DEF LastOf
<1>5. Counted = new
  <2>1. ASSUME NEW i \in new, i \notin Analyzed PROVE i \in Unanalyzed
    BY <1>3, <2>1, RunItems DEF Unanalyzed, UrlsOf
  <2> QED
    BY <2>1, RunItems DEF Counted
<1>6. \A i \in new : CountedFor[i] = SourceOf[i]
  BY <1>4, <1>5, RunItems DEF CountedFor
<1> TAKE s \in Sources
<1>7. {i \in Counted : CountedFor[i] = s} = {i \in new : SourceOf[i] = s}
  BY <1>5, <1>6
<1>8. Summary(s).new = Cardinality({i \in new : SourceOf[i] = s})
  BY DEF Summary, CountItems
<1> QED
  BY <1>7, <1>8, JudgedOfSource

(* build_pipeline_source_summaries (src/services/pipeline_helpers.py): the *)
(* counts from which governance scores a source add up for any items of    *)
(* any sources, whatever the run skipped, analyzed, judged and inserted.   *)
THEOREM SummaryAlwaysBalances == Spec => []SummaryBalances
<1>1. SInv /\ Judged => SummaryBalances
  <2> SUFFICES ASSUME SInv, Judged PROVE SummaryBalances
    OBVIOUS
  <2>1. Cardinality(UrlsOf(raw)) = Cardinality(raw) =>
          [s \in Sources |-> Summary(s).analyzed + Summary(s).failed]
            = [s \in Sources |-> Summary(s).new]
    BY SourcesBalance
  <2> QED
    BY <2>1, CollectedBalances, ApprovedBalances, TotalsBalance DEF SummaryBalances
<1> QED
  BY <1>1, JudgedInitial, JudgedStep, StoreInvariance, PTL DEF Spec

=============================================================================
