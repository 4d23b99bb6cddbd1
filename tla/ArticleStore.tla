---------------------------- MODULE ArticleStore ----------------------------
(***************************************************************************)
(* What the pipeline writes about the items of a run: the rows of          *)
(* collection_items, the articles with their tags, and the summary of      *)
(* every source (src/main.py, src/db/articles.py, src/db/pipeline_ops.py). *)
(*                                                                         *)
(* All coroutines of the process share one connection and so one           *)
(* transaction: view is what the connection reads, disk what is committed. *)
(* A statement and the commit that follows it in the same function are one *)
(* step when nothing reads in between; save_tags has no commit of its own, *)
(* and last_insert_rowid is a statement of its own.                        *)
(***************************************************************************)
EXTENDS Migrations, FiniteSets

CONSTANTS
  NumItems,     \* what the sources may deliver, in the order of raw_items
  UrlOf,        \* UrlOf[i], its url; two items may have one url
  SourceOf,     \* SourceOf[i], its source
  TagsOf,       \* TagsOf[u], the normalised tags of the article at u
  OtherRowids,  \* rowids that inserts of other coroutines leave behind
  MaxRuns,
  MaxFaults     \* of statements that raise and inserts of others, together

Items == 1..NumItems
Urls == {UrlOf[i] : i \in Items}
Sources == {SourceOf[i] : i \in Items}
Tags == UNION {TagsOf[u] : u \in Urls}
Ids == 1..Cardinality(Urls)

ASSUME ItemAssumption ==
  /\ NumItems \in Nat
  /\ DOMAIN UrlOf = Items /\ DOMAIN SourceOf = Items /\ DOMAIN TagsOf = Urls
ASSUME BoundAssumption ==
  OtherRowids \subseteq Nat /\ {MaxRuns, MaxFaults} \subseteq Nat

VARIABLES
  view,       \* the database as the connection sees it
  disk,       \* the database as committed
  lastRowid,  \* last_insert_rowid of the connection
  at,         \* what the run does next
  trial,      \* trial_source_ids
  raw,        \* raw_items, without what the velocity filter drops
  new,        \* new_items
  verdict,    \* what the graph makes of them
  left,       \* items whose reviewed entry is not persisted yet
  item,       \* the item of the entry at hand, 0 if none
  articleId,  \* what save_article has returned for it
  tagsLeft,   \* tags save_tags still has to insert
  inserted,   \* inserted_urls
  runs,
  outcome,    \* status of the last run
  approvals,  \* history: in how many runs an article of a url was approved
  errors, others

store == <<view, disk, lastRowid>>
persisting == <<left, item, articleId, tagsLeft, inserted>>
locals == <<trial, raw, new, verdict, persisting>>
history == <<runs, outcome, approvals, errors, others>>
storeVars == <<store, at, locals, history>>

RowStatuses == {"none", "collected", "dedup_skipped", "inserted", "trial_approved",
                "reviewed_discarded", "analysis_failed"}
Tables == [ id   : [Urls -> 0..Cardinality(Urls)],   \* articles.id, 0 without a row
            tags : [Ids -> SUBSET Tags],             \* article_tags
            row  : [Urls -> RowStatuses] ]           \* collection_items of the last run
Points == {"idle", "dedup", "graph", "persist", "rowid", "record", "untag", "tag"}

StoreTypeOK ==
  /\ view \in Tables /\ disk \in Tables
  /\ lastRowid \in Ids \union OtherRowids \union {0}
  /\ at \in Points
  /\ trial \subseteq Sources
  /\ new \subseteq raw /\ raw \subseteq Items /\ left \subseteq new
  /\ verdict \in [Items -> {"none", "failed", "merged", "approved", "discarded"}]
  /\ item \in new \union {0}
  /\ articleId \in Ids \union OtherRowids \union {0}
  /\ tagsLeft \subseteq Tags
  /\ inserted \subseteq Urls
  /\ outcome \in {"none", "running", "completed", "failed"}
  /\ approvals \in [Urls -> 0..MaxRuns]
  /\ runs \in 0..MaxRuns /\ errors + others \in 0..MaxFaults

-----------------------------------------------------------------------------
UrlsOf(S) == {UrlOf[i] : i \in S}

\* raw and analyzed of an entry: the first item with its url.
First(S, u) == Min({i \in S : UrlOf[i] = u})

\* source_identity of url_to_source: the last item with the url counts.
LastOf(S, u) == Max({i \in S : UrlOf[i] = u})

Analyzed == {i \in new : verdict[i] \in {"merged", "approved", "discarded"}}

(* A statement that is committed at once, and with it what was open.       *)
Commit(tables) == view' = tables /\ disk' = tables

\* record_collection_item for every url in U.
Recorded(tables, U, status) ==
  [tables EXCEPT !.row = [u \in Urls |-> IF u \in U THEN status ELSE @[u]]]

StoreInit ==
  /\ view = [id |-> [u \in Urls |-> 0], tags |-> [a \in Ids |-> {}],
             row |-> [u \in Urls |-> "none"]]
  /\ disk = view /\ lastRowid = 0
  /\ at = "idle" /\ trial = {} /\ raw = {} /\ new = {}
  /\ verdict = [i \in Items |-> "none"]
  /\ left = {} /\ item = 0 /\ articleId = 0 /\ tagsLeft = {} /\ inserted = {}
  /\ runs = 0 /\ outcome = "none"
  /\ approvals = [u \in Urls |-> 0]
  /\ errors = 0 /\ others = 0

(* A run collects some items, records them, and drops some of them for     *)
(* their velocity.                                                         *)
Collect ==
  /\ at = "idle" /\ runs < MaxRuns
  /\ runs' = runs + 1
  /\ trial' \in SUBSET Sources
  /\ \E collected \in SUBSET Items :
       /\ Commit([view EXCEPT !.row = [u \in Urls |-> IF u \in UrlsOf(collected)
                                                       THEN "collected" ELSE "none"]])
       /\ raw' \in SUBSET collected
  /\ new' = {} /\ verdict' = [i \in Items |-> "none"]
  /\ left' = {} /\ item' = 0 /\ articleId' = 0 /\ tagsLeft' = {} /\ inserted' = {}
  /\ at' = "dedup" /\ outcome' = "running"
  /\ UNCHANGED <<lastRowid, approvals, errors, others>>

\* Mutant of Existing: an article is known by the rows of the run only.
ExistingInRun == {u \in Urls : view.row[u] = "inserted"}

\* batch_check_existing_urls
Existing == {u \in Urls : view.id[u] # 0}

(* What is in the database already is skipped.  A run without anything new *)
(* ends here: failed if nothing was collected and a source had failed.     *)
Dedup ==
  /\ at = "dedup"
  /\ new' = {i \in raw : UrlOf[i] \notin Existing}
  /\ Commit(Recorded(view, UrlsOf(raw \ new'), "dedup_skipped"))
  /\ IF new' # {} THEN at' = "graph" /\ UNCHANGED outcome
     ELSE at' = "idle" /\ outcome' \in {"completed"} \union (IF raw = {} THEN {"failed"} ELSE {})
  /\ UNCHANGED <<lastRowid, trial, raw, verdict, persisting, runs, approvals, errors, others>>

(* The graph and the retry rounds leave every new item analyzed and        *)
(* judged, or not; once a url was judged again it has one entry, whatever  *)
(* the number of its items (merge_retry_review_result).                    *)
Graph ==
  /\ at = "graph"
  /\ verdict' \in [Items -> {"none", "failed", "merged", "approved", "discarded"}]
  /\ \A i \in Items : verdict'[i] = "none" <=> i \notin new
  /\ left' = {i \in new : verdict'[i] \in {"approved", "discarded"}}
  /\ \A i \in new : verdict'[i] = "merged" =>
       Cardinality({j \in left' : UrlOf[j] = UrlOf[i]}) = 1
  /\ approvals' = [u \in Urls |->
       IF \E i \in new : /\ UrlOf[i] = u /\ verdict'[i] = "approved"
                         /\ SourceOf[First(new, u)] \notin trial
         THEN approvals[u] + 1 ELSE approvals[u]]
  /\ at' = "persist"
  /\ UNCHANGED <<store, trial, raw, new, item, articleId, tagsLeft, inserted,
                 runs, outcome, errors, others>>

-----------------------------------------------------------------------------
\* An entry that is discarded, or approved for a source on trial.
PersistNoArticle(i) ==
  LET u == UrlOf[i]
      onTrial == SourceOf[First(new, u)] \in trial
  IN  /\ at = "persist" /\ i \in left
      /\ verdict[i] = "discarded" \/ onTrial
      /\ Commit(Recorded(view, {u},
           IF verdict[i] = "discarded" THEN "reviewed_discarded" ELSE "trial_approved"))
      /\ left' = left \ {i}
      /\ UNCHANGED <<lastRowid, at, trial, raw, new, verdict, item, articleId, tagsLeft,
                     inserted, history>>

\* AUTOINCREMENT, and no article is ever deleted.
NewId == 1 + Cardinality({u \in Urls : view.id[u] # 0})

(* save_article: an article that exists (another item of the url is in     *)
(* this run) is updated and its id known, one that does not is inserted.   *)
SaveArticle(i) ==
  LET u == UrlOf[i]
  IN  /\ at = "persist" /\ i \in left
      /\ verdict[i] = "approved" /\ SourceOf[First(new, u)] \notin trial
      /\ item' = i
      /\ IF view.id[u] # 0
           THEN /\ disk' = view /\ articleId' = view.id[u] /\ at' = "record"
                /\ UNCHANGED <<view, lastRowid>>
           ELSE /\ Commit([view EXCEPT !.id[u] = NewId])
                /\ lastRowid' = NewId /\ at' = "rowid"
                /\ UNCHANGED articleId
      /\ UNCHANGED <<trial, raw, new, verdict, left, tagsLeft, inserted, history>>

\* SELECT last_insert_rowid()
LastInsertRowid ==
  /\ at = "rowid"
  /\ articleId' = lastRowid /\ at' = "record"
  /\ UNCHANGED <<store, trial, raw, new, verdict, left, item, tagsLeft, inserted, history>>

\* The collected item gets the article's id, which must exist.
RecordInserted ==
  /\ at = "record" /\ \E u \in Urls : view.id[u] = articleId
  /\ inserted' = inserted \union {UrlOf[item]}
  /\ Commit(Recorded(view, {UrlOf[item]}, "inserted"))
  /\ at' = "untag"
  /\ UNCHANGED <<lastRowid, trial, raw, new, verdict, left, item, articleId, tagsLeft, history>>

\* save_tags: the old tags are deleted, the new ones inserted one by one.
DeleteTags ==
  /\ at = "untag"
  /\ view' = [view EXCEPT !.tags[articleId] = {}]
  /\ tagsLeft' = TagsOf[UrlOf[item]] /\ at' = "tag"
  /\ UNCHANGED <<disk, lastRowid, trial, raw, new, verdict, left, item, articleId,
                 inserted, history>>

InsertTag(t) ==
  /\ at = "tag" /\ t \in tagsLeft
  /\ view' = [view EXCEPT !.tags[articleId] = @ \union {t}]
  /\ tagsLeft' = tagsLeft \ {t}
  /\ UNCHANGED <<disk, lastRowid, at, trial, raw, new, verdict, left, item, articleId,
                 inserted, history>>

\* Mutant of RecordEvent: its commit comes before the last tag.
RecordEventEarly ==
  /\ at = "tag" /\ Cardinality(tagsLeft) <= 1
  /\ disk' = view /\ tagsLeft' = {}
  /\ left' = left \ {item} /\ item' = 0 /\ articleId' = 0 /\ at' = "persist"
  /\ UNCHANGED <<view, lastRowid, trial, raw, new, verdict, inserted, history>>

\* record_pipeline_event, whose commit is that of the tags too.
RecordEvent ==
  /\ at = "tag" /\ tagsLeft = {}
  /\ disk' = view
  /\ left' = left \ {item} /\ item' = 0 /\ articleId' = 0 /\ at' = "persist"
  /\ UNCHANGED <<view, lastRowid, trial, raw, new, verdict, tagsLeft, inserted, history>>

\* Mutant of Unanalyzed: nothing is recorded for what no analyzer returns.
UnanalyzedNone == {}

\* New items no analyzed item stands for.
Unanalyzed == {i \in new : UrlOf[i] \notin UrlsOf(Analyzed)}

(* The rest of the persist phase, summaries and rollup, and the run's end. *)
EndRun ==
  /\ at = "persist" /\ left = {}
  /\ Commit(Recorded(view, UrlsOf(Unanalyzed), "analysis_failed"))
  /\ at' = "idle"
  /\ outcome' = IF Analyzed = {} THEN "failed" ELSE "completed"
  /\ UNCHANGED <<lastRowid, locals, runs, approvals, errors, others>>

-----------------------------------------------------------------------------
Forgotten ==
  /\ trial' = {} /\ raw' = {} /\ new' = {} /\ verdict' = [i \in Items |-> "none"]
  /\ left' = {} /\ item' = 0 /\ articleId' = 0 /\ tagsLeft' = {} /\ inserted' = {}

RunFails == at' = "idle" /\ outcome' = "failed" /\ Forgotten

(* A statement raises: the except clause records the failure, which        *)
(* commits what was open, unless it raises as well.                        *)
StatementRaises ==
  /\ at # "idle" /\ errors + others < MaxFaults
  /\ errors' = errors + 1
  /\ disk' \in {view, disk}
  /\ RunFails
  /\ UNCHANGED <<view, lastRowid, runs, approvals, others>>

\* FOREIGN KEY constraint failed: no article has the id.
RecordRaises ==
  /\ at = "record" /\ \A u \in Urls : view.id[u] # articleId
  /\ disk' = view
  /\ RunFails
  /\ UNCHANGED <<view, lastRowid, runs, approvals, errors, others>>

(* Another coroutine of the process (a build's status, a circuit's event,  *)
(* a request) inserts a row and commits.                                   *)
OtherInserts ==
  /\ at = "rowid" /\ errors + others < MaxFaults
  /\ others' = others + 1
  /\ lastRowid' \in OtherRowids
  /\ disk' = view
  /\ UNCHANGED <<view, at, locals, runs, outcome, approvals, errors>>

OtherCommits ==
  /\ view # disk
  /\ disk' = view
  /\ UNCHANGED <<view, lastRowid, at, locals, history>>

(* The process dies: the connection and its transaction are gone, and a    *)
(* run that was under way keeps the status "running".                      *)
Lost ==
  /\ view' = disk /\ lastRowid' = 0
  /\ IF at = "idle" THEN UNCHANGED <<at, outcome, locals>>
     ELSE at' = "idle" /\ Forgotten /\ UNCHANGED outcome
  /\ UNCHANGED <<disk, runs, approvals, errors, others>>

-----------------------------------------------------------------------------
CountItems(S, s) == Cardinality({i \in S : SourceOf[i] = s})
CountMapped(S, s) == Cardinality({i \in S : SourceOf[LastOf(raw, UrlOf[i])] = s})

\* Mutant of Summary: skipped items are those that are not new themselves.
SummaryOfRow(s) ==
  [ collected |-> CountItems(raw, s), new |-> CountItems(new, s),
    skipped |-> CountItems({i \in raw : UrlOf[i] \notin UrlsOf(new)}, s),
    analyzed |-> CountMapped(Analyzed, s), failed |-> CountItems(Unanalyzed, s),
    approved |-> CountMapped({i \in new : verdict[i] = "approved"}, s),
    inserted |-> CountItems({i \in raw : UrlOf[i] \in inserted}, s) ]

(* build_pipeline_source_summaries: what a run says of a source.           *)
Summary(s) ==
  [ collected |-> CountItems(raw, s), new |-> CountItems(new, s),
    skipped |-> CountItems({i \in raw : UrlOf[i] \notin UrlsOf(new)}, s),
    analyzed |-> CountMapped(Analyzed, s), failed |-> CountItems(Unanalyzed, s),
    approved |-> CountMapped({i \in new : verdict[i] = "approved"}, s),
    inserted |-> Cardinality({u \in inserted : SourceOf[LastOf(raw, u)] = s}) ]

-----------------------------------------------------------------------------
Completed == at = "idle" /\ outcome = "completed"

(* An article loses its tags, or carries another's, only by a crash or a   *)
(* failing statement, one article each, or by a confused rowid, two each:  *)
(* otherwise whatever is committed and not at hand has all its own tags.   *)
(* (What is lost stays lost: the article exists, so it is always skipped.) *)
TagDamageIsBounded ==
  LET atHand == IF item = 0 THEN {} ELSE {UrlOf[item]}
      wrong == {u \in Urls : disk.id[u] # 0 /\ disk.tags[disk.id[u]] # TagsOf[u]}
  IN  Cardinality(wrong \ atHand) <= crashes + errors + 2 * others

(* An article is approved in one run only, plus one more for every run that*)
(* was cut short before it could save it: otherwise the next run finds it  *)
(* and skips it.  (Two items of one url are both analyzed within a run.)   *)
ApprovedInOneRun == \A u \in Urls : approvals[u] <= 1 + crashes + errors + others

(* When a run completes every item it has kept has a row that says what    *)
(* became of it, although rows are keyed by url and verdicts by item.      *)
EveryItemHasLastWord ==
  Completed => \A i \in raw : disk.row[UrlOf[i]] \notin {"none", "collected"}

\* The sum of the f[s] of all sources.
Total(f) == Cardinality(UNION {{s} \X (1..f[s]) : s \in Sources})

(* A source's summary, from which governance scores it, adds up: what was  *)
(* collected is new or skipped, and no more is inserted than approved or   *)
(* approved than analyzed; over all sources no more is analyzed or failed  *)
(* than was new, and for each source unless items share a url.             *)
SummaryBalances ==
  Completed =>
    LET judged == [s \in Sources |-> Summary(s).analyzed + Summary(s).failed]
        fresh == [s \in Sources |-> Summary(s).new]
    IN  /\ \A s \in Sources :
             /\ Summary(s).collected = Summary(s).new + Summary(s).skipped
             /\ Summary(s).inserted <= Summary(s).approved
             /\ Summary(s).approved <= Summary(s).analyzed
        /\ Total(judged) <= Total(fresh)
        /\ Cardinality(UrlsOf(raw)) = Cardinality(raw) => judged = fresh

-----------------------------------------------------------------------------
(* The docstring of save_article: it returns the id of the article, just   *)
(* inserted or known before.                                               *)
SaveReturnsOwnId ==
  at \in {"record", "untag", "tag"} => articleId = view.id[UrlOf[item]]
=============================================================================
