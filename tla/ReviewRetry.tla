---------------------------- MODULE ReviewRetry ----------------------------
(***************************************************************************)
(* The review of a run's analyzed items: the reviewer node of the graph,   *)
(* up to two more rounds for the items whose verdict is retry (src/main.py *)
(* with prepare_retry_review_items and merge_retry_review_result), and     *)
(* what the persist phase makes of the verdicts.                           *)
(*                                                                         *)
(* Verdicts are matched to items by url alone.  Nothing removes the items  *)
(* that two sources collect in the same run, so a url may occur twice.     *)
(* Lists are sets here, of slots <<i, k>>: item i, listed for the k-th     *)
(* time, and of the entries that answer them.  Their order matters among   *)
(* the entries of one url only, and is that of the slots.                  *)
(***************************************************************************)
EXTENDS Naturals, FiniteSets

CONSTANTS
  UrlOf,          \* UrlOf[i]: the url of the i-th analyzed item
  TrialUrls,      \* urls whose (first) item comes from a source on trial
  RegistryMayFail \* whether the registry may have no client for the reviewer

Items == DOMAIN UrlOf
Urls == {UrlOf[i] : i \in Items}
MAX_RETRIES == 2
Slots == Items \X (1..MAX_RETRIES)
Verdicts == {"approved", "retry", "discarded"}

ASSUME ItemsAssumption ==
  /\ IsFiniteSet(Items) /\ Items = 1..Cardinality(Items)
  /\ TrialUrls \subseteq Urls
  /\ RegistryMayFail \in BOOLEAN

VARIABLES
  at,          \* "review", "merge", "persist", "done" or "failed"
  round,       \* 0 in the graph, then the retry rounds
  retryCount,  \* retryCount[i]: retry_count of item i
  batch,       \* the slots of this round
  answers,     \* the reviewer's entries for the batch
  reviewed,    \* all_reviewed
  articles,    \* articles.status by url
  itemRow,     \* collection_items.status by url
  calls        \* history: how often the model has reviewed the url

vars == <<at, round, retryCount, batch, answers, reviewed, articles, itemRow, calls>>

Entry == [item : Items, time : 1..MAX_RETRIES, verdict : Verdicts, exhausted : BOOLEAN]

TypeOK ==
  /\ at \in {"review", "merge", "persist", "done", "failed"}
  /\ round \in 0..MAX_RETRIES
  /\ retryCount \in [Items -> 0..MAX_RETRIES]
  /\ batch \subseteq Slots
  /\ answers \subseteq Entry /\ reviewed \subseteq Entry
  /\ articles \in [Urls -> {"none", "approved", "retry"}]
  /\ itemRow \in [Urls -> {"collected", "inserted", "trial_approved", "trial_retry",
                           "reviewed_retry", "reviewed_discarded"}]
  /\ calls \in [Urls -> Nat]

-----------------------------------------------------------------------------
Init ==
  /\ at = "review" /\ round = 0
  /\ retryCount = [i \in Items |-> 0]
  /\ batch = {<<i, 1>> : i \in Items}
  /\ answers = {} /\ reviewed = {}
  /\ articles = [u \in Urls |-> "none"]
  /\ itemRow = [u \in Urls |-> "collected"]
  /\ calls = [u \in Urls |-> 0]

\* Mutant of Exhausted: the limit compared with ">".
ExhaustedLate(i) == retryCount[i] > MAX_RETRIES

Exhausted(i) == retryCount[i] >= MAX_RETRIES

(* reviewer_node: an item that has used up its retries is discarded        *)
(* without a call; any other gets the model's verdict, or is discarded     *)
(* when two answers in a row are missing or cannot be parsed.              *)
Review ==
  /\ at = "review"
  /\ \E verdict \in [batch -> Verdicts] :
       /\ \A slot \in batch : Exhausted(slot[1]) => verdict[slot] = "discarded"
       /\ answers' = {[item |-> slot[1], time |-> slot[2], verdict |-> verdict[slot],
                       exhausted |-> Exhausted(slot[1])] : slot \in batch}
  /\ calls' = [u \in Urls |->
                 calls[u] + Cardinality({slot \in batch :
                              UrlOf[slot[1]] = u /\ ~ Exhausted(slot[1])})]
  /\ at' = "merge"
  /\ UNCHANGED <<round, retryCount, batch, reviewed, articles, itemRow>>

(* get_client raises for the node or for one of its items: so does the     *)
(* gather, and the run fails with nothing saved.                           *)
ReviewFails ==
  /\ RegistryMayFail
  /\ at = "review"
  /\ at' = "failed"
  /\ UNCHANGED <<round, retryCount, batch, answers, reviewed, articles, itemRow, calls>>

-----------------------------------------------------------------------------
Of(entries, url) == {e \in entries : UrlOf[e.item] = url}

After(e, f) == e.item > f.item \/ (e.item = f.item /\ e.time > f.time)

\* The last of the entries of each url.
Latest(entries) == {e \in entries : \A f \in Of(entries, UrlOf[e.item]) : ~ After(f, e)}

\* Mutant of Merged: an entry whose url is known is not appended.
MergedOnce(entries, new) ==
  {e \in entries : Of(new, UrlOf[e.item]) = {}}
    \union {e \in Latest(new) : Of(entries, UrlOf[e.item]) = {}}

\* merge_retry_review_result: an entry takes the place of all with its url.
Merged(entries, new) == {e \in entries : Of(new, UrlOf[e.item]) = {}} \union Latest(new)

\* The first analyzed item of a url.
Matched(url) == CHOOSE i \in Items :
  UrlOf[i] = url /\ \A j \in Items : UrlOf[j] = url => i <= j

(* prepare_retry_review_items: every entry that says retry counts for the  *)
(* first item of its url, until that has used up its retries ...           *)
Counted(entries, i) ==
  LET asked == Cardinality({e \in Of(entries, UrlOf[i]) : e.verdict = "retry"})
  IN  IF i # Matched(UrlOf[i]) THEN retryCount[i]
      ELSE IF retryCount[i] + asked <= 2 THEN retryCount[i] + asked ELSE 2

\* ... and as often as it counts the item is reviewed again.
Prepared(entries) == {slot \in Slots : retryCount[slot[1]] + slot[2] <= Counted(entries, slot[1])}

RoundLeft == round < 2

(* The round's entries join the others; the loop goes on while there is    *)
(* something to review again, for two rounds at most.                      *)
Merge ==
  /\ at = "merge"
  /\ LET all == IF round = 0 THEN answers ELSE Merged(reviewed, answers)
     IN  /\ reviewed' = all
         /\ IF RoundLeft /\ Prepared(all) # {}
              THEN /\ at' = "review" /\ round' = round + 1
                   /\ retryCount' = [i \in Items |-> Counted(all, i)]
                   /\ batch' = Prepared(all)
              ELSE at' = "persist" /\ UNCHANGED <<round, retryCount, batch>>
  /\ answers' = {}
  /\ UNCHANGED <<articles, itemRow, calls>>

-----------------------------------------------------------------------------
\* Mutant of Outcome: the article gets the status of the collected item.
OutcomeAsRow(e) ==
  CASE e.verdict = "approved" -> [article |-> "inserted", item |-> "inserted"]
    [] e.verdict = "retry" -> [article |-> "reviewed_retry", item |-> "reviewed_retry"]
    [] OTHER -> [article |-> articles[UrlOf[e.item]], item |-> "reviewed_discarded"]

(* What the persist phase makes of an entry: the article's row and the     *)
(* collected item's.  An entry that still says retry is kept for later,    *)
(* unless its item has used up its retries, which leaves both rows alone.  *)
Outcome(e) ==
  LET url == UrlOf[e.item]
      onTrial == url \in TrialUrls
      kept(article, item) == [article |-> IF onTrial THEN articles[url] ELSE article,
                              item |-> item]
  IN  CASE e.verdict = "approved" ->
             kept("approved", IF onTrial THEN "trial_approved" ELSE "inserted")
        [] e.verdict = "retry" /\ retryCount[Matched(url)] < 2 ->
             kept("retry", IF onTrial THEN "trial_retry" ELSE "reviewed_retry")
        [] e.verdict = "discarded" -> kept(articles[url], "reviewed_discarded")
        [] OTHER -> [article |-> articles[url], item |-> itemRow[url]]

(* The persist phase goes through the entries one by one.                  *)
Persist ==
  /\ at = "persist"
  /\ \E e \in reviewed :
       LET url == UrlOf[e.item]
       IN  /\ \A f \in Of(reviewed, url) : ~ After(e, f)
           /\ articles' = [articles EXCEPT ![url] = Outcome(e).article]
           /\ itemRow' = [itemRow EXCEPT ![url] = Outcome(e).item]
           /\ reviewed' = reviewed \ {e}
  /\ UNCHANGED <<at, round, retryCount, batch, answers, calls>>

PersistDone ==
  /\ at = "persist" /\ reviewed = {}
  /\ at' = "done"
  /\ UNCHANGED <<round, retryCount, batch, answers, reviewed, articles, itemRow, calls>>

Idle == at \in {"done", "failed"} /\ UNCHANGED vars

Next ==
  \/ Review \/ ReviewFails \/ Merge
  \/ Persist \/ PersistDone
  \/ Idle

Spec == Init /\ [][Next]_vars

-----------------------------------------------------------------------------
Final == at \in {"persist", "done"}

(* Merging the rounds loses no item and leaves none waiting for another    *)
(* review: when persisting begins every url has an entry, in the end every *)
(* url's row says what became of it, and the branch of the persist phase   *)
(* that keeps an article for a retry is never reached.                     *)
EveryItemJudged ==
  Final =>
    /\ \A u \in Urls : itemRow[u] # "collected" \/ Of(reviewed, u) # {}
    /\ \A e \in reviewed : e.verdict # "retry"
    /\ \A u \in Urls : articles[u] # "retry"

(* The reviewing of a run is bounded, which the budget relies on: the      *)
(* model sees no url more often than its items and one more time; and an   *)
(* item whose url occurs once is given up for its retries only after that  *)
(* second review.  (Items of one url count each other's retries, and are   *)
(* given up together after one.)                                           *)
RetriesAreBounded ==
  LET copies(u) == Cardinality({i \in Items : UrlOf[i] = u})
  IN  /\ \A u \in Urls : calls[u] <= copies(u) + 1
      /\ \A e \in reviewed : e.exhausted /\ copies(UrlOf[e.item]) = 1
             => calls[UrlOf[e.item]] = 2
=============================================================================
