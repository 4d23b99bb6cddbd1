# Verification of ai-knowledge-base

TLA+ modules for the parts of the knowledge base's server whose behaviour depends
on the order of things: the circuit breaker and the budget of its language models,
a pipeline run and its lock, the retry rounds of the reviewer, the publication of
the static site, the governance of sources, the deep reports with the tool that
rebuilds them, and the database: its migrations and what the persist phase writes to
it, statement by statement. Every definition is translated from `src/src`; `PROJECT.json` maps it
to its lines. TLC checks the modules on small instances, and TLAPS proves a part of
the properties for every instance.

```
tlc -workers 2 -config DeepReports.cfg MCDeepReports.tla     # one run
tlapm DeepReports_proofs.tla                                 # one proof module
```

## 1. The system

One Python process (FastAPI, APScheduler, one asyncio event loop) holds everything:
cron jobs and API requests trigger *pipeline runs*, which collect articles from
GitHub, RSS, arXiv and Feishu, let language models analyse and review them, write
them to one SQLite database and request a build of the static site. A weekly job
looks for new sources, and a command line tool rebuilds old deep reports from a
process of its own. Coroutines interleave at every `await`; the process may die
between any two statements; model calls, clones and HTTP requests may fail.

| Component (source) | State it keeps | Operations | What makes it correct | Module |
|---|---|---|---|---|
| Circuit breaker `core/health.py` | circuit, failures, cooldown level and start, per provider | `is_healthy`, `record_success`, `record_failure` | a failing provider is taken out of service, waits its cooldown, is probed, comes back | HealthTracker |
| Registry and budget `core/llm_client.py`, `core/budget.py`, `db/costs.py` | spend of the day, clients, `cost_logs` | `get_client`, `add_cost`, daily reset, synchronisation, `save_cost_log` | every answered call is charged once, limits bound the calls of a day | LLMRegistry |
| Analyzers, reviewer, deep report analyzer `graph/analyzers`, `graph/reviewer.py`, `deep_reports/analyzer.py` | semaphores, attempts, the run's cost records | two attempts per item, `gather` | a run ends whatever fails, retries are bounded | LLMRegistry, HealthTracker |
| Pipeline run `main.py`, `graph/pipeline.py`, `db/pipeline_ops.py` | the lock, `main._current_run_id`, `_analyzer_count`, rows of runs and phases | trigger, every phase, the three early exits, the except clause | one run at a time, every completed run accounts for its phases, no run spoils another's row | PipelineRun |
| Retry rounds `services/pipeline_helpers.py`, `main.py` | the reviewed list, retry counts, article and item rows | prepare, review, merge, persist | no verdict lost, none left open | ReviewRetry |
| Site builder `site/builder.py` | the timer task, build rows, the files of the site | `schedule`, `build_now`, build, copy, cancel | what is reported done is on the site, which never goes back | DebouncedBuilder, Publication |
| Source registry and governance `core/source_registry.py`, `core/source_governance.py` | status of sources, daily health | synchronise, roll up, quarantine, degrade, promote, judge | a source on trial serves it; what was stopped stays stopped | SourceGovernance |
| Maintenance job and API `scheduler/source_scheduler.py`, `api/sources.py`, `core/source_discovery.py` | `sources.yaml`, candidates | discover, promote, evaluate, enable, disable, remove | its stale reads never undo a decision | SourceGovernance |
| Deep reports `deep_reports/`, `db/deep_report_ops.py` | rows of two versions, the public version | the stage of a run, a rebuild, the switch | no completed report is lost, the public page stays complete | DeepReports |
| Article store and collection log `db/articles.py`, `main.py`, `services/pipeline_helpers.py` | articles, tags, rows of items and sources, the open transaction | drop known urls, `save_article`, `save_tags`, record items, summarise | an article is approved in one run and keeps its tags, every item has a last word | ArticleStore |
| Database and migrations `core/database.py`, `db/migrations` | the schema, `schema_version` | `initialize`, fourteen scripts | an interrupted start loses nothing, no process serves half a schema | Migrations |
| A process over its life `main.py` (`lifespan`) | | migrate, serve, die, start again | the two above hold together | Persistence |
| Collector, health snapshots, statistics, pages | see `PROJECT.json` | | | not modelled, section 8 |

How they interact: a run *calls* the registry for clients, which asks the breaker;
analyzers and reviewers *report back* to the breaker when their calls end, possibly
after the run is over. The persist phase *writes* the costs the next run's start
*reads* into the budget. The end of a run *schedules* the builder, whose callback
writes the row of the run. The run, the maintenance job and the API *share* the
rows of sources without a common transaction. The stage of a run and the rebuild
tool *share* the table of deep reports from two processes. All coroutines of the
server *share* one connection and so one transaction: whoever commits, commits what
the others have written.

The hard behaviours, at their lines, are the 40 hazards of `PROJECT.json`.

## 2. Modules

**HealthTracker** is the breaker with the calls in flight. `health[p]` is a provider's
record, `elapsed` the time since `opened_at`, up to `MAX_COOLDOWN`; the methods are
functions of a record (`IsHealthy`, `AfterAsking`, `AfterSuccess`, `AfterFailure`), so
that LLMRegistry uses the same ones. `Admit(C, p)` gives a set of callers provider `p`
at once, as the coroutines of one `gather` do; a caller then makes up to two attempts,
and every answer meets the circuit of that moment. The deep report analyzer records a
success when an answer arrives and a failure when it cannot parse it.

**LLMRegistry** is a process with one run at a time: `StartRun` sets the budget from
`cost_logs`, analyzers take clients before their slot (`AnalyzerStarts`) and reviewers
inside it (`ReviewerCalls`), answers are charged and kept in `unsaved` until
`SaveCost`, and the deep report stage follows. Coroutines of a `gather` that failed go
on after their run. Every answered call costs one unit. `costLogs` is the table, one row
per saved record with its run and day. `spend` is the counter of the budget, which a start
sets from the table and a crash clears; what a day has really cost is history, which no
action reads: `spent`, the answered calls of each run; `malformed`, those of them of which no
record was made; `spentToday`, the answered calls of the day, of every run and process;
and `lost`, the day's calls
that no record was made of and the records that were lost in it, with the run that
had them in memory or because their run was over. An answer the
agent cannot parse is `Unparsed(r, j, recorded)`: all agents record it when their parser
raises `ValueError` or `TypeError` (the deep report analyzer any error), and only the
reviewer's parser can raise another one (`reviewer.py:143` when `dimensions` is a list,
line 132 when a score is Infinity), of which it records nothing although the budget was
charged. An answer without choices raises before anything is charged (`reviewer.py:287`)
and is a `RequestFails`. `BreakerSpec` says that it moves its breakers only as
HealthTracker may, and that only a crash starts a new one.

**PipelineRun** has the lock as `queue` and `holder`, the clock's second as `now`, the
run id as the second it was made in (`run_%Y%m%d_%H%M%S`), the rows of runs and phases
by id, and the point of the run in `at`. Every phase is a beginning and an end; the
analyze phase is shared by its analyzers through `count`, the module variable
`_analyzer_count`. `StepFails` takes any step to the except clause, `HandleFailure`,
which may raise itself (`escapes`).

**ReviewRetry** is the sequence of reviews, merges and the persist phase of one run:
`reviewed` are the entries that `merge_retry_review_result` keeps, `calls` counts model
calls per url, and verdicts are any of approved, retry and discarded. Lists are sets: a
round is a set of slots `<<i, k>>` (item `i`, listed for the `k`-th time), and an entry
answers one slot. The code looks at the order of a list only among the entries of one url
(the last of a merge wins, the last persisted stays), and that order is the slots'
(`After`); entries of different urls touch different rows.

**DebouncedBuilder** has a timer task per run, the two callers that supersede it, and
a build that reads the database, renders (any number of steps may happen meanwhile)
and copies file by file. `site[f]` is how many runs the file accounts for, so that a
page of an older state is a smaller number. **Publication** is what readers and rows are
promised; `PublicationSpec` is the refinement, with `published` mapped to the least of
the files.

**SourceGovernance** has `cfg`, the configuration of each source, `status`, its row,
and `daily`, the days of its health, with a run and the maintenance job as two
processes that read rows into variables of their own and write later.

**DeepReports** has the table as a set of rows, an `attempt` per actor (the server's
stage, every rebuild process) and a `batch` per rebuild. Both kinds of actor share the
clone, analyze and save steps and differ in what follows; `CloneDone` finds any HEAD. The
history variable `meanwhile` holds the reports that rebuilds have completed since the
stage of the run read the quota; every `Operation` is taken together with its bookkeeping.

**Migrations** is `initialize`: a script is a sequence of statements, each with its own
commit, and the row of `schema_version` is a statement after them. The scripts that only
create are one action (`Creates`); the three that move data are statement by statement
(`Gathers`, `Merges`, `Forgets` of 007, `Renames`, `Copies`, `Drops` of 011).
`process` is what the start has come to, and `released` the version of the database it
finds, any version up to the last (`ReleaseAssumption`); `Creates` raises when a statement
that is not idempotent meets its own effect.

**ArticleStore** is a run from `Collect` to `EndRun` on that one connection. `disk` is what is
committed and `view` what the connection sees; a step either commits, so that `disk'` is
`view'`, or leaves `disk`. `rowid` is the connection's `last_insert_rowid()`, which
`OtherInserts` (a build's status, a request of the API) may change between two statements
of a run, as `OtherCommits` may commit for it. Items are held by number, rows and
articles by url, which two items may share. A statement may raise (`StatementRaises`,
`RecordRaises`), and `Lost` is what a dead process leaves.

**Persistence** composes both: a process migrates, then serves, and may die anywhere; its
successor finds the disk.

The proofs of a module `M` are in `M_proofs`: HealthTracker, LLMRegistry, DebouncedBuilder,
PipelineRun, ReviewRetry, Persistence (with ArticleStore and Migrations, which it composes),
SourceGovernance and DeepReports have one. `MC*` modules only give constants.

## 3. Runs

| Run | What it asks | Bounds and why they are enough |
|---|---|---|
| `breaker` | does a circuit trip, wait, probe, close and recover as it should, whatever the order of answers | one provider (providers share nothing), four callers, more than the threshold 3, the real cooldowns in units of 60 s |
| `registry_costs` | does every run end, a completed one log every answered call it made a record of, and the breaker move as its own specification says | two items so that analyzers, retries and slots interleave, two providers with a fallback, limits that are reached during the run, one crash |
| `registry_crash` | is a call saved twice, and by how much do the calls of a day pass the hard limit | two runs over two days, one crash, database errors, answers without a record: coroutines of the first run meet the second. The reviewer has one slot, so that two runs of which one loses its records do go beyond the limit and all that was handed out below it (without `lost` the run fails); the two items are interchangeable (symmetry, for invariants only) |
| `builder` | rows and site, safety, refinement and liveness | three runs so that a schedule meets a build and a timer, one immediate build, two files, one failing build, one crash |
| `pipeline` | rows of runs and phases, the lock | two triggers, which may start in one second, two analyzers, a failure at every step, one escaping exception, one crash |
| `pipeline_sameid` (violation) | does a queued trigger collect | no failures, no crash |
| `review` | are verdicts lost or left open | four items, two of one url, one on trial; every verdict in every round |
| `governance` | trials, stops and switches | three days (a trial needs three) and four runs (the fourth would collect what three have degraded), one edit or restart, a configured and a found source, good days and failing ones, the job at any await |
| `governance_publish` (violation) | does what was rejected publish | one found source, no edit |
| `store` | migrations and writes under crashes | releases 0 (no database), 6 (legacy names to merge) and 10 (reports to copy); two crashes, so that a start is interrupted after an interrupted one; two runs over three items, two of them of one url and of two sources; one failing statement or one insertion by another coroutine, whose row may collide with an article's |
| `store_rowid` (violation) | does `save_article` return its article's id | the same |
| `deep_reports` | the table under a run and a rebuild; is a run's report within the quota, rebuilds included | two repositories with old reports, two rebuilds of any kind, two stages over three weeks (a week is a tick, the quota one report), one raised error or crash anywhere |

Every action and every disjunct of the next-state relations fires in a passing run,
and every property has a mutant of the code's model that it catches: a dropped guard,
a missing reset, a cancelled await. Mutants stand in the modules before the definition
they change and are marked as such. The configurations that stop at a bound model that
with an idle step, as the process waits for its cron jobs; in ReviewRetry and
DeepReports a behaviour ends, the latter's run does not look for deadlocks.

**The violation runs are disagreements between the repository's documents and its code:**

- *queued triggers* (docs/operations.md:92): run ids have a resolution of a second, and a
  queued run that starts in the second of the run before it cannot insert its row
  (`main.py:291`), marks that run failed and collects nothing.
- *new sources* (docs/codemap.md:120, "不直接上线新源；上线仍由 trial 健康机制裁决"): a run lists its
  sources and asks for their statuses in two queries (`main.py:297-298`); one that the
  maintenance job rejects in between is collected, no longer on trial, and published.
- *ids* (db/articles.py:147, "返回 article id（新插入或已存在行的 id）"): `save_article` commits and then
  asks for `last_insert_rowid()` in another statement of a shared connection
  (`articles.py:183`), so an insertion in between makes it return the id of another row.

**Three more disagreements have no run of their own.** The models contain them, and a passing
property names each as the exact exception without which it would be false:

- *unrecorded answers* (docs/data-model.md:202, every call that returns usage is written to
  `cost_logs` even if the reviewer's JSON cannot be parsed): `_review_one_item` catches only
  `ValueError` and `TypeError` around the parser (`reviewer.py:308`). Another error
  reaches the outer handler with `cost_record` set, which then appends nothing, and the run
  completes without a row for the call. `CompletedRunIsCharged` is an equation with those
  calls on one side (`malformed`); without them it is violated.
- *the hard limit over a restart* (docs/operations.md:94 and docs/codemap.md:104, a restart does not
  get past the limit): the next start sets the budget from `cost_logs`, which lacks the
  records that a dead process or a failed run had in memory (`main.py:435`, saved at
  `main.py:696`), so the day may pass the limit by as many calls again. `OvershootBounded` counts
  the calls of the day itself and allows for exactly those (`lost`).
- *two reports a week* (docs/data-model.md:263, at most two completed reports in a calendar week):
  the rebuild tool asks for no quota, and the stage of a run reads it before a clone and an
  analysis of minutes (`selector.py:107`), so that a rebuild that completes reports in
  between takes the week beyond it. `PacedReports` counts the rows of every writer, but for
  those a rebuild completed since the stage read the quota (`meanwhile`).

Behaviours met while modelling that are in the models but that no run states as a
property: a late success resets the backoff of an open circuit (`health.py:52`); an
unparsable deep report counts as a success and a failure (`deep_reports/analyzer.py:209`);
an item whose retry count reached two is prepared for a second retry round that reviews
nothing (`pipeline_helpers.py:200`); two items of one url count each other's
retries, and both are analysed and paid for in one run; a failed backup turns a completed run into a failed
one (`main.py:857`); an immediate build that fails after it superseded a waiting run
leaves the run unpublished with no row that says so (`builder.py:251`); a restart leaves
queued builds and running runs as they are (`main.py:886`), which `QueuedHasLiveBuild` and
`RunningIsHeld` excuse; a run that the budget blocks
erases the day's score (`source_governance.py:218`); cron groups are registered at startup
only (`main.py:919`); a removed source keeps its row and is collected until the next
synchronisation (`api/sources.py:400`); waiting analyzers start requests after the hard
limit, since `analyze_one` asks for its client before its slot (`graph/analyzers/base.py:77`,
against docs/task.md:34; `OvershootBounded` says by how much); a run that is over after
midnight saves what it spent on both days under the new one (`budget.py` starts from
zero when the date changes, `main.py:696` saves at the end), so that the next start can find
a day beyond the limit that no day was, and refuse calls it could make; a source on trial with three
low scores is quarantined by its own run (`source_governance.py:109`) and never gets the
verdict of docs/data-model.md:365; a url that is collected twice, from one source or
from two, can be approved twice and counts for the source that delivered it last, which is
new once and so gets a score above the 100 of its specification;
tags that are lost are never repaired, because a known url is skipped (`main.py:352`); an
interrupted start may make every later start raise, since the ALTER TABLE of script 003 is
not idempotent although its comment says so; the branch of the persist phase for a verdict
that is still "retry" is never taken (`EveryItemJudged`); `normalize_tags` drops the tags that
`main.py:583-589` adds.

## 4. Properties

One type invariant per module, and then:

- *safety across actors*: `TripsAtThreshold`, `ProbeWaitsForCooldown`, `NoCostTwice`,
  `CompletedRunIsCharged`, `OvershootBounded`, `CompletedIsAccounted`, `RunningIsHeld`,
  `AtMostOneLiveTimer`, `QueuedHasLiveBuild`, `EveryItemJudged`, `RetriesAreBounded`,
  `TrialIsServed`, `SwitchedOffIsNotCollected`, `VersionIsComplete`,
  `ApprovedInOneRun`, `EveryItemHasLastWord`, `SummaryBalances`;
- *under crashes and failing statements*: `TagDamageIsBounded`, `StartsAreSafe`,
  `NothingMigratedIsLost`;
- *what no step may do*: `OpenUntilProbed`, `EndedIsFinal`, `SiteNeverRegresses`,
  `StoppedStaysStopped`, `CompletedIsKept`, `PacedReports` (what a run's report may join);
- *implementation*: `BreakerSpec` (LLMRegistry implements HealthTracker) and
  `PublicationSpec` (DebouncedBuilder implements Publication);
- *liveness*: `RecoversWithProvider`, `RunEnds`, `TriggersGetTheLock`, `QueuedIsPublished`.

Where a property excuses a crash, a failed build, an escaping exception, a missing record
or a rebuild, the model says that it happened (`crashes`, `failures`, `escapes`, `errors`,
`others`, `malformed`, `lost`, `meanwhile`), and
the comment says what the code does then.

## 5. Fairness

- *HealthTracker*: time passes (`WF(Elapse)`); every call ends, as the client library and
  the reviewer's `wait_for` bound it (`WF(Return)`); cron jobs keep asking. The last is
  strong fairness: the scheduler asks again and again although the circuit changes
  between the times, and a request that finds it cooled down is the probe.
- *LLMRegistry*: `WF(RunStep)`: the event loop runs ready coroutines and requests have
  timeouts. No fairness for new runs, days or crashes.
- *PipelineRun*: `WF` of taking the free lock (asyncio's lock is FIFO), of a step of the
  run, and of the clock.
- *DebouncedBuilder*: `WF(LoopStep)`: callbacks that are ready run, and timers expire. Runs
  and immediate builds need not come.

Every fairness is of a disjunction and not of single coroutines where the loop
promises no more.

## 6. Proofs

Eight modules hold theorems: every invariant and every action property that a passing run
checks has one, and so have the two refinements. None is
restricted to small bounds on time, calls, runs, triggers, failures or crashes: the constants
occur in guards, types and the number of earlier runs of `OvershootBounded`, and the assumptions
say that they are numbers.

**HealthTracker_proofs** (for any providers, callers, threshold at least 1, and cooldowns
with `CooldownAssumption`: the base is positive, at most the maximum, and sixteen times it
reaches the maximum). `TypeCorrect`, `TripsAtThresholdAlways`, `ProbeWaitsAlways`,
`OpenUntilProbedAlways`. The records are independent, so the inductive invariant is
`GoodRecord` of every record: a closed one is below the threshold, a half-open one has
waited. Lemmas say of each method what it makes of a good record; a step changes one record
by one or two methods.

**LLMRegistry_proofs**, for any providers, chains of fallbacks, items, slots, limits, runs,
days and crashes: `ImplementsHealthTracker`, that the registry satisfies `BreakerSpec`:
every step is one of HealthTracker, or leaves the breaker alone, or is a crash, after which
a process starts with a new one. `calling` is mapped to the clients the coroutines hold. The
invariant `Inv` says which coroutines may hold one: `GoodTask` per coroutine (none while it
asks, one from the first attempt on until it ends, and a reviewer none until it has its
slot), that runs to come have no coroutine, and that the repository of a deep report is
untouched until its stage. An analyzer node then is an `Admit` of all its items, a
reviewer's or a report's call one of a single caller, the start of a review round one of
nobody; answers and failures map to those of HealthTracker whether or not the run they
belong to still lives, and every other step stutters. `ClientIsHealthy` is the lemma about
`get_client`: what it hands out is a provider whose circuit lets it. `BreakersAreSafe` reads
what HealthTracker promises of a breaker for the registry's: below the threshold while
closed, not probed before they have waited, across crashes too. The rest rests on three more
invariants, one on top of the other:

- `Flight` (`Flying`, `Statuses`): which coroutines may be at which point for which run, and
  that a run that completed has none left. With the types it gives `TypeCorrect`.
- `Ledger` gives `NoCostIsSavedTwice` and, if the database refuses no row,
  `CompletedRunsAreCharged`. While a run is under way its rows, the records in memory and its
  `malformed` calls are together exactly what it has spent; that equality is lost with the
  run, and what remains of it is the inequality of `NoCostTwice`.
- `Day` says where the calls of the day are: in the rows of `LoggedToday`, in memory or in
  `lost`; and that the budget and `lost` account for all of them (`Recorded`) while anything
  can ask for a client. After a crash that does not hold until the next start, when the
  process has no run and no coroutine.
- `Budget` gives `OvershootIsBounded`. `OvershootBounded` is not inductive, since an answer
  raises the spending and nothing in it says how many answers are still to come. The
  invariant adds them: the calls of the day and the `Outstanding` requests, two at most for
  each client that was handed out, stay within the bound, and no client is handed out when the
  calls that are not lost have reached the limit.

**DebouncedBuilder_proofs**, for any number of runs, immediate builds, files, failing builds
and crashes, along three invariants, each on top of the one before:

- `TimerInv` gives `OneLiveTimer`. `AtMostOneLiveTimer` is not inductive: that a new task is
  created needs to know that the old one was told to stop. The invariant adds where a live
  task can be: it is the one `_timer` refers to; while `schedule` is between its
  cancellation and its new task there is none; and a copy under way belongs to a task that
  is building and live.
- `RowInv` (`Handing`, `Rows`) gives `TypeCorrect` and `QueuedHasLiveBuildAlways`: whose
  rows the two callers hold while they supersede, and that a row is queued or running only
  with its build.
- `PageInv` (`Queue`, `Bounded`, `Copying`) gives `SiteNeverRegressesAlways`: the builds
  that wait for the database's answer are in the order of what they have read and behind
  every page; the one that copies has the oldest snapshot of those still to come, and the
  files it has done are of that snapshot.
- `ImplementsPublication`: `PublicationSpec`, with `saved <- articles` and `published <-`
  the least of the pages, step by step: a copied file either leaves the least page, or
  raises it to the state of its build, and a row becomes done only when the least page has
  reached its run.

**PipelineRun_proofs**, for any number of triggers and analyzers and with a failure, an
exception in the except clause or a crash at every step: `TypeCorrect`,
`RunningIsHeldAlways`, `CompletedIsAccountedAlways`, `EndedIsFinalAlways`. The invariant has
`Locked` (a run is under way exactly when the lock has a holder, and has its row from
`sync` on), `Counting` (`_analyzer_count` is the number of analyzers that run, and the last of
them to end has recorded the phase) and `Recording` (per point of the run, which phases have
their last word), one lemma per group of actions.

**ReviewRetry_proofs**, for any list of analyzed items (`ItemsAssumption`: finitely many, in a
list) with any of them sharing urls: `TypeCorrect`, `EveryItemIsJudged` and
`RetriesStayBounded`. The invariant relates what is listed for the next round to what has been
counted: `Rounds` (the graph lists every item once, a later round first items of a url only),
`Answered` (the entries are one for each slot), `Again` (per url: what says retry is listed; what
is listed has used up its retries, or has one left, is listed once and its url was called once
per item) and `Counts`. `FirstRound`, `LaterRound` and `Counting` say what a merge makes of them:
after the second round no entry can ask for a third, because the one item listed with a retry
left has had it.

**Persistence_proofs**, for any items, urls, sources, tags, releases, runs, faults and
crashes, along five invariants. `ApprovedOnce` (`ApprovedInOneRun`) and `LastWordAlways`
(`EveryItemHasLastWord`) follow from `IInv`, which is `Typed` (what is committed differs
from what the connection sees in tags only), `HandIsSaved` (the entry at hand is still left
and its article is there), `NewIsUnknown` (until the persist phase a new item has no
article), `Accounted` (per url: an article approved beyond the faults is saved or about to be, and
not in a run that a foreign id is going to end) and `Worded` (which items have their row at
which point of the run). `Accounted` is the heart: `ApprovedInOneRun` alone does not say why the run
that follows the one that approved it finds the article.

- `SInv` adds that ids are given in order (`Numbered`: no id is larger than the number of
  articles, no two are equal), that a run approves a url at most once (`Approved`) and what it
  holds of the entry at hand (`Hand`). With `MInv` it gives `TypeCorrect`.
- `DInv` gives `TagDamageAlwaysBounded`. A run that was given a foreign id is going to damage
  two articles and may be interrupted before it has, so the invariant charges two for a
  `Mistaken` run at once, and leaves out the articles it has `Touched`, which are wrong only
  until it goes on.
- `Judged` (items of one url are new together, and what is inserted was approved) gives
  `SummaryAlwaysBalances`. The sum over the sources is the size of a set of units, a pair of a
  source and a number for each, and `TotalCounts` maps the units one to one to the items
  counted, so that no induction over the sources is needed.
- `MInv` gives `StartsAlwaysSafe` and `NothingEverLost`: `Position` (which statement a start can
  be at for which version), `SchemaKnown` (the schema is that of the version, and what the
  statements so far have made, but for what script 011 drops before it makes it again; it is
  exactly that before the first crash) and `Moving` (where the counts of 007 and the reports of
  011 are at each statement). `ScriptShapes` is the lemma that reads the fourteen scripts.

**DeepReports_proofs**, for any repositories, commits, old reports and rebuild processes
beside the server: `TypeCorrect`, `NothingForgotten` (`VersionIsComplete`), `CompletedStays`
(`CompletedIsKept`) and `ReportsArePaced`. The invariant of the second and third says what a
batch that will switch the version still owes: `Progress`, every repository with an old
report has a row of version 2 behind the batch, or is in it, or is being worked on; and
`Versions`, what the tables hold on either side of the switch. A cleanup deletes only behind
a completed row, which is what keeps both. `ReportsArePaced` has its own, `Paced`: no row is
of a time to come (`Clock`), and while the stage works on a repository the week's rows,
those in `meanwhile` set aside, are below the quota (`Quota`) and the repository has no
report within the interval (`Chosen`). That is what the property lacks: the stage checks
before it clones and saves after it, and only the fact that nobody but a rebuild writes
completed rows in between keeps the check true.

**SourceGovernance_proofs**, for any configured and found sources, outcomes, days, runs, edits and
restarts, along two invariants:

- `RunInv` gives `TypeCorrect` and `SwitchedOffIsNotCollectedAlways`. `Typed` adds to the
  types that no row is of a day to come and that a verdict is of a source the job has
  selected; `Kinds` separates configured from found sources and says that nobody else
  changes a row while its synchronisation is between read and write; `Switched` that a
  source the run's configuration switches off is disabled from its synchronisation to the
  listing.
- `TrialInv` gives `TrialIsServedAlways` and `StoppedStaysStoppedAlways`. `Serving` says
  what a found source has shown, by its status and by what the run under way makes of it;
  `Resting` that a quarantined one has three low days and no run that could add another;
  `Selections` and `Verdict` that what the job read still stands. The crux is a verdict of
  "active" that waits while a run rolls its source up: one of the three days that it read is
  good, is not today and is followed by today at most (`Vouches`), so no run of today pushes
  it out of the last three, and the source cannot have been quarantined meanwhile
  (`VouchedIsNotLow`, `PassedTrial`, `RolledUpKeeps`). `NewDay` waits for an open verdict: a
  job that sleeps over midnight between two of its statements is outside the model.

Only model-checked: liveness (`RecoversWithProvider`, `RunEnds`, `TriggersGetTheLock`,
`QueuedIsPublished`), since fairness and `ENABLED` are out of the prover's reach; and the three
violation runs, which are counterexamples.

## 7. Abstractions

- Data: texts, scores, prompts and urls are model values, and a verdict or a health score
  is any of the classes the code tells apart. Times are counted in the distances that
  matter (a cooldown, a second, a day, a week).
- A statement followed by its commit is one step. On the server's one connection a
  second coroutine may commit it earlier; ArticleStore and Migrations, whose properties see
  that, have statements and commits of their own. `RollUp` is one step per source, and the
  maintenance job comes between any two.
- The outcomes a run gets from a source in SourceGovernance are any that `GovernanceAssumption`
  allows: what is lost is among the new, approvals are any number. A score that is missing is
  a number below all scores (`NoScore`).
- ArticleStore has one server and no second starter: two processes that migrate at once
  would wait for SQLite's lock or raise, and the deployment has one container.
- `update_source_status` and `manual_override` have no caller in `src/src` that sets them
  and are left out. So are the tool's own run row and the site build it makes after a
  switch.
- DeepReports does not order rows by id: a limited rebuild may take any rows, and a
  retry any of the repository's failed ones.

## 8. Not modelled, and the plan

Not modelled: templates and scripts, statistics and read-only endpoints (no state
changes), configuration parsing and helpers (pure), the clone and inspection of a
repository (input), deployment files.

Done, the most important first: breaker and registry, builder and publication, pipeline
run, retry rounds, governance, deep reports, article store and migrations with their
composition. What could follow:

1. *sources.yaml* truncated and rewritten in place: load and write do not await, so only a
   crash in between shows, and the next start finds an empty or partial file.
2. *Collector*: its requests and parsers are input to the models, and what it logs is
   appended. The outcomes a run gets from a source are a small set in SourceGovernance.
3. *Rebuild tool*: its row of `pipeline_runs` and the build of the site after a switch.
4. *Abstract specifications* of the store (an article is unknown, approved, saved and tagged)
   and of the migrations (a version that only grows), for Persistence to implement.
