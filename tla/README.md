# Formal models of flaky-stabilization

`flaky-stabilization` is a plugin that stabilises flaky tests: it classifies CI
failures, finds flaky tests in the run history, heals or quarantines them,
keeps a local index of Jira incidents, and files bug reports.  This directory
holds TLA+ models of its stateful parts, the TLC configurations that check
them, and proofs that the TLA+ proof system checks.  Paths below are relative
to the repository root; line numbers of the code behind each definition are in
`PROJECT.json` (`map`).

## 1. Inventory

Stateful parts first; for each: state, operations, what interacts with it, what
is hard, and the properties that would make it correct.

**Incident sync engine** (`flaky_stabilization/incidents/ingest.py`,
`incidents/store.py`).
State: the `incidents` table and the `meta` table (watermark, `backfill_done`,
two resume tokens, pending newest stamp, the query they belong to), each key
committed on its own.  Operations: `run_sync` (query change, resume state,
pages newest-first up to `max_pages`, rejected token, two persistence tails),
`prune_older_than`, `delete_keys_not_in`.  Hard: death or failure between any
two commits, a page cap that truncates a newest-first order, tokens that expire
or belong to another query, issues that move while a sweep is under way.
Correct when: whatever is missing from the index stays within reach of the next
runs; repeated runs converge.

**Full sweep** (`incidents/cli.py`, `jira sync --full`).
State: three more meta keys (`full_sync_*`).  Operations: `_prepare_full_sync`,
`run_sync(incremental=False)`, `_reconcile_full_sync`.  Interacts with the
background syncs through the shared backfill keys.  Hard: a sweep over several
invocations, with other syncs and crashes between them, ends in a deletion.
Correct when: nothing live is deleted for good; what Jira deleted goes away.

**Prefetch cache** (`incidents/prefetch.py`).
State: entries, builds in flight, generation, closed flag, thread pool.
Operations: `get`, `queue`, `clear`, `shutdown`, `reopen`; builds run on pool
threads beyond the caller's timeout.  Hard: a build overtaken by an
invalidation; callbacks of an earlier life; the unlocked pool reference.
Correct when: invalidated blocks do not come back; every build is forgotten.

**Incidents service and sync scheduler** (`incidents/__init__.py`,
`incidents/sync.py`).
State: configuration, store, client, scheduler and its thread, initialized flag,
lifecycle lock.  Operations: `initialize`, `ensure_initialized`, `shutdown`,
`trigger_sync` (unlocked), the background `_sync_once`, session hooks, the read
tools.  Hard: the sync thread reads the service's fields while the lifecycle
operations replace them; a configuration change is deferred or undone while a
sync runs; the cache must be invalidated when the index changed.
Correct when: no store is closed under a running sync, one sync at a time, the
cache follows the index and is open whenever the service is initialized.

**Failure-response pipeline** (`orchestrator/pipeline.py`,
`storage/pipeline_runs.py`), with the **approval hooks** (`orchestrator/hooks.py`)
and **ticket creation** (`incidents/write.py`, `incidents/jira_client.py`).
State: the run's stage results, the spooled log, the `pipeline_runs` ledger; the
configuration, read by the hook and again by the stages.  Operations: evidence,
history, incident context, triage, heal branch with burn-in feedback, bug branch
with dedup, PII gate and ticket; `create_issue`, as a tool or as a stage.  Hard:
one stage failing after others had effects; the two reads of the configuration;
a POST nobody hears the answer of; the gate that must hold on every path that
leaves the machine.  Correct when: writes were approved, evidence was scanned in
the call that sends it, the ledger is true, every log in the spool is accounted for.

**Pattern store and classifier** (`triage/patterns.py`, `triage/classifier.py`).
State: patterns with categories, counts and a text index.  Operations: classify,
record, prune by age and by number, lookup.  Hard: pruning at the limit and at
equal stamps.  Correct when: what was just learnt stays.

**PII scanner** (`pii/`).
No state: detectors over a text, resolution of overlaps, masking, redaction, the
scan of a tree under limits, the gate.  Hard: which of several overlapping hits
survives; what a limit or an unreadable entry hides.  Correct when: a tree that
passes the gate was read to the end and is clean; masked text holds no hit.

**Bug report composer** (`bugreport/`).
No state: one retry, then a report or an error.

**Healer** (`healer/flaky_healer/healer.py`, `healer/handlers.py`), **diagnosis**
(`trace.py`, `diagnose.py`, `strategies/`), **recipe store**
(`healer/flaky_healer/recipes/`), **sandboxes** (`sandbox/`) and **git flow**
(`healer/flaky_healer/gitflow.py`).
State: the sandbox's copies, recipes with counters, rows of runs, the patch
files, the user's repository.  Operations: parse a trace, diagnose, plan, match a
recipe, reproduce, burn in, fall back, persist or bump the recipe, preflight,
branch/apply/commit/push/PR, cleanup.  Hard: failure at any step, a user or a
second heal moving the repository between burn-in and checkout, a recipe that
fails after earlier successes.  Correct when: only burnt-in contents are pushed,
cleanup restores the repository, recipes and reports tell what ran.

**Flaky-test detective** (`detective/`) and **run history** (`history/`).
State: runs and their cases in `history.db`, verdicts and scan rows in `state.db`,
configuration, cron job.  Operations: ingest of a file or a directory, prune,
burn-in feedback over the gateway's shared connection, lookups; a scan that
reads a window, replaces the verdicts, records itself and reports changes.
Hard: a file that fails within a directory's transaction, two threads on one
connection, files ingested twice, scans that overlap or die half-way.  Correct
when: the readers see whole runs, each once, and the reports add up.

**Configuration, command line, cron jobs** (`config.py`, `cli.py`, `cronjobs.py`).
The commands that change state are actions of the components above.

**State database** (`storage/state.py`, `storage/migrate_legacy.py`) and **log
fetching** (`triage/logfetch.py`, `triage/prefilter.py`): not modelled, section 7.

## 2. Modules

| module | models | state and actions in the code's terms |
|---|---|---|
| `IndexSync` | `incidents/ingest.py`, the parts of `incidents/store.py` it uses, its two callers | `meta` is the meta table with the six sync keys, `index` the table of incidents (key -> `updated` stamp of the stored version, 0 if absent), `run` the locals of the `run_sync` call in progress, with `pc` naming the next commit. `SyncStart` is the call; `ClearKey` one `set_meta` of the query change; `Resolve` the resume state; `SearchPage`, `SearchEmpty`, `SearchRejected`, `SearchFailed` the outcomes of one search; `Upsert` one page's transaction; `PersistWatermark`, `PersistDone`, `PersistToken`, `PersistNewest` the commits of the two persistence tails; `ServiceReturn` (with the retention prune) and `CliReturn` the callers; `Crash` may come before any of them. |
| `FullSync` (extends `IndexSync`) | `jira sync --full` in `incidents/cli.py` | `full` is the sweep's checkpoint, `cli` the invocation, `seen` the keys its `run_sync` saw. `StartFull`/`Prepare` are `_prepare_full_sync`, `SaveSeen`/`DeleteUnseen`/`ClearCheckpoint` are `_reconcile_full_sync`, `PlainRun...` are background syncs between two invocations. |
| `ContextCache` | what the cache promises | Abstract: a set of blocks, the index version behind them, the version at the last invalidation. |
| `PrefetchCache` | `incidents/prefetch.py` | One action per critical section or unlocked access of a turn thread, of a build on the pool and of the owner. `caller` is the program counter of `get`/`queue`, `future` the futures with their builds, `pools` every pool ever created, `owner` the three steps of `shutdown`. |
| `IncidentsService` (instantiates `ContextCache`) | `incidents/__init__.py`, `incidents/sync.py` | `op` is the operation holding the lifecycle lock and where it is, `turn` an unlocked `trigger_sync`, `stores` and `syncs` every store and scheduler ever made; the thread of a scheduler walks through `_sync_once` and reads the service's fields where the code does. |
| `Pii` | `pii/` | Operators: a text is the set of its regular-expression candidates (spans with a detector, the verdict of its validator, and whether the redactor's pattern, anchored in another way, takes it too), a tree the sequence of its entries. `Hits` are what the detectors find, `Findings` what `_dedupe` leaves, `MaskPii`, `RedactText`, `Scan` and `GateOk` the functions of those names. |
| `Pipeline` (extends `Pii`) | `orchestrator/`, `incidents/write.py`, the triage of `triage/` | `pc` is the stage the run is at, `run` its context and arguments, `cfg` the configuration as it is now and `run.snap` as the hook saw it; `jira`, `prs`, `greens`, `ledger`, `spool` are what the run leaves in the world. One action per stage with the ways it fails; the writer is three (`WriteEnabled`, `WriteGate`, the POST). |
| `Diagnosis` | `trace.py`, `diagnose.py`, `strategies/` | Operators from a trace and a log to a cause, a plan and a patched file. |
| `Healer` (extends `Diagnosis`) | `healer/handlers.py`, `flaky_healer/` | `heals` are the calls in progress, with the locals of `heal_failure` and `_pr_flow`; `git` is branches, head, tree and index of the repository; `recipes` and `rows` the store; `patches` the patch directory. One action per phase of a heal and per dispatch to the host. |
| `TestHistory` | `history/`, the reads of `detective/query.py`, `detect.py` | Operators: parse, insert, ingest, prune, the deduplicated read of a window, classification, the key of a test, what a test id resolves to, `is_flaky`, the two lookups with the cap and the refusals of `module_failure_history`. A database is its runs and its id counter; a name, path, class or key the sequence of the parts `::` separates in it, so that joining and splitting are what they are in the code. |
| `HistoryBook` | what history and detective promise | Abstract: a book with one entry per execution of a suite, and a board of verdicts counted from it. |
| `Detective` (extends `TestHistory`) | `history/ingest.py`, `history/storage.py`, `detective/`, `cronjobs.py` | `db` is `history.db` as committed, `txn` the write transaction open on a connection, `batch` a directory ingest at work, `feeder` the gateway threads, `scan` the two scanners in their four steps, `verdicts` and `audit` the tables of `state.db`. |
| `IndexSync_proofs`, `FullSync_proofs`, `PrefetchCache_proofs`, `IncidentsService_proofs`, `Pipeline_proofs`, `Healer_proofs`, `Detective_proofs` | | Theorems about the module of that name and their proofs, section 5. |
| `DetectiveBook_proofs` (extends `Detective_proofs`) | | The detective's refinement of `HistoryBook`, and the agreement of its tools. |

The `MC...` modules give the constants that a `.cfg` cannot write.  In the
modules, a definition commented "Mutant" is a plausible bug in the definition that
follows it; no specification uses one.  `PROJECT.json` says which property each of them violates.

How they compose: `FullSync` adds the sweep to the sync engine by extending its
state; `PrefetchCache` implements `ContextCache` (property `KeepsPromise`), and
`IncidentsService` uses `ContextCache` in its place, so that the service is
checked against the promise and not against the threads of the pool.
`Pipeline` calls the operators of `Pii` where the code calls its gate, its
masking and its redaction; `Healer` those of `Diagnosis`.  `Detective` implements
`HistoryBook` (property `ImplementsBook`).  What a component takes from another
one without sharing state with it is chosen: the pipeline's heal stage may answer
whatever `Healer` can report, and the burn-ins it feeds back are the calls
`Detective` takes from its feeders.

Abstractions worth knowing:

- An issue's version is its `updated` stamp, a number; Jira gives out strictly
  increasing stamps.  `iso_to_jql` is modelled by what it does to a stamp: the
  minute's boundary (`Floor`).  The JQL text around it is not modelled.
- A page token stands for the query, its `since` filter and the stamp after
  which the next page starts.  A block of context is the version of the index
  it was built from.
- Debouncing depends on wall-clock time: `Triggered` may always be debounced.
- The wait in `get` ends by an answer or a timeout, neither changes any state,
  so `AddCallback` is the end of the call.
- `Pii`: whether a candidate passes its checksum is part of the candidate.  How
  the search resumes behind a rejected candidate (`Resume`), which candidates a
  limit cuts off and which of the overlapping ones survive are computed.
- `Pipeline`: a call takes a day, as far as retention of patterns goes; the
  patterns are one project's, and what a lookup finds is only a hint in a prompt.
  The host's dialogue with the human is external: it answers yes or no.  Spooling a
  log may fail before the sweep of old ones, before the file is made or while it is
  written, which leaves the file (`half`); removing a file does not fail.
- `Diagnosis`: an element of a snapshot is its id and its test id, an id a shape
  and a number.  The parser's table keeps an id's first showing and holds at most
  `MaxDomKeys` ids, as in the code.
- `Healer`: the project is one spec file, and a branch the sequence of its
  committed contents.  `git apply` finds its place by the lines it replaces.  The
  preflight's reads of HEAD and branch are one step, those of the status another.
  `disturbed` marks a heal during whose git flow somebody else wrote the
  repository or its patch file: the code promises nothing then.  Two heals of the
  same branch share the patch file.
- `Detective`: a tick of the clock is a second for burn-ins and a day for the
  window.  The clock never goes back, so ids grow with time; the rows of two runs of
  one second are read in the order of the runs.  Of rows with the same source and
  time the latest counts.  A burn-in is fed back as `_feed_back_burnin` does it: class
  and name are those of the test id the pipeline was asked for, split at its last
  `::`, the path is the spec file the healer reports (`HealedAt`), or the id where it
  reports none.  So a test whose reports name another file, or none, gets a second
  path, and a suite in its name becomes part of the class.  This repository's healer
  takes a relative path for its test id; the pipeline takes whatever id a stage
  accepts, and its tests use `file::name`.  The source of a repeat carries the whole
  id; the code cuts it at 120 characters, so two longer ids may share their sources.
- `TestHistory`: parts of an id carry no blanks at their ends (the parser strips them;
  a requested id with blanks around its last `::` is not in the model).  Where an
  exact lookup finds nothing, the code searches the text index, and failing that by
  `LIKE`: here that finds the tests whose name or class has the word for a part
  (`Mentions`); hits in messages and stack traces, and the operators of the index's
  query language, are left out.  Which paths begin with which is a constant
  (`Beneath`), as is which hold `..` (`Climbing`).  Ties of failures and runs in
  `module_failure_history`, and ties of failures in `is_flaky`, go either way.

## 3. Runs

| run | question | bounds |
|---|---|---|
| `index_sync` | Is everything the index lacks within reach of later runs, whatever fails between commits, and do repeated syncs converge? `TypeOK`, `WatermarkSafe`, `BackfillResumable`, `IncrementalResumable`, `WatermarkMoves`, `Converges` | 2 issues, a broad and a narrow query, pages of 1 issue, 1 page per run, 2 stamps per minute, 3 changes in Jira, 2 failures/crashes/edits, fair |
| `full_sync` | Is a sweep's deletion right, and do sweeps expunge? `FullTypeOK`, `SweepLeavesReachable`, `NoFalseDeletion`, `GhostsExpunged` | 3 changes, 1 trouble, no background sync during a sweep, no crash while its progress is recorded |
| `full_sync_plain` | (violation) Is the deletion right with background syncs in between? `NoFalseDeletion` | as above |
| `prefetch_cache` | Does the cache keep its promise, its bounds and its books, and is every build forgotten? `CacheTypeOK`, `ClosedEmpty`, `Tracked`, `KeepsPromise`, `InflightDrains` | 3 queries, 2 turn threads, 2 futures, cache of 1, 1 worker (so 2 pending builds at most), 2 index versions, 2 invalidations, 2 pools, fair; the second turn overlaps the first in the cache's first life only, the third query comes only at the cap (`Bounded` in `MCPrefetchCache`) |
| `service` | Do lifecycle operations and background syncs respect each other? `ServiceTypeOK`, `SyncStoreOpen`, `OneSync`, `Ready`, `SyncInvalidates` | 2 configurations, 3 stores and schedulers, 2 edits, 3 index versions, 1 query, turns and lifecycle operations one at a time |
| `service_turns` | (violation) The same with turns that trigger a sync at any time: `ReinitSparesSync` | 2 stores and schedulers |
| `service_stale` | (violation) Does the cache follow the index? `CacheFollowsIndex` | 1 configuration |
| `pipeline` | Are writes approved and clean, is the ledger true, is nothing left behind or forgotten? `PipelineTypeOK`, `ApprovedWrites`, `CleanTickets`, `MaskingSound`, `OutcomeBacked`, `SpoolRemoved`, `PatternsKept` | 2 calls of 6 kinds, 3 configurations and 1 edit, 8 trees, 5 texts, 3 logs, patterns capped at 1 row and 1 day |
| `pipeline_mask` | (violation) Does `mask_pii` mask whatever is hit? `NothingInTheClear` | as above |
| `healer` | What do recipes, reports and pull requests promise? `HealerTypeOK`, `RecipesEarned`, `PublishedValidated`, `Restored`, `RewriteProved`, `ReportCoherent` | 2 heals at a time out of 9 requests, 5 traces, 2 answers of the model, 2 recipe stores, 2 burn-in runs, 1 failure, 1 step of the user |
| `healer_restore` | (violation) Does a failed git flow always put the user back? `RestoredAlways` | as above |
| `detective` | Do ingests, burn-ins and scans implement the book, and do the reports add up? `DetectiveTypeOK`, `WholeRuns`, `BurnInsCount`, `ReportsAddUp`, `ToolsAgree`, `ImplementsBook` | 2 files with 2 or 3 contents, an empty suite among them and one that lists a test three times, 4 identities of 3 tests, one of them with a `::` in its name, one burn-in that gives it a second path, a list of 1 offender, 2 gateway threads, a cron and a hand scanner, 3 configurations, a window of 1 over the moments 0 to 2, 3 events (calls or crashes); scans by cron are not counted |

Why the bounds are enough to be interesting.  With two issues, pages of one and
one page per run, every run over both issues is truncated and resumed, a token
may point between them, an issue may move to the top during a sweep, and the
narrow query drops one of them; two stamps per minute give the watermark's
minute an older neighbour.  Two troubles allow a crash, a rejected token or an
edited query to hit a run that recovers from another one.  In the cache, three queries against one
worker and a cap of two exercise the cap and the eviction, and two
invalidations are a shutdown and a reopening around a build of the first life.
In the service, three stores allow a deferred change followed by a successful
one.  In the pipeline, the second call starts with what the first left, and one
edit can fall between the hook and any later read; the trees hold text,
images, binaries, oversized files and locked directories, and the limits on files,
findings and skipped paths can cut a scan short.  In the healer, two heals can meet in the store, in the patch file and in the
repository, and one failure and one step of the user can hit every step; one
trace shows an id first without and later with a test id; the
first recipe store is empty, the second makes one failure match exactly and
another one loosely.  In the detective, three events are a burn-in meeting
another one on the shared connection and a scan, or a directory ingest with a bad
file between a crash and a prune; the first reports are older than the first moment,
so that a run leaves the window, and with three tests and a list of one offender
`module_failure_history` is cut.  A second burn-in identity exceeds the time of a run
and is left to the proofs.  Bounds on the model that the code does not
have are `MaxClock`, `MaxTrouble`, `MaxVersion`, `MaxGeneration`, `MaxPools`,
`MaxOpens`, `MaxEdits`, `MaxCalls`, `MaxHeals`, `MaxUser` and `MaxEvents`, and the
sizes of `Futures` (reused once nothing refers to them) and `Callers`.  All runs but the five named as violations finish without an error.
Deadlock is checked in all of them but `pipeline` and `pipeline_mask`, which come
to rest after the last call.

Fairness.
- `FairSpec` (`IndexSync`): weak fairness of "a run is started or the run in
  progress goes on".  A session start and every turn trigger a sync, and nothing
  in the thread blocks for ever (searches have timeouts).  Failures, crashes and
  Jira's changes are never required; `MaxTrouble` makes them end, as
  convergence requires.
- `FullFairSpec` (`FullSync`): the operator repeats the command (strong fairness
  of `StartFull`, because background syncs come and go between its chances) and a
  started invocation or sync goes on.  This assumes something of the operator;
  nothing in the code re-runs a sweep.
- `CacheFairSpec` (`PrefetchCache`): threads inside the cache's code run on, the
  builder returns or raises, and a pending build is started if its pool's
  workers become free again and again (the executor's queue is first-in
  first-out).  Nobody has to call anything.  `MCPrefetchCache` uses the same
  fairness; what `Bounded` holds back there, it holds back until the second turn,
  or the third query, has left the cache's code, which it always does.

## 4. What the runs found

1. `full_sync_plain`: a plain sync between two invocations of a `--full` sweep
   advances `backfill_token` or sets `backfill_done`, which the sweep shares,
   but leaves no trace in the sweep's seen keys; the resumed sweep takes itself
   for complete and deletes live incidents (`incidents/cli.py:194-214`).  The
   repository's README promises that re-running the command resumes safely.  The
   same happens when an invocation dies between committing `backfill_done` and
   saving its seen keys; `CrashWhileSaving` switches that in.
2. `service_turns`: `initialize` looks for a running sync and then closes the
   store, without anything that keeps a turn's `trigger_sync` out in between
   (`incidents/__init__.py:242-256`, `429-435`).  `shutdown` has the same window.
3. `service_stale`: a sync that fails after committing pages does not clear the
   prefetch cache, and the next run, which finds those rows unchanged, does not
   either (`incidents/__init__.py:401-413`).
4. `healer_restore`: a successful flow leaves the user on the fix branch.  A second
   heal of the same failure takes that branch for the original one, commits on it,
   and when the push or the pull request fails, forces a checkout of the branch it
   is on and cannot delete it: branch and commit stay
   (`healer/flaky_healer/gitflow.py:125-143`).
5. `pipeline_mask`: a candidate inside a longer one is dropped before the longer
   one may lose its span to a third, so `mask_pii` can leave a hit in the clear
   (`pii/detectors.py:456-555`).  The gate is not affected: a finding is left in
   any case.  Names of scanned files and fields of error texts are, and the text of
   a ticket where `redact_text`, whose patterns are anchored at word boundaries,
   has left all three: `MaskingSound` therefore speaks of values that stand apart
   from others (`Apart`).

Seen while modelling, without a run of its own:
- A resumed `--full` sweep reads no watermark (`incremental` is false), so its end
  sets the watermark back to the newest stamp of its last part; the comment at
  `incidents/ingest.py:387-389` says that a partial backfill retains the
  global-newest stamp across runs.  Harmless for the index: `WatermarkSafe` still
  holds, the next run fetches again what it has (`WatermarkMoves` is a property of
  plain syncs).
- The burn-in feedback means to show "the recovery" to the next scan
  (`orchestrator/pipeline.py:541`).  Its rows carry class and name of the test id and
  the spec file the healer reports, so they count for a test only if that id, split
  at its last `::`, is the test's own class (or file) and name; a test with a class
  that is healed under `file::name`, or one with `::` in its name, keeps its verdict
  and gets a neighbour.
- Two burn-ins fed at the same moment share the gateway's connection: one's commit
  publishes the other's run row, and a database locked before the other's case is
  inserted leaves it empty, where the comment at `history/ingest.py:150` says "never
  leave an orphan run".  The properties exempt what such a commit leaves (`mixed`).
- A log whose write to the spool fails stays there after its run, until a later run
  spools more than a day after: `_cleanup_spooled_evidence` does not know of it.  The
  comment at `orchestrator/pipeline.py:361-362` speaks of files left by a killed
  process only.
- The docstring of `_match_testid_for_selector` says a test id is taken from another
  element of the same shape "only when unambiguous" (`trace.py:381-408`).  It is
  unambiguous among the showings the parser's table keeps, the first of each id and
  at most `MAX_DOM_KEYS` of them; an id seen first without and later with another
  test id does not count.  `RewriteProved` states what the table proves.
- `migrate` run while a first backfill is paused imports the old index's
  `backfill_done` (`storage/migrate_legacy.py:269`).

## 5. Proofs

Every safety invariant and action property of section 3 is a
theorem, for every value of the constants that satisfies the named assumptions of
the modules (sizes and bounds are natural numbers, positive where the code needs
it; "none" is none of the real values; traces are sequences; texts and evidence
trees are ones a search can meet, `IsText` and `IsTree`).  Where a
theorem has a further hypothesis it says so below, with the reason.  None of the
invariants worth proving is inductive; what had to be added is the argument.

`IndexSync_proofs`.  `TypeCorrect`, `WatermarkSafety`, `BackfillSafety`,
`IncrementalSafety` and `WatermarkMonotone`.  Each safety invariant speaks of a
persisted key, while what the next commit makes public lies in the locals of a
run.  The inductive invariant says of every pair of a cursor `c` and a newest
stamp `n`, persisted or local, that nothing missing from the index is stamped
between them (`Covered(c, n)`).  Fetching a page moves `c` down past exactly the
issues the page holds, because results arrive newest-first; a change in Jira
carries a stamp above every `n`; a commit makes public a pair that is covered
already.  A query change clears the keys before the new query is stored, so a
crash in between leaves keys that are only weaker.

`FullSync_proofs`.  `FullTyping` for every sweep; `SweepReachable` and
`NoFalseDeletions` where no plain sync runs between the parts of a sweep and no
invocation dies while it records its progress (`~PlainDuringSweep`,
`~CrashWhileSaving`).  TLC finds both properties violated without either
hypothesis: the first of section 4 is one of the two.  The sync engine's invariant is
kept by the sweep, which runs its steps; added is `Passed`: no live issue of the
query that the sweep has not seen is stamped between its cursor and the newest
stamp it will publish.  It holds of the checkpoint with the persisted token and of
the run with its cursor, and at the end of an exhausted run it says that every live
issue was seen or is newer than the watermark.

`PrefetchCache_proofs`.  `PromiseKept` (the threads' cache implements
`ContextCache`: initial states map to initial states, each step to a step or a
stutter), `ClosedStaysEmpty`, `BuildsTracked` and `CacheTyping`.  Refinement needs
that a build about to land read an index at least as new as the last
invalidation: the generation counts the invalidations, a build carries the
generation it was submitted in, and `Fresh` says that a finished build of the
current generation has a value no older than `cleared`.  `Tracked` needs `life`, a
history variable: the generation at the last shutdown or reopening, because
`clear` keeps the builds in flight while `shutdown` forgets them.  The bounds need
that no two entries have one key and that a submission looks at the cap in the
critical section it submits in.

`IncidentsService_proofs`.  For all interleavings: `ServiceUsesCache` (the service
uses the cache only as `ContextCache` allows) and `SyncsInvalidate`.  Where turns
and lifecycle operations do not overlap (`~ConcurrentTurns`): `ServiceTyping`,
`StoresOutliveSyncs`, `OneSyncAtATime`, `ServiceReady` and `ReinitSpares`, the last
being what `service_turns` refutes for turns that do overlap; so the hypothesis is
exactly the missing lock.  The invariant (`Serial`) says who owns what: only the
scheduler of the service has a live thread, its store is the service's and open,
and a store that is closed belongs to no thread.

`Pipeline_proofs`.  `PipelineTyping`, `WritesApproved`, `LedgerTrue`,
`SpoolAccounted`, `PatternsSurvive`, `TicketsClean` and `MaskingKeeps`.
Two reads of the configuration are reconciled by `HookStands` (until
an edit, what the hook saw is what is), the ledger by `RunBacked` (what the run has
done so far fits the outcome it carries at every step, so also where a later stage
fails), the spool by `SpoolOwned`.  The last two rest on theorems about the
operators of `Pii`.  `TextSound`: in any text the detectors hit each value that
validates (`FollowsFinds`, from the end of the text to its start), and the greedy
claim leaves out a hit only for a surer one across it (`ClaimSound`, by the number
of hits left).  `GateSound`: a scan that ends clean and complete was quiet in every
round (`QuietRound`, from the last file back to the first), so it read every file
to its end and none held anything.  Two assumptions carry them, both facts of the
regular expressions: one detector has one candidate at a place, and phone numbers,
found in one pass, lie apart (`IsText`); what a file hides from a reader of texts
and images lies behind the cut of a big file, or the file is neither (`IsTree`), so
what OCR cannot make out counts as not there.

`Healer_proofs`.  `HealerTyping`, `RecipesGoGreen`, `ReportsCohere`,
`PushesValidated`, `FailuresRestore` and `RewritesProven`, for any number of heals
and of steps of the user.  `HealsOK` has four parts for each heal: `Signed` (what is
about to be persisted has just gone green under the trace's own signature),
`Coherent` (diff and operations of a report belong together, only stable ones are
published), `Tried` (an undisturbed heal burnt in the tree that is still there) and
`Flow` (what each step of the git flow may rely on, and what it needs to go back).
A heal's own step is one lemma each; all steps of others are one (`Aside`): they
leave a heal and its repository alone or mark it as disturbed.  `RewritesProven`
needs `Grounded` besides: a report's patch rests on the summary of its request's
trace, and sources, branches and patch files are texts and lists of operations,
also after `Applied`.  What `Applied` computes is shown by a least counterexample
over the number of operations (`PatchesExist`, `AppliedListed`), what the parser's
table holds by counting the first showings before one (`DomIdsWhole`).

`Detective_proofs`.  `DetectiveTyping`, `RunsAreWhole`, `BurnInsAllCount` and
`ScansAddUp`.  `RunsWhole` describes the database as committed and as the open
transaction sees it, where a feed's last run may still lack its case; `FeedsOwn`
says that the run is the feed's own and nobody inserts under its id; `FeedsKept`
counts a burn-in's repeats in the database the feed is writing to; `ScansOrdered`
says, for scans that did not overlap, how far verdicts, audit row and reports have
come.  `DetectiveBook_proofs`.  `HistoryIsABook` (the rows, transactions and
four-step scans implement `HistoryBook`) needs `StoreDistinct`: ids are distinct, so
that logical runs and the book's executions correspond one to one, and an open
transaction holds what is committed.  `ToolsAlwaysAgree` has no hypothesis: it
holds for tests of several paths, of one second path from a burn-in, and of names
with separators in them.  The three tools look a test up by different columns.  A key
ends in the last part of its test's name (`Joined`, `KeyEnds`), so where no row has
the key for its exact id the fall-back meets every row the detective counted
(`KeyFindsRuns`); `is_flaky` finds the verdict by its key, and by a path its rows
name (`BoardOfRows`, `FlakyTells`); a list cut at the cap holds no test with fewer
failures than one it leaves out (`PlaceListsTest`).  The ways out that `ToolsAgree`
names are the code's own: a key that is, split at its last `::`, the id of other
rows; a path and name that are another test's key; a path with `..`; an answer that
says it was cut.

Model-checked only:
- liveness (`Converges`, `GhostsExpunged`, `InflightDrains`), which is beyond the
  prover;
- what the violated runs say is not claimed at all.

## 6. Assumptions about the outside

- Jira returns issues newest-first: the default JQL orders by `updated DESC` and
  the engine relies on it.  Paging is by key set: a page continues after the last
  stamp of the one before.  Tokens belong to a query and may be rejected at any
  time.  Two issues never share a stamp.
- One `run_sync` at a time per database: within a process the scheduler's
  coalescing sees to it (`OneSync`); a background sync and a command-line sync
  in two processes at the same moment are not modelled.
- A commit of SQLite is atomic and survives a crash.
- A tracker's POST is answered, refused, or carried out without an answer; a host's
  dispatch of a git step says honestly whether it succeeded.
- The language model answers anything its prompt allows; a sandbox runs the tests
  of the copy it was given.

## 7. Not modelled

Sync and cache: the checkpoint of a sweep that cannot be parsed (treated by the
code as empty), JQL text surgery, mapping of issues to rows, full-text search, the
read tools and the text of the injected context, Jira's HTTP client with its
retries.  Pipeline: the check of a tool's availability (`check_fn`), pattern
lookups and their text index, a triage called on its own while a run is in its
triage, a pruning that fails after its commit, patterns seen at the same moment.
Healer: an exception of the recipe store while it matches, bumps, marks stale or
persists (it ends the heal with an error and without a row), whether the failure was
reproduced (only reported), the mirror of recipes as a skill, the audit table, the
slash command, the readers of the configuration.
Detective: a report whose timestamp cannot be read after parsing, newer
schema versions, the totals of a run, first and last time a verdict was seen, the
full report; a directory ingest that skips a file because the database is locked.

Whole components: log fetching and pre-filtering have no state (the pipeline takes
their outcomes); the schema ladder and each source of the legacy import are one
transaction, run once.

## 8. Plan

Left to model, if the bounds on runs allow it: the import of a legacy database
beside a sync, and triage calls beside a pipeline's triage.
