----------------------------- MODULE IndexSync -----------------------------
(***************************************************************************)
(* The incident index and the engine that fills it from Jira:              *)
(* incidents/ingest.py (run_sync and its helpers), the tables of           *)
(* incidents/store.py it writes, and the retention prune of the service.   *)
(*                                                                         *)
(* A sync pages through Jira newest-first.  It may stop after MaxPages     *)
(* pages, fail on any search, or die between any two commits; what it has  *)
(* learnt lives in the `meta` table, one key per commit.  The question the *)
(* module answers is whether the next run can always still find what the   *)
(* index lacks.                                                            *)
(*                                                                         *)
(* Time is Jira's `updated` stamp: the clock ticks with every change of an *)
(* issue, so a stamp also identifies the version of an issue.  0 stands    *)
(* for an absent issue, an absent row and for the empty string of a        *)
(* timestamp-valued meta key.                                              *)
(***************************************************************************)
EXTENDS Integers, FiniteSets

CONSTANTS
  Issues,      \* issue keys that may exist in Jira
  Queries,     \* configured JQL strings
  Match,       \* Match[q]: the issues query q selects
  NoQuery,     \* the empty `sync_jql`
  NoToken,     \* the empty resume token / a response without nextPageToken
  PageSize,    \* jira.page_size
  MaxPages,    \* jira.max_pages
  Minute,      \* stamps per minute: JQL datetimes carry no seconds
  MaxClock,    \* bound: changes Jira makes in a behaviour
  MaxTrouble   \* bound: failed or rejected searches, crashes and JQL edits

Tokens == [jql : Queries, since : Nat, cursor : Nat]

ASSUME ConstantsAssumption ==
  /\ Match \in [Queries -> SUBSET Issues]
  /\ NoQuery \notin Queries
  /\ NoToken \notin Tokens
  /\ PageSize \in Nat \ {0}
  /\ MaxPages \in Nat \ {0}
  /\ Minute \in Nat \ {0}
  /\ MaxClock \in Nat
  /\ MaxTrouble \in Nat

VARIABLES
  jira,       \* Jira's issues: key -> `updated` stamp of the live version
  clock,      \* the newest stamp Jira has given out
  cutoff,     \* retention: rows updated before it are pruned (0: no retention)
  configJql,  \* jira.jql in the configuration
  trouble,    \* failures, crashes and edits so far
  index,      \* the incidents table: key -> stamp of the stored version
  meta,       \* the sync keys of the meta table
  run         \* the run_sync call in progress, if any

vars == <<jira, clock, cutoff, configJql, trouble, index, meta, run>>

-----------------------------------------------------------------------------
(* The meta table and the local state of a run.                            *)

Token == Tokens \cup {NoToken}

Meta ==
  [sync_watermark      : Nat,
   backfill_done       : BOOLEAN,
   backfill_token      : Token,
   sync_token          : Token,
   sync_pending_newest : Nat,
   sync_jql            : Queries \cup {NoQuery}]

EmptyMeta ==
  [sync_watermark |-> 0, backfill_done |-> FALSE, backfill_token |-> NoToken,
   sync_token |-> NoToken, sync_pending_newest |-> 0, sync_jql |-> NoQuery]

NoPage == [i \in Issues |-> 0]

\* Where a run stands: "clear" drops the resume keys of another query,
\* "resolve" stores the query and reads the resume state, "search" asks Jira
\* for a page, "upsert" writes it; the rest are the commits that persist the
\* progress; "returned" is run_sync's return to its caller.
PC == {"idle", "clear", "resolve", "search", "upsert",
       "watermark", "done", "token", "newest", "returned"}

Run ==
  [pc             : PC,
   key            : 1..5,
   incremental    : BOOLEAN,
   jql            : Queries \cup {NoQuery},
   backfill_done  : BOOLEAN,
   in_incremental : BOOLEAN,
   since          : Nat,
   token          : Token,
   resumed        : BOOLEAN,
   newest         : Nat,
   pages          : 0..MaxPages,
   exhausted      : BOOLEAN,
   page           : [Issues -> Nat],
   next           : Token]

NoRun ==
  [pc |-> "idle", key |-> 1, incremental |-> TRUE, jql |-> NoQuery,
   backfill_done |-> FALSE, in_incremental |-> FALSE, since |-> 0,
   token |-> NoToken, resumed |-> FALSE, newest |-> 0, pages |-> 0,
   exhausted |-> FALSE, page |-> NoPage, next |-> NoToken]

Larger(a, b) == IF a > b THEN a ELSE b

\* iso_to_jql drops the seconds: the filter starts at the minute's boundary.
Floor(t) == t - (t % Minute)

-----------------------------------------------------------------------------
(* Jira (external).                                                        *)

JiraUpdate(i) ==
  /\ clock < MaxClock
  /\ clock' = clock + 1
  /\ jira' = [jira EXCEPT ![i] = clock + 1]
  /\ UNCHANGED <<cutoff, configJql, trouble, index, meta, run>>

\* The issue is deleted, or it leaves every configured query.
JiraDelete(i) ==
  /\ jira[i] > 0
  /\ jira' = [jira EXCEPT ![i] = 0]
  /\ UNCHANGED <<clock, cutoff, configJql, trouble, index, meta, run>>

\* The issues a search still has to return: newest first, below the cursor
\* of the page token, at or above the `updated >=` clause.
Remaining ==
  {i \in Match[run.jql] :
     /\ jira[i] > 0
     /\ jira[i] >= run.since
     /\ run.token # NoToken => jira[i] < run.token.cursor}

\* A page token is bound to the query text it was minted for.
TokenFits ==
  run.token # NoToken =>
    run.token.jql = run.jql /\ run.token.since = run.since

CursorToken(c) == [jql |-> run.jql, since |-> run.since, cursor |-> c]

-----------------------------------------------------------------------------
(* run_sync up to the first search.                                        *)

SyncStart(q, incremental) ==
  /\ run.pc = "idle"
  /\ run' = [NoRun EXCEPT
       !.pc = IF meta.sync_jql \in {NoQuery, q} THEN "resolve" ELSE "clear",
       !.incremental = incremental,
       !.jql = q]
  /\ UNCHANGED <<jira, clock, cutoff, configJql, trouble, index, meta>>

\* reset_sync_state and a changed query clear the same five keys, in this
\* order, one commit each.
ClearedKey(m, k) ==
  CASE k = 1 -> [m EXCEPT !.sync_watermark = 0]
    [] k = 2 -> [m EXCEPT !.backfill_done = FALSE]
    [] k = 3 -> [m EXCEPT !.backfill_token = NoToken]
    [] k = 4 -> [m EXCEPT !.sync_token = NoToken]
    [] k = 5 -> [m EXCEPT !.sync_pending_newest = 0]

ClearKey ==
  /\ run.pc = "clear"
  /\ meta' = ClearedKey(meta, run.key)
  /\ run' = IF run.key = 5
            THEN [run EXCEPT !.pc = "resolve"]
            ELSE [run EXCEPT !.key = @ + 1]
  /\ UNCHANGED <<jira, clock, cutoff, configJql, trouble, index>>

\* The commit of sync_jql and the reads of _resolve_resume_state.
ResolvedRun(m, r) ==
  LET watermark == IF r.incremental THEN m.sync_watermark ELSE 0
      inc       == r.incremental /\ m.backfill_done
      token     == IF inc THEN m.sync_token ELSE m.backfill_token
      pending   == IF inc THEN m.sync_pending_newest ELSE 0
  IN [r EXCEPT
        !.pc = "search",
        !.backfill_done = m.backfill_done,
        !.in_incremental = inc,
        !.since = IF inc THEN Floor(watermark) ELSE 0,
        !.token = token,
        !.resumed = token # NoToken,
        !.newest = Larger(watermark, pending)]

Resolve ==
  /\ run.pc = "resolve"
  /\ meta' = [meta EXCEPT !.sync_jql = run.jql]
  /\ run' = ResolvedRun(meta, run)
  /\ UNCHANGED <<jira, clock, cutoff, configJql, trouble, index>>

-----------------------------------------------------------------------------
(* _sweep_pages.                                                           *)

\* Mutant: a truncated incremental run commits its newest stamp as well.
AfterSweepAlwaysWatermark(r) == "watermark"

\* The first commit of the persistence tail the run's mode selects.
AfterSweep(r) ==
  IF r.in_incremental /\ ~r.exhausted THEN "token" ELSE "watermark"

\* Jira answers with the page of the remaining issues stamped c or later.
\* The last page may or may not carry a token.
SearchPage(c) ==
  LET page == {i \in Remaining : jira[i] >= c}
      last == page = Remaining
  IN /\ run.pc = "search"
     /\ TokenFits
     /\ \E i \in page : jira[i] = c
     /\ Cardinality(page) <= PageSize
     /\ \E next \in {NoToken, CursorToken(c)} :
          /\ next = NoToken => last
          /\ run' = [run EXCEPT
               !.pc = "upsert",
               !.page = [i \in Issues |-> IF i \in page THEN jira[i] ELSE 0],
               !.next = next]
     /\ UNCHANGED <<jira, clock, cutoff, configJql, trouble, index, meta>>

SearchEmpty ==
  /\ run.pc = "search"
  /\ TokenFits
  /\ Remaining = {}
  /\ run' = [run EXCEPT !.exhausted = TRUE,
                        !.pc = AfterSweep([run EXCEPT !.exhausted = TRUE])]
  /\ UNCHANGED <<jira, clock, cutoff, configJql, trouble, index, meta>>

\* Mutant: the rejection fails the run and leaves the token for the next one.
SearchRejectedTokenKept ==
  /\ run.pc = "search"
  /\ run.resumed
  /\ run.pages = 0
  /\ ~TokenFits
  /\ run' = NoRun
  /\ UNCHANGED <<jira, clock, cutoff, configJql, trouble, index, meta>>

\* A 4xx on the persisted token, before any page: the token's key is cleared
\* and the phase restarts from the first page.  Jira rejects a token of
\* another query always, and any token once it expired.
SearchRejected ==
  /\ run.pc = "search"
  /\ run.resumed
  /\ run.pages = 0
  /\ \/ /\ ~TokenFits
        /\ UNCHANGED trouble
     \/ /\ TokenFits
        /\ trouble < MaxTrouble
        /\ trouble' = trouble + 1
  /\ meta' = IF run.in_incremental
             THEN [meta EXCEPT !.sync_token = NoToken]
             ELSE [meta EXCEPT !.backfill_token = NoToken]
  /\ run' = [run EXCEPT !.token = NoToken, !.resumed = FALSE]
  /\ UNCHANGED <<jira, clock, cutoff, configJql, index>>

\* Any other transport, client or protocol error leaves run_sync: pages
\* already upserted stay, no progress is persisted.
SearchFailed ==
  /\ run.pc = "search"
  /\ trouble < MaxTrouble
  /\ trouble' = trouble + 1
  /\ run' = NoRun
  /\ UNCHANGED <<jira, clock, cutoff, configJql, index, meta>>

\* Mutant: the newest stamp of the last page instead of the run's.
PageNewestOfLastPage(r) ==
  CHOOSE t \in {r.page[i] : i \in Issues} : \A j \in Issues : r.page[j] <= t

\* _max_updated of the page folded into the newest stamp seen.
PageNewest(r) ==
  IF \E i \in Issues : r.page[i] > r.newest
  THEN CHOOSE t \in {r.page[i] : i \in Issues} :
         \A j \in Issues : r.page[j] <= t
  ELSE r.newest

\* Mutant: one page over the cap.
MorePagesOffByOne(r) == ~r.exhausted /\ r.pages <= MaxPages

\* The sweep goes on until Jira has no next page or the cap is reached.
MorePages(r) == ~r.exhausted /\ r.pages < MaxPages

SweptPage(r) ==
  LET swept == [r EXCEPT
        !.pages = @ + 1,
        !.newest = PageNewest(r),
        !.token = r.next,
        !.exhausted = r.next = NoToken,
        !.page = NoPage,
        !.next = NoToken]
  IN [swept EXCEPT !.pc = IF MorePages(swept) THEN "search" ELSE AfterSweep(swept)]

\* Mutant: INSERT OR IGNORE, a row that exists keeps its old version.
UpsertIgnoresExisting ==
  /\ run.pc = "upsert"
  /\ index' = [i \in Issues |-> IF index[i] = 0 THEN run.page[i] ELSE index[i]]
  /\ run' = SweptPage(run)
  /\ UNCHANGED <<jira, clock, cutoff, configJql, trouble, meta>>

\* One page is one transaction of upsert_many; its rows overwrite the stored
\* versions whatever their stamp.
Upsert ==
  /\ run.pc = "upsert"
  /\ index' = [i \in Issues |-> IF run.page[i] > 0 THEN run.page[i] ELSE index[i]]
  /\ run' = SweptPage(run)
  /\ UNCHANGED <<jira, clock, cutoff, configJql, trouble, meta>>

-----------------------------------------------------------------------------
(* _persist_incremental_progress and _persist_backfill_progress.           *)

\* set_watermark ignores the empty string.
PersistWatermark ==
  /\ run.pc = "watermark"
  /\ meta' = IF run.newest > 0
             THEN [meta EXCEPT !.sync_watermark = run.newest] ELSE meta
  /\ run' = [run EXCEPT !.pc = IF ~run.in_incremental /\ run.exhausted
                               THEN "done" ELSE "token"]
  /\ UNCHANGED <<jira, clock, cutoff, configJql, trouble, index>>

PersistDone ==
  /\ run.pc = "done"
  /\ meta' = [meta EXCEPT !.backfill_done = TRUE]
  /\ run' = [run EXCEPT !.pc = "token"]
  /\ UNCHANGED <<jira, clock, cutoff, configJql, trouble, index>>

PersistToken ==
  LET token == IF run.exhausted THEN NoToken ELSE run.token
  IN /\ run.pc = "token"
     /\ IF run.in_incremental
        THEN /\ meta' = [meta EXCEPT !.sync_token = token]
             /\ run' = [run EXCEPT !.pc = "newest"]
        ELSE /\ meta' = [meta EXCEPT !.backfill_token = token]
             /\ run' = [run EXCEPT !.pc = "returned"]
     /\ UNCHANGED <<jira, clock, cutoff, configJql, trouble, index>>

PersistNewest ==
  /\ run.pc = "newest"
  /\ meta' = [meta EXCEPT !.sync_pending_newest =
                            IF run.exhausted THEN 0 ELSE run.newest]
  /\ run' = [run EXCEPT !.pc = "returned"]
  /\ UNCHANGED <<jira, clock, cutoff, configJql, trouble, index>>

-----------------------------------------------------------------------------
(* What surrounds a run.                                                   *)

\* Mutant: the boundary row is pruned too.
PrunedInclusive(idx, cut) == [i \in Issues |-> IF idx[i] <= cut THEN 0 ELSE idx[i]]

\* The service prunes rows older than the retention window after a run that
\* returned (prune_older_than, one transaction).  A cutoff of 0 prunes none.
Pruned(idx, cut) == [i \in Issues |-> IF idx[i] < cut THEN 0 ELSE idx[i]]

ServiceReturn ==
  /\ run.pc = "returned"
  /\ index' = Pruned(index, cutoff)
  /\ run' = NoRun
  /\ UNCHANGED <<jira, clock, cutoff, configJql, trouble, meta>>

\* `jira sync` from the command line prunes nothing.
CliReturn ==
  /\ run.pc = "returned"
  /\ run' = NoRun
  /\ UNCHANGED <<jira, clock, cutoff, configJql, trouble, index, meta>>

\* The process dies; what was committed stays.
Crash ==
  /\ run.pc # "idle"
  /\ trouble < MaxTrouble
  /\ trouble' = trouble + 1
  /\ run' = NoRun
  /\ UNCHANGED <<jira, clock, cutoff, configJql, index, meta>>

\* The user edits jira.jql; a run in progress keeps the query it started with.
EditJql(q) ==
  /\ q # configJql
  /\ trouble < MaxTrouble
  /\ trouble' = trouble + 1
  /\ configJql' = q
  /\ UNCHANGED <<jira, clock, cutoff, index, meta, run>>

\* Days pass and the retention window moves.
CutoffAdvance ==
  /\ cutoff < clock
  /\ cutoff' = cutoff + 1
  /\ UNCHANGED <<jira, clock, configJql, trouble, index, meta, run>>

Environment ==
  \/ \E i \in Issues : JiraUpdate(i)
  \/ \E i \in Issues : JiraDelete(i)
  \/ \E q \in Queries : EditJql(q)
  \/ CutoffAdvance

\* The steps of run_sync after its start.
SyncStep ==
  \/ ClearKey
  \/ Resolve
  \/ \E c \in 1..MaxClock : SearchPage(c)
  \/ SearchEmpty
  \/ SearchRejected
  \/ Upsert
  \/ PersistWatermark
  \/ PersistDone
  \/ PersistToken
  \/ PersistNewest

Init ==
  /\ jira = [i \in Issues |-> 0]
  /\ clock = 0
  /\ cutoff = 0
  /\ configJql \in Queries
  /\ trouble = 0
  /\ index = [i \in Issues |-> 0]
  /\ meta = EmptyMeta
  /\ run = NoRun

\* One run at a time (SyncScheduler coalesces), always incremental=True: the
\* background service and the plain `jira sync`.
Next ==
  \/ Environment
  \/ SyncStart(configJql, TRUE)
  \/ SyncStep
  \/ SearchFailed
  \/ ServiceReturn
  \/ CliReturn
  \/ Crash

Spec == Init /\ [][Next]_vars

\* Every session start and turn triggers a sync, and a started run's thread
\* keeps running: fairness of starting and of the run's own steps.  Failures,
\* crashes and Jira's changes are never required to happen.
SyncProgress == SyncStart(configJql, TRUE) \/ SyncStep \/ ServiceReturn

FairSpec == Spec /\ WF_vars(SyncProgress)

-----------------------------------------------------------------------------
(* Properties.                                                             *)

\* Every variable has its type; in particular no run reads more than MaxPages
\* pages.
TypeOK ==
  /\ jira \in [Issues -> Nat]
  /\ clock \in Nat
  /\ cutoff \in Nat
  /\ configJql \in Queries
  /\ trouble \in Nat
  /\ index \in [Issues -> Nat]
  /\ meta \in Meta
  /\ run \in Run

Matching == IF meta.sync_jql = NoQuery THEN {} ELSE Match[meta.sync_jql]

\* The live issues of the synchronised query, within retention, whose current
\* version the index lacks.
Missing ==
  {i \in Matching : /\ jira[i] > 0
                    /\ jira[i] >= cutoff
                    /\ index[i] # jira[i]}

\* Once the backfill is marked done, every issue version the index lacks is
\* newer than the watermark, so the `updated >= watermark` filter of a later
\* incremental run still selects it: no page cap, failed search, rejected
\* token, crash between two commits or query edit makes it unreachable.
WatermarkSafe ==
  meta.backfill_done => \A i \in Missing : jira[i] > meta.sync_watermark

\* While the backfill is paused, its resume token still leads to everything
\* missing: what the index lacks is below the token's cursor, or newer than
\* the watermark the finished backfill will leave behind.
BackfillResumable ==
  /\ ~meta.backfill_done
  /\ meta.backfill_token # NoToken
  => \A i \in Missing : \/ jira[i] < meta.backfill_token.cursor
                        \/ jira[i] > meta.sync_watermark

\* A paused incremental run can be resumed from its token: nothing missing
\* lies between the cursor and the newest stamp that becomes the watermark.
IncrementalResumable ==
  meta.sync_token # NoToken =>
    \A i \in Missing : \/ jira[i] < meta.sync_token.cursor
                       \/ jira[i] > meta.sync_pending_newest

\* The watermark moves forward, except to the empty string when a query edit
\* clears the resume state; and it moves only when the run that moves it has
\* exhausted its result set, or while the backfill is not yet done.
WatermarkMoves ==
  [][ meta'.sync_watermark # meta.sync_watermark =>
        \/ meta'.sync_watermark = 0 /\ meta.sync_jql # run.jql
        \/ /\ meta'.sync_watermark > meta.sync_watermark
           /\ run.exhausted \/ ~meta.backfill_done ]_vars

\* If Jira stops changing and searches stop failing, the index eventually
\* holds the current version of every live issue of the configured query and
\* keeps it.
Converges ==
  <>[](/\ meta.sync_jql = configJql
       /\ Missing = {})

=============================================================================
