-------------------------- MODULE IncidentsService --------------------------
(***************************************************************************)
(* The coordinator of the incident stage (incidents/__init__.py) and its   *)
(* scheduler of background syncs (incidents/sync.py): initialize and       *)
(* shutdown under the lifecycle lock, turns that trigger a sync without    *)
(* it, and the sync threads, which read the service's fields as they run.  *)
(*                                                                         *)
(* A configuration stands for the pair of incidents config and Hermes      *)
(* home; the database path derives from it.  The prefetch cache is         *)
(* ContextCache, the index behind it a version number: a sync that changes *)
(* rows and a change of database both make a new version.                  *)
(***************************************************************************)
EXTENDS Integers, FiniteSets

CONSTANTS
  Configs,          \* configurations the user may put on disk
  NoConfig,         \* before the first initialize
  Keys,             \* queries of the prefetch cache
  ConcurrentTurns,  \* may a turn trigger a sync while initialize or shutdown runs?
  MaxOpens,         \* bound: stores opened and schedulers created
  MaxEdits,         \* bound: edits of the configuration
  MaxVersion        \* bound: versions of the index

ASSUME ServiceAssumption ==
  /\ NoConfig \notin Configs
  /\ ConcurrentTurns \in BOOLEAN
  /\ MaxOpens \in Nat \ {0}
  /\ MaxEdits \in Nat
  /\ MaxVersion \in Nat \ {0}

Ids == 1..MaxOpens
None == 0

VARIABLES
  disk,      \* the configuration load_config would read
  edits,     \* edits of it so far
  config,    \* self._config and self._hermes_home
  client,    \* is there a self._client?
  store,     \* self._store
  sync,      \* self._sync
  initialized,
  stores,    \* every IncidentStore ever opened: its database and its state
  syncs,     \* every SyncScheduler ever created, with its thread
  op,        \* the initialize or shutdown holding the lifecycle lock
  turn,      \* the scheduler a turn is about to trigger
  index, floor, blocks, closed   \* the prefetch cache

cacheVars == <<index, floor, blocks, closed>>
fields == <<config, client, store, sync, initialized>>
serviceVars == <<disk, edits, fields, stores, syncs, op, turn, cacheVars>>

Cache == INSTANCE ContextCache

NewStore == [state |-> "new", config |-> NoConfig]

\* A scheduler with its thread: `wrote` is whether the thread's run changed
\* rows, `changed` what _run_ingest will return.
NewScheduler == [created |-> FALSE, pc |-> "dead",
                 store |-> None, wrote |-> FALSE, changed |-> FALSE]

IdleOp == [pc |-> "idle", old |-> NoConfig]

OpGoes(pc) == op' = IF pc = "idle" THEN IdleOp ELSE [op EXCEPT !.pc = pc]

Running(s) == s # None /\ syncs[s].pc # "dead"

StoreOpen(s) == s # None /\ stores[s].state = "open"

-----------------------------------------------------------------------------
(* SyncScheduler.                                                          *)

\* trigger: coalesced into the thread in flight; debounced, if min_interval
\* seconds have not gone by; or a new thread.
Triggered(s) ==
  \/ syncs' = syncs
  \/ ~Running(s) /\ syncs' = [syncs EXCEPT ![s].pc = "start"]

-----------------------------------------------------------------------------
(* _sync_once on a scheduler's thread.                                     *)

\* What the thread of a scheduler becomes; nothing is left of one that ended.
Thread(s, pc) ==
  IF pc = "dead" THEN [NewScheduler EXCEPT !.created = TRUE] ELSE [syncs[s] EXCEPT !.pc = pc]

SyncGoes(s, pc) == syncs' = [syncs EXCEPT ![s] = Thread(s, pc)]

SyncCheck(s) ==
  /\ syncs[s].pc = "start"
  /\ SyncGoes(s, IF store # None /\ client THEN "call" ELSE "dead")
  /\ UNCHANGED <<disk, edits, fields, stores, op, turn, cacheVars>>

\* The fields are read again for the call of run_sync; without a store or a
\* client it raises.
SyncCall(s) ==
  /\ syncs[s].pc = "call"
  /\ syncs' = IF store # None /\ client
              THEN [syncs EXCEPT ![s].pc = "ingest", ![s].store = store]
              ELSE [syncs EXCEPT ![s] = Thread(s, "dead")]
  /\ UNCHANGED <<disk, edits, fields, stores, op, turn, cacheVars>>

\* A page changes rows of the store the run was called with.
SyncPage(s) ==
  /\ syncs[s].pc = "ingest"
  /\ StoreOpen(syncs[s].store)
  /\ index < MaxVersion
  /\ Cache!Change
  /\ syncs' = [syncs EXCEPT ![s].wrote = TRUE]
  /\ UNCHANGED <<disk, edits, fields, stores, op, turn>>

\* A search fails, or the store is closed: run_sync raises, the scheduler logs
\* it.  The pages committed before stay.
SyncFails(s) ==
  /\ syncs[s].pc = "ingest"
  /\ SyncGoes(s, "dead")
  /\ UNCHANGED <<disk, edits, fields, stores, op, turn, cacheVars>>

SyncReturns(s) ==
  /\ syncs[s].pc = "ingest"
  /\ StoreOpen(syncs[s].store)
  /\ syncs' = [syncs EXCEPT ![s].pc = "prune", ![s].changed = syncs[s].wrote]
  /\ UNCHANGED <<disk, edits, fields, stores, op, turn, cacheVars>>

\* Mutant: only ingested rows count as a change.
ChangedByIngestOnly(s, pruned) == syncs[s].changed

Changed(s, pruned) == syncs[s].changed \/ pruned

\* _apply_retention, on the store the service has now; a failure counts as
\* nothing pruned.
SyncPrune(s) ==
  /\ syncs[s].pc = "prune"
  /\ \E pruned \in BOOLEAN :
       /\ pruned => StoreOpen(store) /\ index < MaxVersion
       /\ IF pruned THEN Cache!Change ELSE UNCHANGED cacheVars
       /\ SyncGoes(s, IF Changed(s, pruned) THEN "clear" ELSE "dead")
  /\ UNCHANGED <<disk, edits, fields, stores, op, turn>>

SyncClear(s) ==
  /\ syncs[s].pc = "clear"
  /\ Cache!Invalidate
  /\ SyncGoes(s, "dead")
  /\ UNCHANGED <<disk, edits, fields, stores, op, turn>>

-----------------------------------------------------------------------------
(* initialize, and ensure_initialized when there is something to do.       *)

FreshSyncs == {s \in Ids : ~syncs[s].created}
FreshStores == {s \in Ids : stores[s].state = "new"}
Lowest(S) == CHOOSE s \in S : \A t \in S : s <= t

\* _reload_config: the live store and scheduler are reused for the same
\* configuration; otherwise a sync in flight is settled first.
Initialize ==
  LET reuse == initialized /\ store # None /\ disk = config
  IN /\ op.pc = "idle"
     /\ ConcurrentTurns \/ turn = None
     /\ reuse \/ FreshSyncs # {}
     /\ config' = disk
     /\ op' = [pc |-> IF reuse THEN "client" ELSE IF sync # None THEN "settle" ELSE "close",
               old |-> config]
     /\ UNCHANGED <<disk, edits, client, store, sync, initialized, stores, syncs, turn, cacheVars>>

\* Reuse: the client is rebuilt, with or without credentials.
RebuildClient ==
  /\ op.pc = "client"
  /\ client' \in BOOLEAN
  /\ OpGoes("trigger")
  /\ UNCHANGED <<disk, edits, config, store, sync, initialized, stores, syncs, turn, cacheVars>>

\* Mutant: the deferred configuration is kept.
DeferredKeepsConfig == config

DeferredConfig == op.old

\* Mutant: the check for a sync in flight is missing.
SettleWithoutCheck ==
  /\ op.pc = "settle"
  /\ OpGoes("close")
  /\ UNCHANGED <<disk, edits, fields, stores, syncs, turn, cacheVars>>

\* After the join timed out or the thread ended: a sync still running defers
\* the change of configuration.
Settle ==
  /\ op.pc = "settle"
  /\ IF Running(sync)
     THEN config' = DeferredConfig /\ OpGoes("idle")
     ELSE config' = config /\ OpGoes("close")
  /\ UNCHANGED <<disk, edits, client, store, sync, initialized, stores, syncs, turn, cacheVars>>

Closed == IF store = None THEN stores ELSE [stores EXCEPT ![store].state = "closed"]

CloseStore ==
  /\ op.pc = "close"
  /\ stores' = Closed
  /\ OpGoes("open")
  /\ UNCHANGED <<disk, edits, fields, syncs, turn, cacheVars>>

\* What builds read is another index if the database is not the last one.
SwitchesIndex ==
  \E s \in Ids : /\ stores[s].state # "new" /\ stores[s].config # config
                 /\ \A t \in Ids : stores[t].state # "new" => t <= s

\* The new store, or none if it cannot be opened.
OpenStore ==
  /\ op.pc = "open"
  /\ \/ /\ store' = Lowest(FreshStores)
        /\ stores' = [stores EXCEPT ![store'] = [state |-> "open", config |-> config]]
        /\ IF SwitchesIndex THEN Cache!Change ELSE UNCHANGED cacheVars
     \/ /\ store' = None
        /\ UNCHANGED <<stores, cacheVars>>
  /\ OpGoes("install")
  /\ UNCHANGED <<disk, edits, config, client, sync, initialized, syncs, turn>>

\* Mutant: the cache a shutdown closed stays closed.
RevivedNever == UNCHANGED cacheVars

\* reopen is a no-op on an open cache.
Revived == IF closed THEN Cache!Reopen ELSE UNCHANGED cacheVars

Install ==
  /\ op.pc = "install"
  /\ Revived
  /\ client' \in BOOLEAN
  /\ sync' = Lowest(FreshSyncs)
  /\ syncs' = [syncs EXCEPT ![sync'] = [NewScheduler EXCEPT !.created = TRUE]]
  /\ initialized' = TRUE
  /\ OpGoes("trigger")
  /\ UNCHANGED <<disk, edits, config, store, stores, turn>>

\* _maybe_trigger_initial_sync: not without a client and a store, and not for
\* cron jobs and subagents.
InitialSync ==
  /\ op.pc = "trigger"
  /\ \/ client /\ store # None /\ Triggered(sync)
     \/ UNCHANGED syncs
  /\ OpGoes("idle")
  /\ UNCHANGED <<disk, edits, fields, stores, turn, cacheVars>>

-----------------------------------------------------------------------------
(* shutdown.                                                               *)

Shutdown ==
  /\ op.pc = "idle"
  /\ ConcurrentTurns \/ turn = None
  /\ OpGoes("stop")
  /\ UNCHANGED <<disk, edits, fields, stores, syncs, turn, cacheVars>>

\* Mutant: the check for a sync in flight is missing.
StopWithoutCheck ==
  /\ op.pc = "stop"
  /\ OpGoes("shut")
  /\ UNCHANGED <<disk, edits, fields, stores, syncs, turn, cacheVars>>

\* A sync that outlives the join defers the shutdown, but not the reset at its
\* end, which looks again.
StopSync ==
  /\ op.pc = "stop"
  /\ OpGoes(IF Running(sync) THEN "drop" ELSE "shut")
  /\ UNCHANGED <<disk, edits, fields, stores, syncs, turn, cacheVars>>

ShutCache ==
  /\ op.pc = "shut"
  /\ Cache!Close
  /\ stores' = Closed
  /\ OpGoes("drop")
  /\ UNCHANGED <<disk, edits, fields, syncs, turn>>

DropFields ==
  /\ op.pc = "drop"
  /\ IF Running(sync) THEN UNCHANGED fields
     ELSE /\ store' = None
          /\ client' = FALSE
          /\ initialized' = FALSE
          /\ UNCHANGED <<config, sync>>
  /\ OpGoes("idle")
  /\ UNCHANGED <<disk, edits, stores, syncs, turn, cacheVars>>

-----------------------------------------------------------------------------
(* Turns, the user, and the cache's builds.                                *)

\* trigger_sync reads the scheduler and triggers it, without the lock.
TurnBegins ==
  /\ turn = None
  /\ sync # None
  /\ ConcurrentTurns \/ op.pc = "idle"
  /\ turn' = sync
  /\ UNCHANGED <<disk, edits, fields, stores, syncs, op, cacheVars>>

TurnTriggers ==
  /\ turn # None
  /\ Triggered(turn)
  /\ turn' = None
  /\ UNCHANGED <<disk, edits, fields, stores, op, cacheVars>>

EditConfig(c) ==
  /\ c # disk
  /\ edits < MaxEdits
  /\ edits' = edits + 1
  /\ disk' = c
  /\ UNCHANGED <<fields, stores, syncs, op, turn, cacheVars>>

\* A build reads the service's store.
BuildBlock(k) ==
  /\ StoreOpen(store)
  /\ Cache!Warm(k)
  /\ UNCHANGED <<disk, edits, fields, stores, syncs, op, turn>>

SyncThread(s) ==
  \/ SyncCheck(s)
  \/ SyncCall(s)
  \/ SyncPage(s)
  \/ SyncFails(s)
  \/ SyncReturns(s)
  \/ SyncPrune(s)
  \/ SyncClear(s)

Lifecycle ==
  \/ Initialize \/ RebuildClient \/ Settle \/ CloseStore \/ OpenStore \/ Install \/ InitialSync
  \/ Shutdown \/ StopSync \/ ShutCache \/ DropFields

ServiceInit ==
  /\ disk \in Configs
  /\ edits = 0
  /\ config = NoConfig
  /\ client = FALSE
  /\ store = None
  /\ sync = None
  /\ initialized = FALSE
  /\ stores = [s \in Ids |-> NewStore]
  /\ syncs = [s \in Ids |-> NewScheduler]
  /\ op = IdleOp
  /\ turn = None
  /\ Cache!ContextInit

ServiceNext ==
  \/ Lifecycle
  \/ \E s \in Ids : SyncThread(s)
  \/ TurnBegins
  \/ TurnTriggers
  \/ \E c \in Configs : EditConfig(c)
  \/ \E k \in Keys : BuildBlock(k)

ServiceSpec == ServiceInit /\ [][ServiceNext]_serviceVars

-----------------------------------------------------------------------------
(* Properties.                                                             *)

\* Types; and the cache of an initialized service is open: a shutdown that was
\* followed by initialize leaves context injection alive.
ServiceTypeOK ==
  /\ disk \in Configs
  /\ edits \in 0..MaxEdits
  /\ config \in Configs \cup {NoConfig}
  /\ client \in BOOLEAN
  /\ store \in Ids \cup {None}
  /\ sync \in Ids \cup {None}
  /\ initialized \in BOOLEAN
  /\ stores \in [Ids -> [state : {"new", "open", "closed"}, config : Configs \cup {NoConfig}]]
  /\ syncs \in [Ids -> [created : BOOLEAN,
                        pc : {"dead", "start", "call", "ingest", "prune", "clear"},
                        store : Ids \cup {None}, wrote : BOOLEAN, changed : BOOLEAN]]
  /\ op \in [pc : {"idle", "client", "settle", "close", "open", "install", "trigger",
                   "stop", "shut", "drop"},
             old : Configs \cup {NoConfig}]
  /\ turn \in Ids \cup {None}
  /\ index \in Nat /\ floor \in 1..index
  /\ \A b \in blocks : b.key \in Keys /\ b.value \in floor..index
  /\ closed \in BOOLEAN
  /\ initialized /\ op.pc = "idle" => ~closed

\* Docs of initialize: the store is not closed underneath an in-flight sync.
\* The store a sync is ingesting into is open, whatever sessions start, end or
\* reconfigure in the meantime.
SyncStoreOpen == \A s \in Ids : syncs[s].pc = "ingest" => StoreOpen(syncs[s].store)

\* One sync at a time, over all schedulers the service had.
OneSync == Cardinality({s \in Ids : Running(s)}) <= 1

\* Between lifecycle operations the store an initialized service refers to is
\* open and holds the database of the service's configuration, also after a
\* change of configuration or a shutdown was deferred.
Ready ==
  initialized /\ op.pc = "idle" /\ store # None =>
    StoreOpen(store) /\ stores[store].config = config

\* A sync that ran to its end and changed the index, by ingest or by pruning,
\* leaves no block behind that was built before its last change.
SyncInvalidates ==
  [][ \A s \in Ids :
        /\ syncs[s].pc \in {"prune", "clear"}
        /\ syncs'[s].pc = "dead"
        /\ syncs[s].wrote \/ index' # index
        => floor' = index' ]_serviceVars

\* Docs of _sync_once: ingest, then invalidate the cache on change.  With no
\* sync and no lifecycle operation under way, the blocks in the cache are
\* those a build would make now.
CacheFollowsIndex ==
  op.pc = "idle" /\ (\A s \in Ids : ~Running(s)) => \A b \in blocks : b.value = index

\* Docs of initialize: a re-init must never close the store underneath an
\* in-flight background sync.
ReinitSparesSync ==
  [][ op.pc = "close" /\ stores' # stores
      => \A s \in Ids : syncs[s].pc = "ingest" => syncs[s].store # store ]_serviceVars

=============================================================================
