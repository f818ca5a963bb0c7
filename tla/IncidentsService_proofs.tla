----------------------- MODULE IncidentsService_proofs -----------------------
(***************************************************************************)
(* Proofs about the incidents service, for any configurations, queries and *)
(* numbers of stores, schedulers, edits and index versions.  The typing    *)
(* and the invalidation at the end of a sync hold whatever turns do.  The  *)
(* rest is proved, as it is checked, for turns that never overlap an       *)
(* initialize or a shutdown.                                               *)
(*                                                                         *)
(* The argument: only the service's own scheduler can have a thread, and   *)
(* from the check that it has none to the end of the operation none can    *)
(* start, because every trigger waits.                                     *)
(***************************************************************************)
EXTENDS IncidentsService, FiniteSetTheorems, TLAPS

-----------------------------------------------------------------------------
(* The inductive invariants.                                               *)

StoreShape == [state : {"new", "open", "closed"}, config : Configs \cup {NoConfig}]

SchedulerShape ==
  [created : BOOLEAN, pc : {"dead", "start", "call", "ingest", "prune", "clear"},
   store : Ids \cup {None}, wrote : BOOLEAN, changed : BOOLEAN]

OpShape ==
  [pc : {"idle", "client", "settle", "close", "open", "install", "trigger",
         "stop", "shut", "drop"},
   old : Configs \cup {NoConfig}]

FieldsTyped ==
  /\ disk \in Configs
  /\ edits \in 0..MaxEdits
  /\ config \in Configs \cup {NoConfig}
  /\ client \in BOOLEAN
  /\ store \in Ids \cup {None}
  /\ sync \in Ids \cup {None}
  /\ initialized \in BOOLEAN
  /\ stores \in [Ids -> StoreShape]
  /\ syncs \in [Ids -> SchedulerShape]
  /\ op \in OpShape
  /\ turn \in Ids \cup {None}

CacheTyped ==
  /\ index \in Nat
  /\ floor \in 1..index
  /\ \A b \in blocks : b.key \in Keys /\ b.value \in floor..index
  /\ closed \in BOOLEAN

\* An initialize that replaces the store has a scheduler left to create, and
\* every store but the one it has just opened came with a scheduler: neither
\* runs out inside the operation.  The service's store was opened.
Supplied ==
  /\ op.pc \in {"settle", "close", "open", "install"} => \E s \in Ids : ~syncs[s].created
  /\ \A s \in Ids : stores[s].state # "new" =>
       \/ syncs[s].created
       \/ op.pc = "install" /\ \A t \in 1..(s - 1) : syncs[t].created
  /\ store # None => stores[store].state # "new"

\* A thread belongs to a scheduler that was created and returns that rows
\* changed if it wrote some; an initialized service has a scheduler.
Threads ==
  /\ initialized \/ op.pc \in {"client", "trigger"} => sync # None
  /\ sync # None => syncs[sync].created
  /\ turn # None => syncs[turn].created
  /\ \A s \in Ids :
       /\ syncs[s].pc # "dead" => syncs[s].created
       /\ syncs[s].pc \in {"prune", "clear"} => syncs[s].changed = syncs[s].wrote

Base == FieldsTyped /\ CacheTyped /\ Supplied /\ Threads

\* A turn triggers between operations only, and the service's own scheduler.
TurnsWait == turn # None => turn = sync /\ op.pc = "idle"

OnlyOwnRuns == \A s \in Ids : Running(s) => s = sync

NothingRuns == \A s \in Ids : ~Running(s)

\* The operations that close the store or replace the scheduler have found
\* that nothing runs.
Settled == op.pc \in {"close", "open", "install", "shut"} => NothingRuns

\* The service's store is open, except from its close to its replacement.
LiveStore ==
  store # None => \/ StoreOpen(store)
                  \/ op.pc \in {"open", "drop"} /\ NothingRuns

\* It holds the database of the configuration, or of the configuration a
\* deferred change will go back to.
RightDatabase ==
  store # None =>
    /\ op.pc \notin {"settle", "close", "open"} => stores[store].config = config
    /\ op.pc = "settle" => stores[store].config = op.old

\* The cache is closed from a shutdown that goes through to the next install.
ClosedOff ==
  closed => \/ ~initialized
            \/ op.pc = "drop" /\ NothingRuns

\* The store of a run that ingests is the service's.
OwnStore == \A s \in Ids : syncs[s].pc = "ingest" => store # None /\ syncs[s].store = store

Serial ==
  /\ TurnsWait /\ OnlyOwnRuns /\ Settled /\ LiveStore /\ RightDatabase
  /\ ClosedOff /\ OwnStore

-----------------------------------------------------------------------------
(* Lemmas about the operators.                                             *)

\* The next id Initialize takes for a store or a scheduler exists as long as
\* one is left.
LEMMA LowestOf ==
  ASSUME NEW S \in SUBSET Ids, S # {}
  PROVE  Lowest(S) \in S /\ \A t \in S : Lowest(S) <= t
<1>1. S \subseteq Nat
  BY ServiceAssumption DEF Ids
<1>2. PICK s \in S : \A t \in S : ~ (<<t, s>> \in OpToRel(<, Nat))
  BY <1>1, NatLessThanWellFounded, WFMin
<1>3. \A i, j \in Nat : i < j => <<i, j>> \in OpToRel(<, Nat)
  BY DEF OpToRel
<1>4. s \in Nat /\ \A t \in S : t \in Nat
  BY <1>1
<1>5. \A t \in S : ~(t < s)
  BY ONLY <1>2, <1>3, <1>4
<1>6. \A t \in S : s <= t
  BY <1>4, <1>5
<1>7. QED
  BY <1>6 DEF Lowest

\* An initialize that replaces the store takes an id that was never used.
LEMMA NextStore ==
  ASSUME Base, op.pc = "open"
  PROVE  LET n == Lowest(FreshStores)
         IN  /\ n \in Ids
             /\ stores[n].state = "new"
             /\ \A t \in 1..(n - 1) : stores[t].state # "new"
<1> DEFINE n == Lowest(FreshStores)
<1>1. PICK f \in Ids : ~syncs[f].created
  BY DEF Base, Supplied
<1>2. f \in FreshStores
  BY <1>1 DEF Base, Supplied, FreshStores
<1>3. n \in FreshStores /\ \A t \in FreshStores : n <= t
  BY <1>2, LowestOf DEF FreshStores
<1> HIDE DEF n
<1>4. n \in Ids /\ stores[n].state = "new"
  BY <1>3 DEF FreshStores
<1>5. \A t \in 1..(n - 1) : t \in Ids /\ ~(n <= t)
  BY <1>4, ServiceAssumption DEF Ids
<1>6. \A t \in 1..(n - 1) : stores[t].state # "new"
  BY <1>3, <1>5 DEF FreshStores
<1> QED
  BY <1>4, <1>6 DEF n

LEMMA NextScheduler ==
  ASSUME Base, op.pc = "install"
  PROVE  LET n == Lowest(FreshSyncs)
         IN  /\ n \in Ids
             /\ ~syncs[n].created
             /\ \A t \in Ids : ~syncs[t].created => n <= t
<1> DEFINE n == Lowest(FreshSyncs)
<1>1. FreshSyncs # {}
  BY DEF Base, Supplied, FreshSyncs
<1>2. n \in FreshSyncs /\ \A t \in FreshSyncs : n <= t
  BY <1>1, LowestOf DEF FreshSyncs
<1> QED
  BY <1>2 DEF FreshSyncs

\* A trigger leaves the schedulers alone or starts the thread of one.
LEMMA TriggeredThreads ==
  ASSUME FieldsTyped, Threads, NEW s \in Ids, syncs[s].created, Triggered(s)
  PROVE  /\ syncs' \in [Ids -> SchedulerShape]
         /\ \A t \in Ids :
              /\ syncs'[t].created = syncs[t].created
              /\ syncs'[t].pc # "dead" => syncs'[t].created
              /\ syncs'[t].pc \in {"prune", "clear"} => syncs'[t].changed = syncs'[t].wrote
              /\ syncs'[t] # syncs[t] => t = s /\ syncs[t].pc = "dead" /\ syncs'[t].pc = "start"
<1>1. CASE syncs' = syncs
  BY <1>1 DEF FieldsTyped, Threads, SchedulerShape
<1>2. CASE ~Running(s) /\ syncs' = [syncs EXCEPT ![s].pc = "start"]
  <2>1. s # 0
    BY ServiceAssumption DEF Ids
  <2>2. syncs[s].pc = "dead"
    BY <1>2, <2>1 DEF Running, None
  <2>3. \A t \in Ids : syncs'[t] = IF t = s THEN [syncs[t] EXCEPT !.pc = "start"] ELSE syncs[t]
    BY <1>2 DEF FieldsTyped
  <2> QED
    BY <1>2, <2>2, <2>3 DEF FieldsTyped, Threads, SchedulerShape
<1> QED
  BY <1>1, <1>2 DEF Triggered

\* Where the thread of a scheduler goes next, and what it keeps.
LEMMA ThreadGoes ==
  ASSUME FieldsTyped, NEW s \in Ids, syncs[s].created,
         NEW pc \in {"dead", "start", "call", "ingest", "prune", "clear"}, SyncGoes(s, pc)
  PROVE  /\ syncs' \in [Ids -> SchedulerShape]
         /\ \A t \in Ids : t # s => syncs'[t] = syncs[t]
         /\ syncs'[s].created
         /\ syncs'[s].pc = pc
         /\ pc # "dead" => /\ syncs'[s].store = syncs[s].store
                           /\ syncs'[s].wrote = syncs[s].wrote
                           /\ syncs'[s].changed = syncs[s].changed
<1>1. \A t \in Ids : syncs'[t] = IF t = s THEN Thread(s, pc) ELSE syncs[t]
  BY DEF FieldsTyped, SyncGoes
<1>2. syncs[s] \in SchedulerShape
  BY DEF FieldsTyped
<1>3. Thread(s, pc) \in SchedulerShape /\ Thread(s, pc).pc = pc /\ Thread(s, pc).created
  BY <1>2 DEF Thread, NewScheduler, SchedulerShape
<1>4. pc # "dead" => Thread(s, pc) = [syncs[s] EXCEPT !.pc = pc]
  BY DEF Thread
<1> QED
  BY <1>1, <1>2, <1>3, <1>4 DEF FieldsTyped, SyncGoes, SchedulerShape

\* A step of a sync thread changes its own scheduler only; the store a run
\* ingests into is the one the service had when it was called.
LEMMA ThreadSteps ==
  ASSUME Base, NEW s \in Ids, SyncThread(s)
  PROVE  /\ UNCHANGED <<disk, edits, fields, stores, op, turn>>
         /\ syncs[s].pc # "dead"
         /\ syncs' \in [Ids -> SchedulerShape]
         /\ \A t \in Ids : t # s => syncs'[t] = syncs[t]
         /\ syncs'[s].created
         /\ syncs'[s].pc \in {"prune", "clear"} => syncs'[s].changed = syncs'[s].wrote
         /\ syncs'[s].pc = "ingest" =>
              \/ syncs[s].pc = "ingest" /\ syncs'[s].store = syncs[s].store
              \/ store # None /\ syncs'[s].store = store
<1> DEFINE Goal ==
         /\ UNCHANGED <<disk, edits, fields, stores, op, turn>>
         /\ syncs[s].pc # "dead"
         /\ syncs' \in [Ids -> SchedulerShape]
         /\ \A t \in Ids : t # s => syncs'[t] = syncs[t]
         /\ syncs'[s].created
         /\ syncs'[s].pc \in {"prune", "clear"} => syncs'[s].changed = syncs'[s].wrote
         /\ syncs'[s].pc = "ingest" =>
              \/ syncs[s].pc = "ingest" /\ syncs'[s].store = syncs[s].store
              \/ store # None /\ syncs'[s].store = store
<1>0. /\ FieldsTyped
      /\ syncs[s] \in SchedulerShape
      /\ syncs[s].pc # "dead" => syncs[s].created
      /\ syncs[s].pc \in {"prune", "clear"} => syncs[s].changed = syncs[s].wrote
  BY DEF Base, FieldsTyped, Threads
<1>1. ASSUME SyncCheck(s) PROVE Goal
  BY <1>0, <1>1, ThreadGoes DEF SyncCheck
<1>2. ASSUME SyncCall(s) PROVE Goal
  <2>1. CASE store # None /\ client
    <3>1. \A t \in Ids : syncs'[t] = IF t = s THEN [syncs[s] EXCEPT !.pc = "ingest", !.store = store]
                                     ELSE syncs[t]
      BY <1>2, <2>1 DEF SyncCall, Base, FieldsTyped
    <3>2. syncs' \in [Ids -> SchedulerShape]
      BY <1>0, <1>2, <2>1, <3>1 DEF SyncCall, Base, FieldsTyped, SchedulerShape
    <3> QED
      BY <1>0, <1>2, <2>1, <3>1, <3>2 DEF SyncCall, SchedulerShape
  <2>2. CASE ~(store # None /\ client)
    <3>1. SyncGoes(s, "dead")
      BY <1>2, <2>2 DEF SyncCall, SyncGoes
    <3> QED
      BY <1>0, <1>2, <3>1, ThreadGoes DEF SyncCall
  <2> QED
    BY <2>1, <2>2
<1>3. ASSUME SyncPage(s) PROVE Goal
  <2>1. \A t \in Ids : syncs'[t] = IF t = s THEN [syncs[s] EXCEPT !.wrote = TRUE] ELSE syncs[t]
    BY <1>3 DEF SyncPage, Base, FieldsTyped
  <2>2. syncs' \in [Ids -> SchedulerShape]
    BY <1>0, <1>3, <2>1 DEF SyncPage, Base, FieldsTyped, SchedulerShape
  <2> QED
    BY <1>0, <1>3, <2>1, <2>2 DEF SyncPage, SchedulerShape
<1>4. ASSUME SyncFails(s) PROVE Goal
  BY <1>0, <1>4, ThreadGoes DEF SyncFails
<1>5. ASSUME SyncReturns(s) PROVE Goal
  <2>1. \A t \in Ids : syncs'[t] = IF t = s
                                   THEN [syncs[s] EXCEPT !.pc = "prune", !.changed = syncs[s].wrote]
                                   ELSE syncs[t]
    BY <1>5 DEF SyncReturns, Base, FieldsTyped
  <2>2. syncs' \in [Ids -> SchedulerShape]
    BY <1>0, <1>5, <2>1 DEF SyncReturns, Base, FieldsTyped, SchedulerShape
  <2> QED
    BY <1>0, <1>5, <2>1, <2>2 DEF SyncReturns, SchedulerShape
<1>6. ASSUME SyncPrune(s) PROVE Goal
  <2>1. PICK pruned \in BOOLEAN : SyncGoes(s, IF Changed(s, pruned) THEN "clear" ELSE "dead")
    BY <1>6 DEF SyncPrune
  <2> QED
    BY <1>0, <1>6, <2>1, ThreadGoes DEF SyncPrune
<1>7. ASSUME SyncClear(s) PROVE Goal
  BY <1>0, <1>7, ThreadGoes DEF SyncClear
<1> QED
  BY <1>1, <1>2, <1>3, <1>4, <1>5, <1>6, <1>7 DEF SyncThread

-----------------------------------------------------------------------------
(* The types and the supply of stores and schedulers.                      *)

\* Whatever the service does to the prefetch cache is an operation of the
\* cache: it is changed, warmed, invalidated, closed or reopened.
LEMMA ServiceCacheSteps ==
  [ServiceNext]_serviceVars => [Cache!ContextNext]_(Cache!contextVars)
<1> DEFINE Goal == [Cache!ContextNext]_(Cache!contextVars)
<1> USE DEF Cache!ContextNext, Cache!contextVars, cacheVars
<1>1. ASSUME Initialize PROVE Goal
  BY <1>1 DEF Initialize
<1>2. ASSUME RebuildClient PROVE Goal
  BY <1>2 DEF RebuildClient
<1>3. ASSUME Settle PROVE Goal
  BY <1>3 DEF Settle
<1>4. ASSUME CloseStore PROVE Goal
  BY <1>4 DEF CloseStore
<1>5. ASSUME OpenStore PROVE Goal
  BY <1>5 DEF OpenStore
<1>6. ASSUME Install PROVE Goal
  BY <1>6 DEF Install, Revived
<1>7. ASSUME InitialSync PROVE Goal
  BY <1>7 DEF InitialSync
<1>8. ASSUME Shutdown PROVE Goal
  BY <1>8 DEF Shutdown
<1>9. ASSUME StopSync PROVE Goal
  BY <1>9 DEF StopSync
<1>10. ASSUME ShutCache PROVE Goal
  BY <1>10 DEF ShutCache
<1>11. ASSUME DropFields PROVE Goal
  BY <1>11 DEF DropFields
<1>12. ASSUME NEW s \in Ids, SyncThread(s) PROVE Goal
  BY <1>12 DEF SyncThread, SyncCheck, SyncCall, SyncPage, SyncFails, SyncReturns, SyncPrune, SyncClear
<1>13. ASSUME TurnBegins PROVE Goal
  BY <1>13 DEF TurnBegins
<1>14. ASSUME TurnTriggers PROVE Goal
  BY <1>14 DEF TurnTriggers
<1>15. ASSUME NEW c \in Configs, EditConfig(c) PROVE Goal
  BY <1>15 DEF EditConfig
<1>16. ASSUME NEW k \in Keys, BuildBlock(k) PROVE Goal
  BY <1>16 DEF BuildBlock
<1>17. ASSUME UNCHANGED serviceVars PROVE Goal
  BY <1>17 DEF serviceVars
<1> QED
  BY <1>1, <1>2, <1>3, <1>4, <1>5, <1>6, <1>7, <1>8, <1>9, <1>10, <1>11, <1>12, <1>13, <1>14, <1>15, <1>16, <1>17
  DEF ServiceNext, Lifecycle

\* The cache's operations keep its types: no block is older than the last
\* invalidation or newer than the index.
LEMMA CacheTypedInductive ==
  ASSUME CacheTyped, [Cache!ContextNext]_(Cache!contextVars)
  PROVE  CacheTyped'
<1> USE DEF CacheTyped
<1>1. ASSUME Cache!Change PROVE CacheTyped'
  BY <1>1 DEF Cache!Change
<1>2. ASSUME NEW k \in Keys, Cache!Warm(k) PROVE CacheTyped'
  <2>1. PICK v \in floor..index :
          blocks' \in SUBSET ({b \in blocks : b.key # k} \cup {[key |-> k, value |-> v]})
    BY <1>2 DEF Cache!Warm
  <2>2. ASSUME NEW b \in blocks' PROVE b.key \in Keys /\ b.value \in floor..index
    BY <2>1
  <2> QED
    BY <1>2, <2>2 DEF Cache!Warm
<1>3. ASSUME Cache!Invalidate \/ Cache!Close \/ Cache!Reopen PROVE CacheTyped'
  <2>1. blocks' = {} /\ floor' = index /\ index' = index /\ closed' \in BOOLEAN
    BY <1>3 DEF Cache!Invalidate, Cache!Close, Cache!Reopen, Cache!Invalidated
  <2> QED
    BY <2>1
<1>4. ASSUME UNCHANGED Cache!contextVars PROVE CacheTyped'
  BY <1>4 DEF Cache!contextVars
<1> QED
  BY <1>1, <1>2, <1>3, <1>4 DEF Cache!ContextNext

\* The fields keep their types.
LEMMA FieldsInductive ==
  ASSUME Base, [ServiceNext]_serviceVars
  PROVE  FieldsTyped'
<1> USE ServiceAssumption DEF Base, FieldsTyped, fields, None
<1>1. ASSUME Initialize PROVE FieldsTyped'
  BY <1>1 DEF Initialize, OpShape, StoreShape, IdleOp
<1>2. ASSUME RebuildClient PROVE FieldsTyped'
  BY <1>2 DEF RebuildClient, OpShape, StoreShape, OpGoes, IdleOp
<1>3. ASSUME Settle PROVE FieldsTyped'
  BY <1>3 DEF Settle, OpShape, StoreShape, OpGoes, IdleOp, DeferredConfig
<1>4. ASSUME CloseStore PROVE FieldsTyped'
  BY <1>4 DEF CloseStore, OpShape, StoreShape, OpGoes, Closed
<1>5. ASSUME OpenStore PROVE FieldsTyped'
  BY <1>5, NextStore DEF OpenStore, OpShape, StoreShape, OpGoes
<1>6. ASSUME Install PROVE FieldsTyped'
  BY <1>6, NextScheduler DEF Install, OpShape, SchedulerShape, NewScheduler, OpGoes
<1>7. ASSUME InitialSync PROVE FieldsTyped'
  BY <1>7, TriggeredThreads DEF InitialSync, Threads, OpShape, OpGoes, IdleOp
<1>8. ASSUME Shutdown PROVE FieldsTyped'
  BY <1>8 DEF Shutdown, OpShape, StoreShape, OpGoes
<1>9. ASSUME StopSync PROVE FieldsTyped'
  BY <1>9 DEF StopSync, OpShape, StoreShape, OpGoes
<1>10. ASSUME ShutCache PROVE FieldsTyped'
  BY <1>10 DEF ShutCache, OpShape, StoreShape, OpGoes, Closed
<1>11. ASSUME DropFields PROVE FieldsTyped'
  BY <1>11 DEF DropFields, OpShape, StoreShape, OpGoes, IdleOp
<1>12. ASSUME NEW s \in Ids, SyncThread(s) PROVE FieldsTyped'
  BY <1>12, ThreadSteps
<1>13. ASSUME TurnBegins PROVE FieldsTyped'
  BY <1>13 DEF TurnBegins
<1>14. ASSUME TurnTriggers PROVE FieldsTyped'
  BY <1>14, TriggeredThreads DEF TurnTriggers, Threads
<1>15. ASSUME NEW c \in Configs, EditConfig(c) PROVE FieldsTyped'
  BY <1>15 DEF EditConfig
<1>16. ASSUME NEW k \in Keys, BuildBlock(k) PROVE FieldsTyped'
  BY <1>16 DEF BuildBlock
<1>17. ASSUME UNCHANGED serviceVars PROVE FieldsTyped'
  BY <1>17 DEF serviceVars
<1> QED
  BY <1>1, <1>2, <1>3, <1>4, <1>5, <1>6, <1>7, <1>8, <1>9, <1>10, <1>11, <1>12, <1>13, <1>14, <1>15, <1>16, <1>17
  DEF ServiceNext, Lifecycle

\* Schedulers and stores do not run out inside an operation.
LEMMA SuppliedInductive ==
  ASSUME Base, [ServiceNext]_serviceVars
  PROVE  Supplied'
<1> USE DEF Base, Supplied, fields
<1>1. ASSUME Initialize PROVE Supplied'
  BY <1>1 DEF Initialize, FreshSyncs
<1>2. ASSUME RebuildClient PROVE Supplied'
  BY <1>2 DEF RebuildClient, FieldsTyped, StoreShape, OpShape, OpGoes, IdleOp
<1>3. ASSUME Settle PROVE Supplied'
  BY <1>3 DEF Settle, FieldsTyped, StoreShape, OpShape, OpGoes, IdleOp, DeferredConfig
<1>4. ASSUME CloseStore PROVE Supplied'
  BY <1>4 DEF CloseStore, FieldsTyped, StoreShape, OpShape, OpGoes, Closed, None
<1>5. ASSUME OpenStore PROVE Supplied'
  <2>1. /\ UNCHANGED syncs /\ op'.pc = "install" /\ op.pc = "open"
    BY <1>5 DEF OpenStore, OpGoes, FieldsTyped, OpShape
  <2>2. \A s \in Ids : stores[s].state # "new" => syncs[s].created
    BY <2>1
  <2>3. CASE /\ store' = Lowest(FreshStores)
             /\ stores' = [stores EXCEPT ![store'] = [state |-> "open", config |-> config]]
    <3>1. /\ store' \in Ids
          /\ \A t \in 1..(store' - 1) : stores[t].state # "new" /\ t \in Ids
      BY <2>1, <2>3, NextStore, ServiceAssumption DEF Ids
    <3>2. \A s \in Ids : stores'[s] = IF s = store' THEN [state |-> "open", config |-> config] ELSE stores[s]
      BY <2>3, <3>1 DEF FieldsTyped
    <3> QED
      BY <2>1, <2>2, <3>1, <3>2
  <2>4. CASE store' = None /\ UNCHANGED stores
    BY <2>1, <2>2, <2>4
  <2> QED
    BY <1>5, <2>3, <2>4 DEF OpenStore
<1>6. ASSUME Install PROVE Supplied'
  <2>1. /\ UNCHANGED <<store, stores>> /\ op'.pc = "trigger" /\ op.pc = "install"
    BY <1>6 DEF Install, OpGoes, FieldsTyped, OpShape
  <2>2. /\ sync' \in Ids /\ ~syncs[sync'].created
        /\ \A t \in Ids : ~syncs[t].created => sync' <= t
    BY <1>6, <2>1, NextScheduler DEF Install
  <2>3. \A t \in Ids : syncs'[t].created = (t = sync' \/ syncs[t].created)
    BY <1>6, <2>2 DEF Install, FieldsTyped, SchedulerShape, NewScheduler
  <2>4. ASSUME NEW s \in Ids, stores[s].state # "new" PROVE s = sync' \/ syncs[s].created
    <3>1. CASE \A t \in 1..(s - 1) : syncs[t].created
      <4>1. s \in Int /\ sync' \in 1..MaxOpens
        BY <2>2, ServiceAssumption DEF Ids
      <4>2. ~(sync' \in 1..(s - 1))
        BY <2>2, <3>1
      <4>3. ~syncs[s].created => sync' <= s
        BY <2>2
      <4> QED
        BY <4>1, <4>2, <4>3
    <3> QED
      BY <2>4, <3>1
  <2> QED
    BY <2>1, <2>3, <2>4
<1>7. ASSUME InitialSync PROVE Supplied'
  BY <1>7, TriggeredThreads DEF InitialSync, Threads, OpGoes, IdleOp, FieldsTyped, None
<1>8. ASSUME Shutdown PROVE Supplied'
  BY <1>8 DEF Shutdown, FieldsTyped, StoreShape, OpShape, OpGoes
<1>9. ASSUME StopSync PROVE Supplied'
  BY <1>9 DEF StopSync, FieldsTyped, StoreShape, OpShape, OpGoes
<1>10. ASSUME ShutCache PROVE Supplied'
  BY <1>10 DEF ShutCache, FieldsTyped, StoreShape, OpShape, OpGoes, Closed, None
<1>11. ASSUME DropFields PROVE Supplied'
  BY <1>11 DEF DropFields, FieldsTyped, StoreShape, OpShape, OpGoes, IdleOp
<1>12. ASSUME NEW s \in Ids, SyncThread(s) PROVE Supplied'
  <2>1. UNCHANGED <<store, stores, op>>
    BY <1>12, ThreadSteps
  <2>2. \A t \in Ids : syncs'[t].created = syncs[t].created
    <3>1. syncs[s].created /\ syncs'[s].created
      BY <1>12, ThreadSteps DEF Threads
    <3>2. \A t \in Ids : t # s => syncs'[t] = syncs[t]
      BY <1>12, ThreadSteps
    <3>3. TRUE = syncs[s].created /\ TRUE = syncs'[s].created
      BY <3>1, ThreadSteps, <1>12 DEF FieldsTyped, SchedulerShape
    <3> QED
      BY <3>2, <3>3
  <2>3. \A t \in 1..MaxOpens : syncs'[t].created = syncs[t].created
    BY <2>2 DEF Ids
  <2>4. \A s1 \in Ids : 1..(s1 - 1) \subseteq Ids
    BY ServiceAssumption DEF Ids
  <2> QED
    BY <2>1, <2>2, <2>4
<1>13. ASSUME TurnBegins PROVE Supplied'
  BY <1>13 DEF TurnBegins
<1>14. ASSUME TurnTriggers PROVE Supplied'
  <2>1. UNCHANGED <<store, stores, op>>
    BY <1>14 DEF TurnTriggers
  <2>2. \A t \in Ids : syncs'[t].created = syncs[t].created
    BY <1>14, TriggeredThreads DEF TurnTriggers, Threads, FieldsTyped, None
  <2>3. \A s1 \in Ids : 1..(s1 - 1) \subseteq Ids
    BY ServiceAssumption DEF Ids
  <2> QED
    BY <2>1, <2>2, <2>3
<1>15. ASSUME NEW c \in Configs, EditConfig(c) PROVE Supplied'
  BY <1>15 DEF EditConfig
<1>16. ASSUME NEW k \in Keys, BuildBlock(k) PROVE Supplied'
  BY <1>16 DEF BuildBlock
<1>17. ASSUME UNCHANGED serviceVars PROVE Supplied'
  BY <1>17 DEF serviceVars
<1> QED
  BY <1>1, <1>2, <1>3, <1>4, <1>5, <1>6, <1>7, <1>8, <1>9, <1>10, <1>11, <1>12, <1>13, <1>14, <1>15, <1>16, <1>17
  DEF ServiceNext, Lifecycle

\* A thread keeps to its scheduler.
LEMMA ThreadsInductive ==
  ASSUME Base, [ServiceNext]_serviceVars
  PROVE  Threads'
<1> USE DEF Base, Threads, fields
<1>1. ASSUME Initialize PROVE Threads'
  BY <1>1 DEF Initialize, FieldsTyped, OpShape, IdleOp
<1>2. ASSUME RebuildClient PROVE Threads'
  BY <1>2 DEF RebuildClient, FieldsTyped, OpShape, OpGoes, IdleOp
<1>3. ASSUME Settle PROVE Threads'
  BY <1>3 DEF Settle, FieldsTyped, OpShape, OpGoes, IdleOp, DeferredConfig
<1>4. ASSUME CloseStore PROVE Threads'
  BY <1>4 DEF CloseStore, FieldsTyped, OpShape, OpGoes, Closed
<1>5. ASSUME OpenStore PROVE Threads'
  <2>1. UNCHANGED <<syncs, sync, turn, initialized>> /\ op'.pc = "install"
    BY <1>5 DEF OpenStore, OpGoes, FieldsTyped, OpShape
  <2> QED
    BY <2>1
<1>6. ASSUME Install PROVE Threads'
  <2>1. sync' \in Ids /\ UNCHANGED turn
    BY <1>6, NextScheduler DEF Install
  <2>2. \A t \in Ids : syncs'[t] = IF t = sync' THEN [NewScheduler EXCEPT !.created = TRUE] ELSE syncs[t]
    BY <1>6, <2>1 DEF Install, FieldsTyped
  <2>3. sync' # None
    BY <2>1, ServiceAssumption DEF Ids, None
  <2>4. syncs'[sync'].created /\ syncs'[sync'].pc = "dead"
    BY <2>1, <2>2 DEF NewScheduler
  <2>5. turn # None => turn \in Ids
    BY DEF FieldsTyped
  <2> QED
    BY <2>1, <2>2, <2>3, <2>4, <2>5
<1>7. ASSUME InitialSync PROVE Threads'
  BY <1>7, TriggeredThreads DEF InitialSync, OpGoes, IdleOp, FieldsTyped, None
<1>8. ASSUME Shutdown PROVE Threads'
  BY <1>8 DEF Shutdown, FieldsTyped, OpShape, OpGoes
<1>9. ASSUME StopSync PROVE Threads'
  BY <1>9 DEF StopSync, FieldsTyped, OpShape, OpGoes
<1>10. ASSUME ShutCache PROVE Threads'
  BY <1>10 DEF ShutCache, FieldsTyped, OpShape, OpGoes, Closed
<1>11. ASSUME DropFields PROVE Threads'
  BY <1>11 DEF DropFields, FieldsTyped, OpShape, OpGoes, IdleOp
<1>12. ASSUME NEW s \in Ids, SyncThread(s) PROVE Threads'
  BY <1>12, ThreadSteps DEF FieldsTyped
<1>13. ASSUME TurnBegins PROVE Threads'
  BY <1>13 DEF TurnBegins
<1>14. ASSUME TurnTriggers PROVE Threads'
  BY <1>14, TriggeredThreads DEF TurnTriggers, FieldsTyped, None
<1>15. ASSUME NEW c \in Configs, EditConfig(c) PROVE Threads'
  BY <1>15 DEF EditConfig
<1>16. ASSUME NEW k \in Keys, BuildBlock(k) PROVE Threads'
  BY <1>16 DEF BuildBlock
<1>17. ASSUME UNCHANGED serviceVars PROVE Threads'
  BY <1>17 DEF serviceVars
<1> QED
  BY <1>1, <1>2, <1>3, <1>4, <1>5, <1>6, <1>7, <1>8, <1>9, <1>10, <1>11, <1>12, <1>13, <1>14, <1>15, <1>16, <1>17
  DEF ServiceNext, Lifecycle

\* The base invariant holds in the initial state and in every step.
LEMMA BaseInvariant == ServiceSpec => []Base
<1>1. ServiceInit => Base
  <2> SUFFICES ASSUME ServiceInit PROVE Base
    OBVIOUS
  <2> USE ServiceAssumption DEF ServiceInit, IdleOp, NewStore, NewScheduler, None
  <2>1. FieldsTyped
    <3>1. edits \in 0..MaxEdits
      OBVIOUS
    <3>6. client \in BOOLEAN /\ initialized \in BOOLEAN
      BY Zenon
    <3>2. stores \in [Ids -> StoreShape]
      BY DEF StoreShape
    <3>3. syncs \in [Ids -> SchedulerShape]
      BY DEF SchedulerShape
    <3>4. op \in OpShape
      BY DEF OpShape
    <3>5. {store, sync, turn} \subseteq Ids \cup {None} /\ disk \in Configs /\ config = NoConfig
      OBVIOUS
    <3> QED
      BY ONLY <3>1, <3>2, <3>3, <3>4, <3>5, <3>6 DEF FieldsTyped
  <2>2. CacheTyped
    <3>1. index = 1 /\ floor = 1 /\ blocks = {} /\ closed = FALSE
      BY DEF Cache!ContextInit
    <3>2. closed \in BOOLEAN
      BY ONLY <3>1, Zenon
    <3>3. index \in Nat /\ floor \in 1..index
      BY <3>1
    <3> QED
      BY <3>1, <3>2, <3>3 DEF CacheTyped
  <2>3. Supplied
    BY DEF Supplied
  <2>4. Threads
    BY DEF Threads
  <2> QED
    BY <2>1, <2>2, <2>3, <2>4 DEF Base
<1>2. Base /\ [ServiceNext]_serviceVars => Base'
  BY FieldsInductive, SuppliedInductive, ThreadsInductive, CacheTypedInductive, ServiceCacheSteps
  DEF Base
<1> QED
  BY <1>1, <1>2, PTL DEF ServiceSpec

\* The service uses the prefetch cache through its operations only, whatever
\* its syncs, turns and sessions do: what ContextCache promises is all the
\* service ever sees.
THEOREM ServiceUsesCache == ServiceSpec => Cache!ContextSpec
<1>1. ServiceInit => Cache!ContextInit
  BY DEF ServiceInit
<1> QED
  BY <1>1, ServiceCacheSteps, PTL DEF ServiceSpec, Cache!ContextSpec

\* A sync thread that ends after changing rows, by ingest or by pruning, ends
\* with the invalidation of the cache (_sync_once), also when turns trigger
\* syncs while the service is initialized or shut down.
THEOREM SyncsInvalidate == ServiceSpec => SyncInvalidates
<1> DEFINE Goal ==
      \A s \in Ids :
        /\ syncs[s].pc \in {"prune", "clear"}
        /\ syncs'[s].pc = "dead"
        /\ syncs[s].wrote \/ index' # index
        => floor' = index'
<1>1. Base /\ [ServiceNext]_serviceVars => Goal
  <2> SUFFICES ASSUME Base, [ServiceNext]_serviceVars, NEW s \in Ids,
                      syncs[s].pc \in {"prune", "clear"}, syncs'[s].pc = "dead",
                      syncs[s].wrote \/ index' # index
               PROVE  floor' = index'
    OBVIOUS
  <2>1. ASSUME UNCHANGED syncs PROVE FALSE
    BY <2>1
  <2>2. ASSUME NEW t \in Ids, SyncThread(t) PROVE floor' = index'
    <3>1. t = s
      BY <2>2, ThreadSteps
    <3>2. CASE SyncPrune(s)
      <4>1. PICK pruned \in BOOLEAN :
              /\ IF pruned THEN Cache!Change ELSE UNCHANGED cacheVars
              /\ SyncGoes(s, IF Changed(s, pruned) THEN "clear" ELSE "dead")
        BY <3>2 DEF SyncPrune
      <4>2. ~Changed(s, pruned)
        BY <4>1, ThreadGoes DEF Base, Threads
      <4>3. ~syncs[s].wrote /\ ~pruned
        BY <4>2 DEF Changed, Base, Threads
      <4> QED
        BY <4>1, <4>3 DEF cacheVars
    <3>3. CASE SyncClear(s)
      BY <3>3 DEF SyncClear, Cache!Invalidate, Cache!Invalidated
    <3> QED
      BY <2>2, <3>1, <3>2, <3>3
      DEF SyncThread, SyncCheck, SyncCall, SyncPage, SyncFails, SyncReturns
  <2>3. ASSUME Install PROVE FALSE
    <3>1. sync' \in Ids /\ ~syncs[sync'].created
      BY <2>3, NextScheduler DEF Install
    <3>2. s # sync'
      BY <3>1 DEF Base, Threads
    <3>3. syncs'[s] = syncs[s]
      BY <2>3, <3>1, <3>2 DEF Install, Base, FieldsTyped
    <3> QED
      BY <3>3
  <2>4. ASSUME InitialSync \/ TurnTriggers PROVE FALSE
    <3>1. UNCHANGED syncs \/ \E t \in Ids : syncs[t].created /\ Triggered(t)
      BY <2>4 DEF InitialSync, TurnTriggers, Base, FieldsTyped, Threads, None
    <3> QED
      BY <3>1, TriggeredThreads DEF Base
  <2> QED
    BY <2>1, <2>2, <2>3, <2>4
    DEF ServiceNext, Lifecycle, serviceVars, fields, Initialize, RebuildClient, Settle, CloseStore,
        OpenStore, Shutdown, StopSync, ShutCache, DropFields, TurnBegins, EditConfig, BuildBlock
<1> QED
  BY <1>1, BaseInvariant, PTL DEF ServiceSpec, SyncInvalidates

-----------------------------------------------------------------------------
(* Turns that wait for the operations.                                     *)

\* One session at a time: no thread starts inside an operation that settled
\* the sync, so stores are closed and replaced when nothing uses them.
LEMMA SerialInductive ==
  ASSUME ~ConcurrentTurns, Base, Serial, [ServiceNext]_serviceVars
  PROVE  Serial'
<1> USE DEF Serial, TurnsWait, OnlyOwnRuns, NothingRuns, Settled, LiveStore, RightDatabase,
            ClosedOff, OwnStore, Running, StoreOpen, fields, cacheVars
<1>0. \A s \in Ids : s # None
  BY ServiceAssumption DEF Ids, None
<1>1. ASSUME Initialize PROVE Serial'
  BY <1>1 DEF Initialize, Base, FieldsTyped, Supplied, Threads, None, OpShape, IdleOp
<1>2. ASSUME RebuildClient PROVE Serial'
  BY <1>2 DEF RebuildClient, Base, FieldsTyped, Supplied, Threads, None, OpShape, OpGoes, IdleOp
<1>3. ASSUME Settle PROVE Serial'
  BY <1>3 DEF Settle, Base, FieldsTyped, Supplied, Threads, None, OpShape, OpGoes, IdleOp, DeferredConfig
<1>4. ASSUME CloseStore PROVE Serial'
  BY <1>4 DEF CloseStore, Base, FieldsTyped, Supplied, Threads, None, OpShape, OpGoes, Closed
<1>5. ASSUME OpenStore PROVE Serial'
  <2>1. /\ UNCHANGED <<config, sync, initialized, syncs, turn>>
        /\ op.pc = "open" /\ op'.pc = "install"
        /\ closed' = closed
    BY <1>5 DEF OpenStore, Base, FieldsTyped, OpShape, OpGoes, Cache!Change
  <2>2. CASE /\ store' = Lowest(FreshStores)
             /\ stores' = [stores EXCEPT ![store'] = [state |-> "open", config |-> config]]
    <3>1. store' \in Ids
      BY <2>1, <2>2, NextStore
    <3>2. stores'[store'] = [state |-> "open", config |-> config]
      BY <2>2, <3>1 DEF Base, FieldsTyped
    <3>3. \A t \in Ids : Running(t)' = Running(t)
      BY <2>1
    <3>4. TurnsWait' /\ OnlyOwnRuns' /\ Settled' /\ ClosedOff'
      BY <2>1, <3>3
    <3>5. LiveStore' /\ RightDatabase'
      BY <2>1, <3>1, <3>2
    <3>6. OwnStore'
      BY <1>0, <2>1
    <3> QED
      BY <3>4, <3>5, <3>6
  <2>3. CASE store' = None /\ UNCHANGED stores
    <3>1. \A t \in Ids : Running(t)' = Running(t)
      BY <2>1
    <3>2. TurnsWait' /\ OnlyOwnRuns' /\ Settled' /\ ClosedOff'
      BY <2>1, <3>1
    <3>3. LiveStore' /\ RightDatabase'
      BY <2>1, <2>3
    <3>4. OwnStore'
      BY <1>0, <2>1
    <3> QED
      BY <3>2, <3>3, <3>4
  <2> QED
    BY <1>5, <2>2, <2>3 DEF OpenStore
<1>6. ASSUME Install PROVE Serial'
  BY <1>6, NextScheduler DEF Install, Base, FieldsTyped, Supplied, Threads, None, OpShape, OpGoes, Revived, NewScheduler, Cache!Reopen
<1>7. ASSUME InitialSync PROVE Serial'
  BY <1>7, TriggeredThreads DEF InitialSync, Base, FieldsTyped, Supplied, Threads, None, OpShape, OpGoes, IdleOp
<1>8. ASSUME Shutdown PROVE Serial'
  BY <1>8 DEF Shutdown, Base, FieldsTyped, Supplied, Threads, None, OpShape, OpGoes
<1>9. ASSUME StopSync PROVE Serial'
  BY <1>9 DEF StopSync, Base, FieldsTyped, Supplied, Threads, None, OpShape, OpGoes
<1>10. ASSUME ShutCache PROVE Serial'
  BY <1>10 DEF ShutCache, Base, FieldsTyped, Supplied, Threads, None, OpShape, OpGoes, Closed
<1>11. ASSUME DropFields PROVE Serial'
  <2>1. /\ UNCHANGED <<config, sync, syncs, stores, turn, closed>>
        /\ op.pc = "drop" /\ op'.pc = "idle"
    BY <1>11 DEF DropFields, Base, FieldsTyped, OpShape, OpGoes, IdleOp
  <2>2. CASE Running(sync)
    <3>1. UNCHANGED <<store, initialized>>
      BY <1>11, <2>2 DEF DropFields
    <3>2. ~NothingRuns
      BY <2>2 DEF Base, FieldsTyped, None
    <3> QED
      BY <2>1, <3>1, <3>2
  <2>3. CASE ~Running(sync)
    <3>1. store' = None /\ initialized' = FALSE
      BY <1>11, <2>3 DEF DropFields
    <3>2. NothingRuns
      BY <2>3 DEF Base, FieldsTyped
    <3> QED
      BY <1>0, <2>1, <3>1, <3>2
  <2> QED
    BY <2>2, <2>3
<1>12. ASSUME NEW s \in Ids, SyncThread(s) PROVE Serial'
  <2>1. /\ UNCHANGED <<config, store, sync, initialized, stores, op, turn>>
        /\ s = sync /\ Running(s) /\ ~NothingRuns
        /\ \A t \in Ids : t # s => syncs'[t] = syncs[t]
    BY <1>12, ThreadSteps, ServiceAssumption DEF Ids, None
  <2>2. ClosedOff'
    BY <1>12, <2>1 DEF SyncThread, SyncCheck, SyncCall, SyncPage, SyncFails, SyncReturns, SyncPrune, SyncClear,
                   Cache!Change, Cache!Invalidate
  <2>3. OwnStore'
    BY <1>12, <2>1, ThreadSteps
  <2>4. TurnsWait' /\ OnlyOwnRuns' /\ Settled' /\ LiveStore' /\ RightDatabase'
    BY <2>1
  <2> QED
    BY <2>2, <2>3, <2>4
<1>13. ASSUME TurnBegins PROVE Serial'
  BY <1>13 DEF TurnBegins, Base, FieldsTyped, Supplied, Threads, None, OpShape
<1>14. ASSUME TurnTriggers PROVE Serial'
  BY <1>14, TriggeredThreads DEF TurnTriggers, Base, FieldsTyped, Supplied, Threads, None, OpShape
<1>15. ASSUME NEW c \in Configs, EditConfig(c) PROVE Serial'
  BY <1>15 DEF EditConfig
<1>16. ASSUME NEW k \in Keys, BuildBlock(k) PROVE Serial'
  BY <1>16 DEF BuildBlock, Cache!Warm
<1>17. ASSUME UNCHANGED serviceVars PROVE Serial'
  BY <1>17 DEF serviceVars
<1> QED
  BY <1>1, <1>2, <1>3, <1>4, <1>5, <1>6, <1>7, <1>8, <1>9, <1>10, <1>11, <1>12, <1>13, <1>14, <1>15, <1>16, <1>17
  DEF ServiceNext, Lifecycle

-----------------------------------------------------------------------------
(* The theorems.                                                           *)

\* The inductive invariant behind the safety properties.
LEMMA SerialInvariant == ASSUME ~ConcurrentTurns PROVE ServiceSpec => [](Base /\ Serial)
<1>1. ServiceInit => Serial
  BY ServiceAssumption
  DEF ServiceInit, Serial, TurnsWait, OnlyOwnRuns, NothingRuns, Settled, LiveStore, RightDatabase,
      ClosedOff, OwnStore, Running, IdleOp, NewStore, NewScheduler, Cache!ContextInit
<1>2. Base /\ Serial /\ [ServiceNext]_serviceVars => Serial'
  BY SerialInductive
<1> QED
  BY <1>1, <1>2, BaseInvariant, PTL DEF ServiceSpec

\* Every field keeps its type, whatever turns do; and when turns wait for the
\* operations, the cache of an initialized service is open.
THEOREM ServiceTyping == ASSUME ~ConcurrentTurns PROVE ServiceSpec => []ServiceTypeOK
<1>1. Base /\ Serial => ServiceTypeOK
  BY DEF Base, Serial, FieldsTyped, CacheTyped, StoreShape, SchedulerShape, OpShape, ClosedOff,
         ServiceTypeOK
<1> QED
  BY <1>1, SerialInvariant, PTL

\* The store a sync ingests into is open: no initialize and no shutdown closes
\* it underneath the thread (_settle_inflight_sync, shutdown).
THEOREM StoresOutliveSyncs == ASSUME ~ConcurrentTurns PROVE ServiceSpec => []SyncStoreOpen
<1>1. Base /\ Serial => SyncStoreOpen
  BY ServiceAssumption
  DEF Serial, OwnStore, LiveStore, NothingRuns, Running, SyncStoreOpen, Ids, None
<1> QED
  BY <1>1, SerialInvariant, PTL

\* At most one sync thread is alive, over all the schedulers the service had
\* (trigger coalesces, and a scheduler is replaced only when its thread ended).
THEOREM OneSyncAtATime == ASSUME ~ConcurrentTurns PROVE ServiceSpec => []OneSync
<1>1. Base /\ Serial => OneSync
  <2> SUFFICES ASSUME Base, Serial PROVE OneSync
    OBVIOUS
  <2> DEFINE R == {s \in Ids : Running(s)}
  <2>1. R \subseteq {sync}
    BY DEF Serial, OnlyOwnRuns
  <2>2. IsFiniteSet({sync}) /\ Cardinality({sync}) = 1
    BY FS_Singleton
  <2>3. Cardinality(R) <= 1
    BY <2>1, <2>2, FS_Subset
  <2> QED
    BY <2>3 DEF OneSync
<1> QED
  BY <1>1, SerialInvariant, PTL

\* Between operations the store of an initialized service is open and holds
\* the database of its configuration, also when a re-init was deferred.
THEOREM ServiceReady == ASSUME ~ConcurrentTurns PROVE ServiceSpec => []Ready
<1>1. Base /\ Serial => Ready
  BY DEF Serial, LiveStore, RightDatabase, Ready
<1> QED
  BY <1>1, SerialInvariant, PTL

\* With turns that wait, what the docs of initialize say is true: a re-init
\* never closes the store underneath an in-flight sync.  (With turns that do
\* not wait it is false, see the run service_turns.)
THEOREM ReinitSpares == ASSUME ~ConcurrentTurns PROVE ServiceSpec => ReinitSparesSync
<1> DEFINE Goal ==
      op.pc = "close" /\ stores' # stores
      => \A s \in Ids : syncs[s].pc = "ingest" => syncs[s].store # store
<1>1. Base /\ Serial /\ [ServiceNext]_serviceVars => Goal
  BY ServiceAssumption DEF Serial, Settled, NothingRuns, Running, Ids, None
<1> QED
  BY <1>1, SerialInvariant, PTL DEF ServiceSpec, ReinitSparesSync

=============================================================================
