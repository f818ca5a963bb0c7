--------------------------- MODULE PrefetchCache ---------------------------
(***************************************************************************)
(* incidents/prefetch.py: the cache of context blocks.  Turn threads call  *)
(* get and queue; a miss is built on a bounded pool and the turn waits for *)
(* it no longer than a timeout, while the build goes on and fills the      *)
(* cache.  The owner clears the cache when the index changed, shuts it     *)
(* down and reopens it.                                                    *)
(*                                                                         *)
(* One action is what happens under the cache's lock, or one unlocked      *)
(* access to what another thread may change.  A block is represented by    *)
(* the version of the index it was built from; 0 is the empty block, which *)
(* is not cached.                                                          *)
(***************************************************************************)
EXTENDS Integers, Sequences, FiniteSets

CONSTANTS
  Keys,           \* normalised queries
  NoKey,          \* no query
  Callers,        \* turn threads
  Futures,        \* identities of futures, reused when nothing refers to them
  MaxSize,        \* entries of the cache
  Workers,        \* threads of a pool
  MaxVersion,     \* bound: versions of the index behind the builder
  MaxGeneration,  \* bound: clears, shutdowns and reopenings
  MaxPools        \* bound: thread pools created

NoFuture == 0
NoPool == 0

ASSUME CacheAssumption ==
  /\ NoKey \notin Keys
  /\ Futures \subseteq Nat \ {NoFuture}
  /\ MaxSize \in Nat \ {0}
  /\ Workers \in Nat \ {0}
  /\ MaxVersion \in Nat \ {0}
  /\ MaxGeneration \in Nat
  /\ MaxPools \in Nat

VARIABLES
  data,        \* the version of the index a build would read now
  cleared,     \* history: the version at the last invalidation
  cache,       \* the entries, oldest first
  inflight,    \* key -> future
  future,      \* the futures and the state of their builds
  generation,
  life,        \* history: the generation of the last shutdown or reopening
  closed,
  pool,        \* self._pool
  pools,       \* pool -> "new", "open" or "shut"
  caller,      \* turn threads: where they are in get or queue
  owner        \* where the owner's shutdown is between its three steps

cacheVars == <<data, cleared, cache, inflight, future, generation, life, closed,
               pool, pools, caller, owner>>

MaxPending == 2 * Workers

Unfinished == {"pending", "building", "built"}
Finished == {"done", "failed", "cancelled"}

FreeFuture == [state |-> "free", key |-> NoKey,
               generation |-> 0, pool |-> NoPool, value |-> 0, callback |-> FALSE]

IdleCaller == [pc |-> "idle", key |-> NoKey,
               pool |-> NoPool, future |-> NoFuture]

-----------------------------------------------------------------------------
(* get and queue, up to the wait.                                          *)

CallerGoes(c, record) == caller' = [caller EXCEPT ![c] = record]

\* get on a miss, or queue, which does not look at the entries; get answers a
\* warm key at once and changes nothing.
Request(c, k) ==
  /\ caller[c].pc = "idle"
  /\ CallerGoes(c, [IdleCaller EXCEPT !.pc = "pool", !.key = k])
  /\ UNCHANGED <<data, cleared, cache, inflight, future, generation, life, closed, pool, pools, owner>>

\* _get_pool reads the pool without a lock; a closed cache raises.
GetPool(c) ==
  /\ caller[c].pc = "pool"
  /\ CallerGoes(c,
       IF pool # NoPool THEN [caller[c] EXCEPT !.pc = "submit", !.pool = pool]
       ELSE IF closed THEN IdleCaller
       ELSE [caller[c] EXCEPT !.pc = "create"])
  /\ UNCHANGED <<data, cleared, cache, inflight, future, generation, life, closed, pool, pools, owner>>

NewPools == {p \in 1..MaxPools : pools[p] = "new"}

\* The pool is created under the pool's lock, which shutdown does not take.
CreatePool(c) ==
  /\ caller[c].pc = "create"
  /\ \/ /\ pool # NoPool
        /\ CallerGoes(c, [caller[c] EXCEPT !.pc = "submit", !.pool = pool])
        /\ UNCHANGED <<pool, pools>>
     \/ /\ pool = NoPool
        /\ \E p \in NewPools :
             /\ \A q \in NewPools : p <= q
             /\ pool' = p
             /\ pools' = [pools EXCEPT ![p] = "open"]
             /\ CallerGoes(c, [caller[c] EXCEPT !.pc = "submit", !.pool = p])
  /\ UNCHANGED <<data, cleared, cache, inflight, future, generation, life, closed, owner>>

Pending == Cardinality({k \in Keys : inflight[k] # NoFuture})

FreeFutures == {f \in Futures : future[f].state = "free"}

\* Mutant: a closed cache is not noticed.
AnswerWhenClosed(k) ==
  IF inflight[k] # NoFuture THEN "existing"
  ELSE IF Pending >= MaxPending THEN "nothing" ELSE "build"

\* What _submit decides under the lock: nothing for a closed cache, the build
\* in flight for the same key, nothing when too many are pending.
Answer(k) ==
  IF closed THEN "nothing"
  ELSE IF inflight[k] # NoFuture THEN "existing"
  ELSE IF Pending >= MaxPending THEN "nothing" ELSE "build"

SubmitNoBuild(c) ==
  /\ caller[c].pc = "submit"
  /\ \/ Answer(caller[c].key) = "nothing"
     \/ Answer(caller[c].key) = "existing"
     \/ Answer(caller[c].key) = "build" /\ pools[caller[c].pool] = "shut"
  /\ CallerGoes(c, IdleCaller)
  /\ UNCHANGED <<data, cleared, cache, inflight, future, generation, life, closed, pool, pools, owner>>

\* A build of the current generation.  The pool may have been shut down since
\* the caller read it: then pool.submit raises, see SubmitNoBuild.
SubmitBuild(c) ==
  LET k == caller[c].key
      p == caller[c].pool
  IN /\ caller[c].pc = "submit"
     /\ Answer(k) = "build"
     /\ pools[p] = "open"
     /\ \E f \in FreeFutures :
          /\ \A g \in FreeFutures : f <= g
          /\ future' = [future EXCEPT ![f] =
               [FreeFuture EXCEPT !.state = "pending", !.key = k,
                                  !.generation = generation, !.pool = p]]
          /\ inflight' = [inflight EXCEPT ![k] = f]
          /\ CallerGoes(c, [caller[c] EXCEPT !.pc = "callback", !.pool = NoPool, !.future = f])
     /\ UNCHANGED <<data, cleared, cache, generation, life, closed, pool, pools, owner>>

\* add_done_callback, after the lock is released.  The wait for the result that
\* follows in get, cut off by the timeout, changes nothing.
AddCallback(c) ==
  /\ caller[c].pc = "callback"
  /\ future' = [future EXCEPT ![caller[c].future].callback = TRUE]
  /\ CallerGoes(c, IdleCaller)
  /\ UNCHANGED <<data, cleared, cache, inflight, generation, life, closed, pool, pools, owner>>

-----------------------------------------------------------------------------
(* The builds.                                                             *)

\* A build that ended is no longer the pool's.
Ended(f, state) ==
  [FreeFuture EXCEPT !.state = state, !.key = future[f].key, !.callback = future[f].callback]

Finish(f, state) == future' = [future EXCEPT ![f] = Ended(f, state)]

FutureGoes(f, state) == future' = [future EXCEPT ![f].state = state]

Running(p) == {f \in Futures : future[f].pool = p /\ future[f].state \in {"building", "built"}}

StartBuild(f) ==
  /\ future[f].state = "pending"
  /\ Cardinality(Running(future[f].pool)) < Workers
  /\ FutureGoes(f, "building")
  /\ UNCHANGED <<data, cleared, cache, inflight, generation, life, closed, pool, pools, caller, owner>>

\* The builder searches the index and finds something or nothing, or raises.
Build(f) ==
  /\ future[f].state = "building"
  /\ \/ \E block \in {0, data} :
          future' = [future EXCEPT ![f].state = "built", ![f].value = block]
     \/ Finish(f, "failed")
  /\ UNCHANGED <<data, cleared, cache, inflight, generation, life, closed, pool, pools, caller, owner>>

\* Mutant: the oldest entry goes one insertion too late.
PutEntryLateEviction(entries, k, v) ==
  IF \E n \in 1..Len(entries) : entries[n].key = k
  THEN [n \in 1..Len(entries) |->
          IF entries[n].key = k THEN [key |-> k, value |-> v] ELSE entries[n]]
  ELSE Append(IF Len(entries) > MaxSize THEN Tail(entries) ELSE entries,
              [key |-> k, value |-> v])

\* The dict of entries after an assignment: a key that is there keeps its
\* place, a new one goes to the end and may push the oldest out.
PutEntry(entries, k, v) ==
  IF \E n \in 1..Len(entries) : entries[n].key = k
  THEN [n \in 1..Len(entries) |->
          IF entries[n].key = k THEN [key |-> k, value |-> v] ELSE entries[n]]
  ELSE Append(IF Len(entries) >= MaxSize THEN Tail(entries) ELSE entries,
              [key |-> k, value |-> v])

\* Mutant: only a closed cache refuses a result.
LandsAnyGeneration(f) == future[f].value # 0 /\ ~closed

\* An empty block is not cached, and neither is one of an earlier generation.
Lands(f) == future[f].value # 0 /\ ~closed /\ future[f].generation = generation

\* _put, and the end of the build.
Put(f) ==
  /\ future[f].state = "built"
  /\ cache' = IF Lands(f) THEN PutEntry(cache, future[f].key, future[f].value) ELSE cache
  /\ Finish(f, "done")
  /\ UNCHANGED <<data, cleared, inflight, generation, life, closed, pool, pools, caller, owner>>

\* Mutant: the callback pops its key whatever future is in flight for it.
ForgottenByKey(f) == [inflight EXCEPT ![future[f].key] = NoFuture]

Forgotten(f) ==
  [k \in Keys |-> IF k = future[f].key /\ inflight[k] = f THEN NoFuture ELSE inflight[k]]

\* Mutant: a build that raised is not forgotten.
ForgetsUnlessFailed(f) == future[f].callback /\ future[f].state \in {"done", "cancelled"}

Forgets(f) == future[f].callback /\ future[f].state \in Finished

\* The done callback, in the worker or in the thread that adds or cancels.
Forget(f) ==
  /\ Forgets(f)
  /\ inflight' = Forgotten(f)
  /\ future' = [future EXCEPT ![f].callback = FALSE]
  /\ UNCHANGED <<data, cleared, cache, generation, life, closed, pool, pools, caller, owner>>

\* A finished future nothing refers to is garbage.
Collect(f) ==
  /\ future[f].state \in Finished
  /\ ~future[f].callback
  /\ \A k \in Keys : inflight[k] # f
  /\ \A c \in Callers : caller[c].future # f
  /\ future' = [future EXCEPT ![f] = FreeFuture]
  /\ UNCHANGED <<data, cleared, cache, inflight, generation, life, closed, pool, pools, caller, owner>>

-----------------------------------------------------------------------------
(* The owner.                                                              *)

Clear ==
  /\ generation < MaxGeneration
  /\ generation' = generation + 1
  /\ cache' = <<>>
  /\ cleared' = data
  /\ UNCHANGED <<data, inflight, future, life, closed, pool, pools, caller, owner>>

\* shutdown: the locked part, the shutdown of the pool it finds, the reset of
\* self._pool.
Shutdown ==
  /\ owner = "idle"
  /\ generation < MaxGeneration
  /\ closed' = TRUE
  /\ generation' = generation + 1
  /\ life' = generation + 1
  /\ cache' = <<>>
  /\ cleared' = data
  /\ inflight' = [k \in Keys |-> NoFuture]
  /\ owner' = "pool"
  /\ UNCHANGED <<data, future, pool, pools, caller>>

ShutdownPool ==
  /\ owner = "pool"
  /\ pools' = IF pool = NoPool THEN pools ELSE [pools EXCEPT ![pool] = "shut"]
  /\ future' = [f \in Futures |->
                  IF pool # NoPool /\ future[f].pool = pool /\ future[f].state = "pending"
                  THEN Ended(f, "cancelled") ELSE future[f]]
  /\ owner' = "drop"
  /\ UNCHANGED <<data, cleared, cache, inflight, generation, life, closed, pool, caller>>

DropPool ==
  /\ owner = "drop"
  /\ pool' = NoPool
  /\ owner' = "idle"
  /\ UNCHANGED <<data, cleared, cache, inflight, future, generation, life, closed, pools, caller>>

Reopen ==
  /\ owner = "idle"
  /\ closed
  /\ generation < MaxGeneration
  /\ closed' = FALSE
  /\ generation' = generation + 1
  /\ life' = generation + 1
  /\ cache' = <<>>
  /\ cleared' = data
  /\ inflight' = [k \in Keys |-> NoFuture]
  /\ UNCHANGED <<data, future, pool, pools, caller, owner>>

-----------------------------------------------------------------------------
(* The specification.                                                      *)

\* What the builder reads changes under it.
DataChange ==
  /\ data < MaxVersion
  /\ data' = data + 1
  /\ UNCHANGED <<cleared, cache, inflight, future, generation, life, closed, pool, pools, caller, owner>>

CallerStep(c) == GetPool(c) \/ CreatePool(c) \/ SubmitNoBuild(c) \/ SubmitBuild(c)
                 \/ AddCallback(c)

FutureStep(f) == Build(f) \/ Put(f) \/ Forget(f) \/ Collect(f)

OwnerStep == ShutdownPool \/ DropPool

CacheInit ==
  /\ data = 1
  /\ cleared = data
  /\ cache = <<>>
  /\ inflight = [k \in Keys |-> NoFuture]
  /\ future = [f \in Futures |-> FreeFuture]
  /\ generation = 0
  /\ life = 0
  /\ closed = FALSE
  /\ pool = NoPool
  /\ pools = [p \in 1..MaxPools |-> "new"]
  /\ caller = [c \in Callers |-> IdleCaller]
  /\ owner = "idle"

CacheNext ==
  \/ DataChange
  \/ \E c \in Callers : CallerStep(c) \/ \E k \in Keys : Request(c, k)
  \/ \E f \in Futures : StartBuild(f) \/ FutureStep(f)
  \/ Clear
  \/ Shutdown
  \/ OwnerStep
  \/ Reopen

CacheSpec == CacheInit /\ [][CacheNext]_cacheVars

\* Threads in the cache's code run on, and the builder, a search of the local
\* index, returns or raises.  The executor's queue is first-in first-out, so a
\* pending build whose workers become free again and again is started.  Nobody
\* has to call get, clear or shutdown.
CacheFairness ==
  /\ \A c \in Callers : WF_cacheVars(CallerStep(c))
  /\ \A f \in Futures : WF_cacheVars(FutureStep(f)) /\ SF_cacheVars(StartBuild(f))
  /\ WF_cacheVars(OwnerStep)

CacheFairSpec == CacheSpec /\ CacheFairness

-----------------------------------------------------------------------------
(* Properties.                                                             *)

Entry == [key : Keys, value : 1..MaxVersion]

FutureRecord ==
  [state : {"free"} \cup Unfinished \cup Finished, key : Keys \cup {NoKey},
   generation : 0..MaxGeneration, pool : 0..MaxPools,
   value : 0..MaxVersion, callback : BOOLEAN]

CallerRecord ==
  [pc : {"idle", "pool", "create", "submit", "callback"},
   key : Keys \cup {NoKey},
   pool : 0..MaxPools, future : Futures \cup {NoFuture}]

\* Types; the entries and the pending builds stay within their bounds, and no
\* key has two entries.
CacheTypeOK ==
  /\ data \in 1..MaxVersion
  /\ cleared \in 1..MaxVersion
  /\ cache \in Seq(Entry)
  /\ Len(cache) <= MaxSize
  /\ \A m, n \in 1..Len(cache) : cache[m].key = cache[n].key => m = n
  /\ inflight \in [Keys -> Futures \cup {NoFuture}]
  /\ Pending <= MaxPending
  /\ future \in [Futures -> FutureRecord]
  /\ generation \in 0..MaxGeneration
  /\ life \in 0..generation
  /\ closed \in BOOLEAN
  /\ pool \in 0..MaxPools
  /\ pools \in [1..MaxPools -> {"new", "open", "shut"}]
  /\ caller \in [Callers -> CallerRecord]
  /\ owner \in {"idle", "pool", "drop"}

Context == INSTANCE ContextCache
             WITH index <- data, floor <- cleared,
                  blocks <- {cache[n] : n \in 1..Len(cache)}

\* The cache keeps the promise of ContextCache: no entry is ever older than the
\* last invalidation.  A build that began before clear, shutdown or reopen and
\* lands after it (its turn timed out long ago) does not bring back what was
\* invalidated.
KeepsPromise == Context!ContextSpec

\* A closed cache stays empty, whatever builds are still running.
ClosedEmpty == closed => cache = <<>> /\ \A k \in Keys : inflight[k] = NoFuture

\* An unfinished build of the present life is the one in flight for its key,
\* so no key is built twice at a time and the cap counts every build: in
\* particular a late callback of an earlier life's build forgets nothing but
\* its own.
Tracked ==
  \A f \in Futures :
    future[f].state \in Unfinished /\ future[f].generation >= life
    => inflight[future[f].key] = f

\* A build does not stay in flight for ever: it is forgotten however it ends
\* (built, failed, cancelled), or its key would never be built again.  A key's
\* next build is put in flight only after the last one was forgotten.
InflightDrains == \A k \in Keys : []<>(inflight[k] = NoFuture)

=============================================================================
