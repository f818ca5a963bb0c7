------------------------ MODULE PrefetchCache_proofs ------------------------
(***************************************************************************)
(* Proofs about the prefetch cache, for any numbers of queries, turns,     *)
(* builds, workers and entries: it keeps the promise of ContextCache, a    *)
(* closed cache stays empty, and no build of the present life is lost from *)
(* the builds in flight.                                                   *)
(*                                                                         *)
(* The argument: the generation counts the invalidations, so a build that  *)
(* carries the current generation began after the last of them, and what   *)
(* it read was at least as new as the index was then.                      *)
(***************************************************************************)
EXTENDS PrefetchCache, TLAPS, SequenceTheorems, FiniteSetTheorems

-----------------------------------------------------------------------------
(* The inductive invariant.                                                *)

FutureShape ==
  [state : {"free", "pending", "building", "built", "done", "failed", "cancelled"},
   key : Keys \cup {NoKey}, generation : Nat, pool : Nat, value : Nat, callback : BOOLEAN]

CallerShape ==
  [pc : {"idle", "pool", "create", "submit", "callback"}, key : Keys \cup {NoKey},
   pool : Nat, future : Futures \cup {NoFuture}]

\* A future is of no later generation than the cache; a build in progress has
\* a key.
GoodFuture(r, g) ==
  /\ r \in FutureShape
  /\ r.generation <= g
  /\ r.state \in Unfinished => r.key \in Keys

\* A caller in _submit has a key, and one that registers its callback a future.
GoodCaller(r) ==
  /\ r \in CallerShape
  /\ r.pc # "idle" => r.key \in Keys
  /\ r.pc = "callback" => r.future \in Futures

FuturesTyped ==
  /\ future = [f \in Futures |-> future[f]]
  /\ \A f \in Futures : GoodFuture(future[f], generation)

CallersTyped ==
  /\ caller = [c \in Callers |-> caller[c]]
  /\ \A c \in Callers : GoodCaller(caller[c])

Entries == Seq([key : Keys, value : Nat])

StateTyped ==
  /\ data \in Nat \ {0} /\ cleared \in Nat \ {0} /\ cleared <= data
  /\ generation \in Nat /\ life \in Nat /\ life <= generation
  /\ closed \in BOOLEAN
  /\ cache \in Entries
  /\ inflight \in [Keys -> Futures \cup {NoFuture}]
  /\ pool \in Nat

Typed == StateTyped /\ FuturesTyped /\ CallersTyped

\* What is cached, or about to land, is as new as the last invalidation.
Fresh ==
  /\ \A n \in 1..Len(cache) : cache[n].value \in cleared..data
  /\ \A f \in Futures :
       future[f].state = "built" /\ future[f].generation = generation /\ future[f].value # 0
       => future[f].value \in cleared..data

CacheInv == Typed /\ Fresh /\ ClosedEmpty /\ Tracked

-----------------------------------------------------------------------------
(* Records.                                                                *)

\* One future changes.
LEMMA OneFuture ==
  ASSUME FuturesTyped, NEW f \in Futures, NEW r, GoodFuture(r, generation),
         future' = [future EXCEPT ![f] = r], generation' = generation
  PROVE  /\ FuturesTyped'
         /\ \A g \in Futures : future'[g] = IF g = f THEN r ELSE future[g]
BY DEF FuturesTyped

\* One caller moves.
LEMMA OneCaller ==
  ASSUME CallersTyped, NEW c \in Callers, NEW r, GoodCaller(r), CallerGoes(c, r)
  PROVE  CallersTyped'
BY DEF CallersTyped, CallerGoes

LEMMA IdleCallerGood == GoodCaller(IdleCaller)
BY DEF GoodCaller, CallerShape, IdleCaller, NoPool, NoFuture

LEMMA FreeFutureGood == \A g \in Nat : GoodFuture(FreeFuture, g)
BY DEF GoodFuture, FutureShape, FreeFuture, NoPool, Unfinished

LEMMA EndedGood ==
  ASSUME FuturesTyped, generation \in Nat, NEW f \in Futures, NEW s \in Finished
  PROVE  /\ GoodFuture(Ended(f, s), generation)
         /\ Ended(f, s).state = s
<1>1. FreeFuture \in FutureShape /\ FreeFuture.generation = 0
  BY DEF FutureShape, FreeFuture, NoPool
<1>2. future[f].key \in Keys \cup {NoKey} /\ future[f].callback \in BOOLEAN
  BY DEF FuturesTyped, GoodFuture, FutureShape
<1>3. /\ Ended(f, s) \in FutureShape
      /\ Ended(f, s).state = s /\ Ended(f, s).generation = 0
  BY <1>1, <1>2 DEF FutureShape, Finished, Ended
<1> QED
  BY <1>3 DEF GoodFuture, Finished, Unfinished

\* What a step does to the fields of the futures.
LEMMA FutureFields ==
  ASSUME FuturesTyped, NEW f \in Futures
  PROVE  /\ future[f] \in FutureShape
         /\ future[f].generation \in Nat /\ future[f].generation <= generation
         /\ future[f].value \in Nat
         /\ future[f].state \in Unfinished => future[f].key \in Keys
BY DEF FuturesTyped, GoodFuture, FutureShape

-----------------------------------------------------------------------------
(* Put.                                                                    *)

\* A put keeps the entries a sequence, drops every other block of the key, and
\* adds no block but the new one.
LEMMA PutEntryBlocks ==
  ASSUME NEW entries \in Entries, NEW k \in Keys, NEW v \in Nat
  PROVE  LET put == PutEntry(entries, k, v)
             e == [key |-> k, value |-> v]
         IN /\ put \in Entries
            /\ \E n \in 1..Len(put) : put[n] = e
            /\ \A n \in 1..Len(put) :
                 \/ put[n] = e
                 \/ \E m \in 1..Len(entries) : put[n] = entries[m] /\ entries[m].key # k
<1> DEFINE E == [key : Keys, value : Nat]
           e == [key |-> k, value |-> v]
           put == PutEntry(entries, k, v)
<1>1. e \in E /\ e.key = k
  OBVIOUS
<1>2. entries \in Seq(E) /\ Len(entries) \in Nat /\ \A n \in 1..Len(entries) : entries[n] \in E
  BY ElementOfSeq, LenProperties DEF Entries
<1> HIDE DEF E, e
<1>3. CASE \E n \in 1..Len(entries) : entries[n].key = k
  <2> DEFINE s == [n \in 1..Len(entries) |-> IF entries[n].key = k THEN e ELSE entries[n]]
  <2>1. put = s
    BY <1>3 DEF PutEntry, e
  <2>2. s \in [1..Len(entries) -> E]
    BY <1>1, <1>2
  <2>3. s \in Seq(E) /\ Len(s) = Len(entries)
    BY <1>2, <2>2, SeqDef
  <2> QED
    BY <1>3, <2>1, <2>3 DEF E, e, Entries
<1>4. CASE ~\E n \in 1..Len(entries) : entries[n].key = k
  <2> DEFINE kept == IF Len(entries) >= MaxSize THEN Tail(entries) ELSE entries
  <2>1. put = Append(kept, e)
    BY <1>4 DEF PutEntry, e
  <2>2. /\ kept \in Seq(E)
        /\ \A n \in 1..Len(kept) : \E m \in 1..Len(entries) : kept[n] = entries[m]
    <3>1. CASE Len(entries) >= MaxSize
      <4>1. entries # <<>> /\ Len(entries) >= 1
        BY <1>2, <3>1, CacheAssumption
      <4>2. Tail(entries) \in Seq(E) /\ Len(Tail(entries)) = Len(entries) - 1
            /\ \A n \in 1..Len(Tail(entries)) : Tail(entries)[n] = entries[n + 1]
        BY <1>2, <4>1
      <4> QED
        BY <1>2, <3>1, <4>1, <4>2
    <3>2. CASE ~(Len(entries) >= MaxSize)
      BY <1>2, <3>2
    <3> QED
      BY <3>1, <3>2
  <2> HIDE DEF kept
  <2>3. /\ Append(kept, e) \in Seq(E)
        /\ Len(Append(kept, e)) = Len(kept) + 1
        /\ Len(kept) \in Nat
        /\ Append(kept, e)[Len(kept) + 1] = e
        /\ \A n \in 1..Len(kept) : Append(kept, e)[n] = kept[n]
    BY <1>1, <2>2
  <2>4. \A n \in 1..Len(put) : n = Len(kept) + 1 \/ n \in 1..Len(kept)
    BY <2>1, <2>3
  <2>5. \A n \in 1..Len(put) :
          put[n] = e \/ \E m \in 1..Len(entries) : put[n] = entries[m] /\ entries[m].key # k
    BY <1>4, <2>1, <2>2, <2>3, <2>4
  <2>6. put \in Seq(E) /\ Len(kept) + 1 \in 1..Len(put) /\ put[Len(kept) + 1] = e
    BY <2>1, <2>3
  <2> QED
    BY <2>5, <2>6 DEF E, e, Entries
<1> QED
  BY <1>3, <1>4

-----------------------------------------------------------------------------
(* Typing.                                                                 *)

\* The variables keep their types.
LEMMA TypedInductive ==
  ASSUME Typed, [CacheNext]_cacheVars
  PROVE  Typed'
<1> USE DEF Typed
<1>1. CASE DataChange
  BY <1>1 DEF StateTyped, FuturesTyped, CallersTyped, DataChange
<1>2. ASSUME NEW c \in Callers, NEW k \in Keys, Request(c, k)
      PROVE  Typed'
  <2>1. GoodCaller([IdleCaller EXCEPT !.pc = "pool", !.key = k])
    BY DEF GoodCaller, CallerShape, IdleCaller, NoPool, NoFuture
  <2>2. CallersTyped'
    BY <1>2, <2>1, OneCaller DEF Request
  <2> QED
    BY <1>2, <2>2 DEF Request, StateTyped, FuturesTyped
<1>3. ASSUME NEW c \in Callers, GetPool(c)
      PROVE  Typed'
  <2>1. /\ GoodCaller([caller[c] EXCEPT !.pc = "submit", !.pool = pool])
        /\ GoodCaller([caller[c] EXCEPT !.pc = "create"])
    BY <1>3 DEF GetPool, CallersTyped, GoodCaller, CallerShape, StateTyped
  <2>2. CallersTyped'
    BY <1>3, <2>1, IdleCallerGood, OneCaller DEF GetPool
  <2> QED
    BY <1>3, <2>2 DEF GetPool, StateTyped, FuturesTyped
<1>4. ASSUME NEW c \in Callers, CreatePool(c)
      PROVE  Typed'
  <2>1. pool' \in Nat
    <3>1. \A p \in NewPools : p \in Nat
      BY CacheAssumption DEF NewPools
    <3> QED
      BY <1>4, <3>1 DEF CreatePool, StateTyped
  <2>2. CallerGoes(c, [caller[c] EXCEPT !.pc = "submit", !.pool = pool'])
    BY <1>4 DEF CreatePool
  <2>3. GoodCaller([caller[c] EXCEPT !.pc = "submit", !.pool = pool'])
    BY <1>4, <2>1 DEF CreatePool, CallersTyped, GoodCaller, CallerShape
  <2>4. CallersTyped'
    BY <2>2, <2>3, OneCaller
  <2> QED
    BY <1>4, <2>1, <2>4 DEF CreatePool, StateTyped, FuturesTyped
<1>5. ASSUME NEW c \in Callers, SubmitNoBuild(c)
      PROVE  Typed'
  <2>1. CallersTyped'
    BY <1>5, IdleCallerGood, OneCaller DEF SubmitNoBuild
  <2> QED
    BY <1>5, <2>1 DEF SubmitNoBuild, StateTyped, FuturesTyped
<1>6. ASSUME NEW c \in Callers, SubmitBuild(c)
      PROVE  Typed'
  <2> DEFINE r == [FreeFuture EXCEPT !.state = "pending", !.key = caller[c].key,
                                     !.generation = generation, !.pool = caller[c].pool]
             q(f) == [caller[c] EXCEPT !.pc = "callback", !.pool = NoPool, !.future = f]
  <2>1. PICK f \in FreeFutures : /\ future' = [future EXCEPT ![f] = r]
                                 /\ inflight' = [inflight EXCEPT ![caller[c].key] = f]
                                 /\ CallerGoes(c, q(f))
    BY <1>6 DEF SubmitBuild
  <2>2. f \in Futures
    BY DEF FreeFutures
  <2>3. caller[c] \in CallerShape /\ caller[c].key \in Keys
    BY <1>6 DEF SubmitBuild, CallersTyped, GoodCaller
  <2>4. GoodFuture(r, generation)
    <3>1. FreeFuture \in FutureShape
      BY DEF FutureShape, FreeFuture, NoPool
    <3>2. caller[c].pool \in Nat /\ generation \in Nat
      BY <2>3 DEF CallerShape, StateTyped
    <3>3. r \in FutureShape /\ r.key = caller[c].key /\ r.generation = generation
      BY <2>3, <3>1, <3>2 DEF FutureShape
    <3> QED
      BY <2>3, <3>2, <3>3 DEF GoodFuture
  <2>5. GoodCaller(q(f))
    BY <2>2, <2>3 DEF GoodCaller, CallerShape, NoPool
  <2>6. UNCHANGED <<data, cleared, cache, generation, life, closed, pool>>
    BY <1>6 DEF SubmitBuild
  <2> HIDE DEF r, q
  <2>7. FuturesTyped' /\ CallersTyped'
    BY <2>1, <2>2, <2>4, <2>5, <2>6, OneFuture, OneCaller
  <2> QED
    BY <2>1, <2>2, <2>6, <2>7 DEF StateTyped
<1>7. ASSUME NEW c \in Callers, AddCallback(c)
      PROVE  Typed'
  <2> DEFINE f == caller[c].future
  <2>1. f \in Futures
    BY <1>7 DEF AddCallback, CallersTyped, GoodCaller
  <2>2. GoodFuture([future[f] EXCEPT !.callback = TRUE], generation)
    BY <2>1 DEF FuturesTyped, GoodFuture, FutureShape
  <2>3. FuturesTyped'
    BY <1>7, <2>1, <2>2, OneFuture DEF AddCallback
  <2>4. CallersTyped'
    BY <1>7, IdleCallerGood, OneCaller DEF AddCallback
  <2> QED
    BY <1>7, <2>3, <2>4 DEF AddCallback, StateTyped
<1>8. ASSUME NEW f \in Futures, StartBuild(f)
      PROVE  Typed'
  <2>1. GoodFuture([future[f] EXCEPT !.state = "building"], generation)
    BY <1>8 DEF StartBuild, FuturesTyped, GoodFuture, FutureShape, Unfinished
  <2>2. FuturesTyped'
    BY <1>8, <2>1, OneFuture DEF StartBuild, FutureGoes
  <2> QED
    BY <1>8, <2>2 DEF StartBuild, StateTyped, CallersTyped
<1>9. ASSUME NEW f \in Futures, Build(f)
      PROVE  Typed'
  <2>1. \A v \in Nat : GoodFuture([future[f] EXCEPT !.state = "built", !.value = v], generation)
    BY <1>9 DEF Build, FuturesTyped, GoodFuture, FutureShape, Unfinished
  <2>2. GoodFuture(Ended(f, "failed"), generation)
    BY EndedGood DEF StateTyped, Finished
  <2>3. \/ \E v \in Nat : future' = [future EXCEPT ![f] =
                            [future[f] EXCEPT !.state = "built", !.value = v]]
        \/ future' = [future EXCEPT ![f] = Ended(f, "failed")]
    <3>1. CASE Finish(f, "failed")
      BY <3>1 DEF Finish
    <3>2. CASE \E block \in {0, data} :
                 future' = [future EXCEPT ![f].state = "built", ![f].value = block]
      <4>1. PICK block \in {0, data} :
              future' = [future EXCEPT ![f].state = "built", ![f].value = block]
        BY <3>2
      <4>2. future' = [future EXCEPT ![f] =
                         [future[f] EXCEPT !.state = "built", !.value = block]]
        BY <4>1 DEF FuturesTyped
      <4> QED
        BY <4>2 DEF StateTyped
    <3> QED
      BY <1>9, <3>1, <3>2 DEF Build
  <2>4. generation' = generation
    BY <1>9 DEF Build
  <2>5. FuturesTyped'
    BY <2>1, <2>2, <2>3, <2>4, OneFuture
  <2> QED
    BY <1>9, <2>5 DEF Build, StateTyped, CallersTyped
<1>10. ASSUME NEW f \in Futures, Put(f)
       PROVE  Typed'
  <2>1. cache' \in Entries
    <3>1. future[f].key \in Keys /\ future[f].value \in Nat
      BY <1>10, FutureFields DEF Put, Unfinished
    <3> QED
      BY <1>10, <3>1, PutEntryBlocks DEF StateTyped, Put
  <2>2. FuturesTyped'
    BY <1>10, EndedGood, OneFuture DEF Put, Finish, StateTyped, Finished
  <2> QED
    BY <1>10, <2>1, <2>2 DEF Put, StateTyped, CallersTyped
<1>11. ASSUME NEW f \in Futures, Forget(f)
       PROVE  Typed'
  <2>1. GoodFuture([future[f] EXCEPT !.callback = FALSE], generation)
    BY DEF FuturesTyped, GoodFuture, FutureShape
  <2>2. FuturesTyped'
    BY <1>11, <2>1, OneFuture DEF Forget
  <2>3. inflight' \in [Keys -> Futures \cup {NoFuture}]
    BY <1>11 DEF Forget, Forgotten, StateTyped
  <2> QED
    BY <1>11, <2>2, <2>3 DEF Forget, StateTyped, CallersTyped
<1>12. ASSUME NEW f \in Futures, Collect(f)
       PROVE  Typed'
  <2>1. FuturesTyped'
    BY <1>12, FreeFutureGood, OneFuture DEF Collect, StateTyped
  <2> QED
    BY <1>12, <2>1 DEF Collect, StateTyped, CallersTyped
<1>13. ASSUME generation' = generation + 1, UNCHANGED <<future, caller, pool>>,
              life' \in {life, generation + 1}, cache' = <<>>, cleared' = data,
              data' = data, closed' \in BOOLEAN,
              inflight' \in {inflight, [k \in Keys |-> NoFuture]}
       PROVE  Typed'
  <2>1. <<>> \in Entries
    BY DEF Entries
  <2>2. StateTyped'
    BY <1>13, <2>1 DEF StateTyped
  <2>3. FuturesTyped'
    BY <1>13 DEF StateTyped, FuturesTyped, GoodFuture, FutureShape
  <2> QED
    BY <1>13, <2>2, <2>3 DEF CallersTyped
<1>14. CASE Clear
  BY <1>13, <1>14 DEF Clear, StateTyped
<1>15. CASE Shutdown
  BY <1>13, <1>15 DEF Shutdown
<1>16. CASE Reopen
  BY <1>13, <1>16 DEF Reopen
<1>17. CASE ShutdownPool
  <2>1. \A f \in Futures : GoodFuture(Ended(f, "cancelled"), generation)
    BY EndedGood DEF StateTyped, Finished
  <2>2. FuturesTyped'
    BY <1>17, <2>1 DEF ShutdownPool, FuturesTyped
  <2> QED
    BY <1>17, <2>2 DEF ShutdownPool, StateTyped, CallersTyped
<1>18. CASE DropPool
  BY <1>18 DEF DropPool, NoPool, StateTyped, FuturesTyped, CallersTyped
<1>19. CASE UNCHANGED cacheVars
  BY <1>19 DEF cacheVars, StateTyped, FuturesTyped, CallersTyped
<1> QED
  BY <1>1, <1>2, <1>3, <1>4, <1>5, <1>6, <1>7, <1>8, <1>9, <1>10, <1>11, <1>12,
     <1>14, <1>15, <1>16, <1>17, <1>18, <1>19
     DEF CacheNext, CallerStep, FutureStep, OwnerStep

-----------------------------------------------------------------------------
(* Freshness.                                                              *)

\* A build keeps its generation and what it read until it lands.
LEMMA FreshInductive ==
  ASSUME Typed, Fresh, [CacheNext]_cacheVars
  PROVE  Fresh'
<1>0. /\ data \in Nat /\ cleared \in Nat /\ cleared <= data /\ generation \in Nat
      /\ cache \in Entries
      /\ \A f \in Futures : future[f].generation \in Nat /\ future[f].generation <= generation
  BY FutureFields DEF Typed, StateTyped
\* Steps of the futures: a future that is built afterwards and was not before
\* has just read the index.
<1>1. ASSUME UNCHANGED <<data, cleared, generation, cache>>,
             \A f \in Futures :
               future'[f].state = "built" =>
                 \/ future'[f] = future[f]
                 \/ future'[f].value \in {0, data}
      PROVE  Fresh'
  BY <1>0, <1>1 DEF Fresh
\* Invalidations: every future is of an earlier generation.
<1>2. ASSUME generation' = generation + 1, cache' = <<>>, cleared' = data, data' = data,
             future' = future
      PROVE  Fresh'
  <2>1. \A f \in Futures : future'[f].generation # generation'
    BY <1>0, <1>2
  <2>2. Len(cache') = 0
    BY <1>2
  <2> QED
    BY <2>1, <2>2 DEF Fresh
<1>3. CASE DataChange
  BY <1>0, <1>3 DEF Fresh, DataChange
<1>4. ASSUME NEW c \in Callers,
             GetPool(c) \/ CreatePool(c) \/ SubmitNoBuild(c) \/ (\E k \in Keys : Request(c, k))
      PROVE  Fresh'
  BY <1>1, <1>4 DEF GetPool, CreatePool, SubmitNoBuild, Request
<1>5. ASSUME NEW c \in Callers, SubmitBuild(c)
      PROVE  Fresh'
  <2>1. \A f \in Futures : future'[f].state = "built" => future'[f] = future[f]
    BY <1>5 DEF SubmitBuild, FreeFutures, FreeFuture, Typed, FuturesTyped
  <2> QED
    BY <1>1, <1>5, <2>1 DEF SubmitBuild
<1>6. ASSUME NEW c \in Callers, AddCallback(c)
      PROVE  Fresh'
  <2>1. \A f \in Futures : /\ future'[f].state = future[f].state
                           /\ future'[f].generation = future[f].generation
                           /\ future'[f].value = future[f].value
    <3>1. caller[c].future \in Futures
      BY <1>6 DEF AddCallback, Typed, CallersTyped, GoodCaller
    <3>2. \A f \in Futures : future[f] \in FutureShape
      BY FutureFields DEF Typed
    <3> QED
      BY <1>6, <3>1, <3>2 DEF AddCallback, Typed, FuturesTyped, FutureShape
  <2> QED
    BY <1>6, <2>1 DEF AddCallback, Fresh
<1>7. ASSUME NEW f \in Futures, StartBuild(f)
      PROVE  Fresh'
  <2>1. \A g \in Futures : future'[g].state = "built" => future'[g] = future[g]
    BY <1>7 DEF StartBuild, FutureGoes, Typed, FuturesTyped, GoodFuture, FutureShape
  <2> QED
    BY <1>1, <1>7, <2>1 DEF StartBuild
<1>8. ASSUME NEW f \in Futures, Build(f)
      PROVE  Fresh'
  <2>1. \A g \in Futures : future'[g] = future[g] \/ future'[g].state # "built"
                             \/ future'[g].value \in {0, data}
    BY <1>8, FutureFields
       DEF Build, Finish, Ended, FreeFuture, Typed, FuturesTyped, FutureShape
  <2> QED
    BY <1>1, <1>8, <2>1 DEF Build
<1>9. ASSUME NEW f \in Futures, Put(f)
      PROVE  Fresh'
  <2>1. \A g \in Futures : future'[g].state = "built" => future'[g] = future[g]
    BY <1>9 DEF Put, Finish, Ended, FreeFuture, Typed, FuturesTyped
  <2>2. \A n \in 1..Len(cache') : cache'[n].value \in cleared..data
    <3>1. CASE ~Lands(f)
      BY <1>9, <3>1 DEF Put, Fresh
    <3>2. CASE Lands(f)
      <4> DEFINE e == [key |-> future[f].key, value |-> future[f].value]
      <4>1. future[f].value \in cleared..data /\ future[f].key \in Keys
        BY <1>9, <3>2, FutureFields DEF Put, Lands, Fresh, Typed, Unfinished
      <4>2. \A n \in 1..Len(cache') :
              cache'[n] = e \/ \E m \in 1..Len(cache) : cache'[n] = cache[m]
        BY <1>0, <1>9, <3>2, <4>1, PutEntryBlocks DEF Put
      <4> QED
        BY <4>1, <4>2 DEF Fresh
    <3> QED
      BY <3>1, <3>2
  <2> QED
    BY <1>9, <2>1, <2>2 DEF Put, Fresh
<1>10. ASSUME NEW f \in Futures, Forget(f) \/ Collect(f)
       PROVE  Fresh'
  <2>1. \A g \in Futures : future'[g].state = "built" => future'[g] = future[g]
    <3>1. future[f].state \in Finished /\ future[f] \in FutureShape
      BY <1>10, FutureFields DEF Forget, Forgets, Collect, Typed
    <3>2. future'[f].state # "built"
      BY <1>10, <3>1
         DEF Forget, Collect, FreeFuture, Finished, FutureShape, Typed, FuturesTyped
    <3>3. \A g \in Futures : g # f => future'[g] = future[g]
      BY <1>10 DEF Forget, Collect, Typed, FuturesTyped
    <3> QED
      BY <3>2, <3>3
  <2> QED
    BY <1>1, <1>10, <2>1 DEF Forget, Collect
<1>11. CASE Clear \/ Shutdown \/ Reopen
  BY <1>2, <1>11 DEF Clear, Shutdown, Reopen
<1>12. CASE ShutdownPool
  <2>1. \A f \in Futures : future'[f].state = "built" => future'[f] = future[f]
    BY <1>12 DEF ShutdownPool, Ended, FreeFuture
  <2> QED
    BY <1>1, <1>12, <2>1 DEF ShutdownPool
<1>13. CASE DropPool \/ UNCHANGED cacheVars
  BY <1>1, <1>13 DEF DropPool, cacheVars
<1> QED
  BY <1>3, <1>4, <1>5, <1>6, <1>7, <1>8, <1>9, <1>10, <1>11, <1>12, <1>13
     DEF CacheNext, CallerStep, FutureStep, OwnerStep

-----------------------------------------------------------------------------
(* The builds in flight.                                                   *)

\* A closed cache neither accepts a build nor lets one land.
LEMMA ClosedEmptyInductive ==
  ASSUME Typed, ClosedEmpty, [CacheNext]_cacheVars
  PROVE  ClosedEmpty'
<1>0. inflight \in [Keys -> Futures \cup {NoFuture}]
  BY DEF Typed, StateTyped
<1>1. ASSUME NEW c \in Callers, SubmitBuild(c)
      PROVE  ClosedEmpty'
  BY <1>1 DEF ClosedEmpty, SubmitBuild, Answer
<1>2. ASSUME NEW f \in Futures, Put(f)
      PROVE  ClosedEmpty'
  BY <1>2 DEF ClosedEmpty, Put, Lands
<1>3. ASSUME NEW f \in Futures, Forget(f)
      PROVE  ClosedEmpty'
  BY <1>0, <1>3 DEF ClosedEmpty, Forget, Forgotten
<1>4. CASE Clear \/ Shutdown \/ Reopen
  BY <1>4 DEF ClosedEmpty, Clear, Shutdown, Reopen
<1>5. ASSUME UNCHANGED <<cache, inflight, closed>>
      PROVE  ClosedEmpty'
  BY <1>5 DEF ClosedEmpty
<1> QED
  BY <1>1, <1>2, <1>3, <1>4, <1>5
     DEF CacheNext, CallerStep, FutureStep, OwnerStep, DataChange, Request, GetPool,
         CreatePool, SubmitNoBuild, AddCallback, StartBuild, Build, Collect, ShutdownPool,
         DropPool, cacheVars

\* Only a build that has ended leaves the builds in flight, and by its own
\* callback or by the end of its life.
LEMMA TrackedInductive ==
  ASSUME Typed, Tracked, [CacheNext]_cacheVars
  PROVE  Tracked'
<1>0. /\ generation \in Nat /\ life \in Nat
      /\ inflight \in [Keys -> Futures \cup {NoFuture}]
      /\ \A f \in Futures : /\ future[f] \in FutureShape
                            /\ future[f].generation \in Nat
                            /\ future[f].generation <= generation
                            /\ future[f].state \in Unfinished => future[f].key \in Keys
  BY FutureFields DEF Typed, StateTyped
<1>1. ASSUME UNCHANGED <<inflight, life>>,
             \A f \in Futures : future'[f].state \in Unfinished =>
               /\ future[f].state \in Unfinished
               /\ future'[f].generation = future[f].generation
               /\ future'[f].key = future[f].key
      PROVE  Tracked'
  BY <1>1 DEF Tracked
<1>2. ASSUME life' = generation + 1, future' = future
      PROVE  Tracked'
  BY <1>0, <1>2 DEF Tracked
<1>3. ASSUME NEW c \in Callers, SubmitBuild(c)
      PROVE  Tracked'
  <2> DEFINE k == caller[c].key
  <2>1. PICK f \in Futures :
          /\ \A g \in Futures : future'[g] =
               IF g = f THEN [FreeFuture EXCEPT !.state = "pending", !.key = k,
                                !.generation = generation, !.pool = caller[c].pool]
               ELSE future[g]
          /\ inflight' = [inflight EXCEPT ![k] = f]
    BY <1>3 DEF SubmitBuild, FreeFutures, Typed, FuturesTyped
  <2>2. k \in Keys /\ inflight[k] = NoFuture
    BY <1>3 DEF SubmitBuild, Answer, Typed, CallersTyped, GoodCaller
  <2>3. inflight'[k] = f /\ future'[f].key = k
    BY <1>0, <2>1, <2>2 DEF FreeFuture
  <2>4. ASSUME NEW g \in Futures, g # f, future'[g].state \in Unfinished,
               future'[g].generation >= life
        PROVE  inflight'[future'[g].key] = g
    <3>1. inflight[future[g].key] = g /\ future[g].key \in Keys /\ future'[g] = future[g]
      BY <1>0, <2>1, <2>4 DEF Tracked
    <3>2. future[g].key # k
      BY <2>2, <3>1, CacheAssumption DEF NoFuture
    <3> QED
      BY <1>0, <2>1, <3>1, <3>2
  <2>5. life' = life
    BY <1>3 DEF SubmitBuild
  <2> QED
    BY <2>3, <2>4, <2>5 DEF Tracked
<1>4. ASSUME NEW f \in Futures, Forget(f)
      PROVE  Tracked'
  <2>1. future[f].state \in Finished
    BY <1>4 DEF Forget, Forgets
  <2>2. \A g \in Futures : /\ future'[g].state = future[g].state
                           /\ future'[g].generation = future[g].generation
                           /\ future'[g].key = future[g].key
    BY <1>0, <1>4 DEF Forget, Typed, FuturesTyped, FutureShape
  <2>3. ASSUME NEW g \in Futures, future[g].state \in Unfinished, future[g].generation >= life
        PROVE  inflight'[future[g].key] = g
    <3>1. inflight[future[g].key] = g /\ future[g].key \in Keys /\ g # f
      BY <1>0, <2>1, <2>3 DEF Tracked, Finished, Unfinished
    <3> QED
      BY <1>4, <3>1 DEF Forget, Forgotten
  <2>4. life' = life
    BY <1>4 DEF Forget
  <2> QED
    BY <2>2, <2>3, <2>4 DEF Tracked
<1>5. ASSUME NEW c \in Callers, AddCallback(c)
      PROVE  Tracked'
  <2>1. caller[c].future \in Futures
    BY <1>5 DEF AddCallback, Typed, CallersTyped, GoodCaller
  <2>2. \A f \in Futures : /\ future'[f].state = future[f].state
                           /\ future'[f].generation = future[f].generation
                           /\ future'[f].key = future[f].key
    BY <1>0, <1>5, <2>1 DEF AddCallback, Typed, FuturesTyped, FutureShape
  <2> QED
    BY <1>1, <1>5, <2>2 DEF AddCallback
<1>6. ASSUME NEW f \in Futures, StartBuild(f) \/ Build(f) \/ Put(f) \/ Collect(f)
      PROVE  Tracked'
  <2>1. \A g \in Futures : g # f => future'[g] = future[g]
    BY <1>6 DEF StartBuild, FutureGoes, Build, Finish, Put, Collect, Typed, FuturesTyped
  <2>2. future'[f].state \in Unfinished =>
          /\ future[f].state \in Unfinished
          /\ future'[f].generation = future[f].generation
          /\ future'[f].key = future[f].key
    <3>1. CASE StartBuild(f)
      BY <1>0, <3>1 DEF StartBuild, FutureGoes, Unfinished, FutureShape, Typed, FuturesTyped
    <3>2. CASE Build(f)
      <4>1. future[f].state \in Unfinished
        BY <3>2 DEF Build, Unfinished
      <4>2. CASE Finish(f, "failed")
        BY <4>2 DEF Finish, Ended, FreeFuture, Unfinished, Typed, FuturesTyped
      <4>3. CASE ~Finish(f, "failed")
        BY <1>0, <3>2, <4>1, <4>3 DEF Build, FutureShape, Typed, FuturesTyped
      <4> QED
        BY <4>2, <4>3
    <3>3. CASE Put(f)
      BY <3>3 DEF Put, Finish, Ended, FreeFuture, Unfinished, Typed, FuturesTyped
    <3>4. CASE Collect(f)
      BY <3>4 DEF Collect, FreeFuture, Unfinished, Typed, FuturesTyped
    <3> QED
      BY <1>6, <3>1, <3>2, <3>3, <3>4
  <2>3. UNCHANGED <<inflight, life>>
    BY <1>6 DEF StartBuild, Build, Put, Collect
  <2> QED
    BY <1>1, <2>1, <2>2, <2>3
<1>7. CASE ShutdownPool
  <2>1. \A f \in Futures : future'[f].state \in Unfinished => future'[f] = future[f]
    BY <1>7 DEF ShutdownPool, Ended, FreeFuture, Unfinished
  <2> QED
    BY <1>1, <1>7, <2>1 DEF ShutdownPool
<1>8. CASE Shutdown \/ Reopen
  BY <1>2, <1>8 DEF Shutdown, Reopen
<1>9. CASE UNCHANGED <<inflight, life, future>>
  BY <1>1, <1>9
<1> QED
  BY <1>3, <1>4, <1>5, <1>6, <1>7, <1>8, <1>9
     DEF CacheNext, CallerStep, FutureStep, OwnerStep, DataChange, Request, GetPool,
         CreatePool, SubmitNoBuild, Clear, DropPool, cacheVars

-----------------------------------------------------------------------------
(* Theorems.                                                               *)

\* The inductive invariant holds initially.
LEMMA CacheInvInit == CacheInit => CacheInv
<1> SUFFICES ASSUME CacheInit PROVE CacheInv
  OBVIOUS
<1>1. <<>> \in Entries /\ Len(<<>>) = 0
  BY DEF Entries
<1>2. Typed
  <2>1. StateTyped
    <3>1. inflight \in [Keys -> Futures \cup {NoFuture}]
      BY DEF CacheInit
    <3>2. cache \in Entries /\ closed \in BOOLEAN
      BY <1>1 DEF CacheInit
    <3> QED
      BY <3>1, <3>2 DEF CacheInit, StateTyped, NoPool
  <2>2. FuturesTyped /\ CallersTyped
    BY FreeFutureGood, IdleCallerGood DEF CacheInit, FuturesTyped, CallersTyped
  <2> QED
    BY <2>1, <2>2 DEF Typed
<1>3. Fresh
  BY <1>1 DEF CacheInit, Fresh, FreeFuture
<1>4. ClosedEmpty /\ Tracked
  BY DEF CacheInit, ClosedEmpty, Tracked, FreeFuture, Unfinished
<1> QED
  BY <1>2, <1>3, <1>4 DEF CacheInv

\* Types, freshness, the emptiness of a closed cache and the tracking of
\* builds hold in every reachable state.
THEOREM CacheInvariance == CacheSpec => []CacheInv
<1>1. CacheInv /\ [CacheNext]_cacheVars => CacheInv'
  BY TypedInductive, FreshInductive, ClosedEmptyInductive, TrackedInductive DEF CacheInv
<1> QED
  BY <1>1, CacheInvInit, PTL DEF CacheSpec

\* A closed cache holds no entry and no build in flight, whatever builds of an
\* earlier life still run.
THEOREM ClosedStaysEmpty == CacheSpec => []ClosedEmpty
<1>1. CacheInv => ClosedEmpty
  BY DEF CacheInv
<1> QED
  BY <1>1, CacheInvariance, PTL

\* Every unfinished build of the present life is the one in flight for its key.
THEOREM BuildsTracked == CacheSpec => []Tracked
<1>1. CacheInv => Tracked
  BY DEF CacheInv
<1> QED
  BY <1>1, CacheInvariance, PTL

\* Each step of the cache is a step of ContextCache or changes nothing it can
\* see.
LEMMA StepKeepsPromise ==
  ASSUME Typed, Fresh, [CacheNext]_cacheVars
  PROVE  [Context!ContextNext]_(Context!contextVars)
<1> DEFINE blocksOf(s) == {s[n] : n \in 1..Len(s)}
<1>0. cache \in Entries /\ closed \in BOOLEAN
  BY DEF Typed, StateTyped
<1>1. CASE DataChange
  BY <1>1 DEF DataChange, Context!ContextNext, Context!Change
<1>2. CASE Clear
  <2>1. Context!Invalidate
    BY <1>2 DEF Clear, Context!Invalidate, Context!Invalidated
  <2> QED
    BY <2>1 DEF Context!ContextNext
<1>3. CASE Shutdown
  <2>1. Context!Close
    BY <1>3 DEF Shutdown, Context!Close, Context!Invalidated
  <2> QED
    BY <2>1 DEF Context!ContextNext
<1>4. CASE Reopen
  <2>1. Context!Reopen
    BY <1>4 DEF Reopen, Context!Reopen, Context!Invalidated
  <2> QED
    BY <2>1 DEF Context!ContextNext
<1>5. ASSUME NEW f \in Futures, Put(f), Lands(f)
      PROVE  Context!ContextNext
  <2>1. PICK k, v : k = future[f].key /\ v = future[f].value
    OBVIOUS
  <2>2. k \in Keys /\ v \in Nat /\ v \in cleared..data
    BY <2>1, <1>5, FutureFields DEF Put, Lands, Fresh, Typed, Unfinished
  <2>3. /\ cache' = PutEntry(cache, k, v)
        /\ UNCHANGED <<data, cleared, closed>>
        /\ ~closed
    BY <2>1, <1>5 DEF Put, Lands
  <2> DEFINE put == PutEntry(cache, k, v)
  <2>9. cache \in Entries /\ k \in Keys /\ v \in Nat
    BY <1>0, <2>2
  <2>4. /\ \E n \in 1..Len(put) : put[n] = [key |-> k, value |-> v]
        /\ \A n \in 1..Len(put) :
             \/ put[n] = [key |-> k, value |-> v]
             \/ \E m \in 1..Len(cache) : put[n] = cache[m] /\ cache[m].key # k
    BY ONLY <2>9, PutEntryBlocks
  <2>5. /\ \E n \in 1..Len(cache') : cache'[n] = [key |-> k, value |-> v]
        /\ \A n \in 1..Len(cache') :
             \/ cache'[n] = [key |-> k, value |-> v]
             \/ \E m \in 1..Len(cache) : cache'[n] = cache[m] /\ cache[m].key # k
    BY <2>3, <2>4
  <2>6. [key |-> k, value |-> v] \in blocksOf(cache')
    BY <2>5
  <2>7. blocksOf(cache') \in
          SUBSET ({b \in blocksOf(cache) : b.key # k} \cup {[key |-> k, value |-> v]})
    BY <2>5
  <2>8. Context!Warm(k)
    BY <2>2, <2>3, <2>6, <2>7 DEF Context!Warm
  <2> QED
    BY <2>2, <2>8 DEF Context!ContextNext
<1>6. CASE UNCHANGED <<data, cleared, cache, closed>>
  BY <1>6 DEF Context!contextVars
<1>7. \/ DataChange \/ Clear \/ Shutdown \/ Reopen
      \/ \E f \in Futures : Put(f) /\ Lands(f)
      \/ UNCHANGED <<data, cleared, cache, closed>>
  BY DEF CacheNext, CallerStep, FutureStep, OwnerStep, Request, GetPool, CreatePool,
         SubmitNoBuild, SubmitBuild, AddCallback, StartBuild, Build, Put, Forget, Collect,
         ShutdownPool, DropPool, cacheVars
<1> QED
  BY <1>1, <1>2, <1>3, <1>4, <1>5, <1>6, <1>7

\* The cache implements ContextCache: whatever builds are overtaken by clear,
\* shutdown and reopen, no block is older than the last invalidation.
THEOREM PromiseKept == CacheSpec => KeepsPromise
<1>1. CacheInit => Context!ContextInit
  BY DEF CacheInit, Context!ContextInit
<1>2. CacheInv /\ [CacheNext]_cacheVars => [Context!ContextNext]_(Context!contextVars)
  BY StepKeepsPromise DEF CacheInv
<1> QED
  BY <1>1, <1>2, CacheInvariance, PTL DEF CacheSpec, KeepsPromise, Context!ContextSpec

-----------------------------------------------------------------------------
(* Bounds: the entries, the builds in flight, the pools.                   *)

BoundFuture(r) == r.pool <= MaxPools /\ r.value <= MaxVersion
BoundCaller(r) == r.pool <= MaxPools

Bounded ==
  /\ data <= MaxVersion
  /\ generation <= MaxGeneration
  /\ pool <= MaxPools
  /\ pools \in [1..MaxPools -> {"new", "open", "shut"}]
  /\ owner \in {"idle", "pool", "drop"}
  /\ \A f \in Futures : BoundFuture(future[f])
  /\ \A c \in Callers : BoundCaller(caller[c])

\* No more entries than fit, and one to a key.
OneToAKey(entries) ==
  /\ Len(entries) <= MaxSize
  /\ \A m, n \in 1..Len(entries) : entries[m].key = entries[n].key => m = n

PendingKeys == {k \in Keys : inflight[k] # NoFuture}

\* Only finitely many keys ever wait, however many there are.
FewPending == IsFiniteSet(PendingKeys) /\ Cardinality(PendingKeys) <= MaxPending

CacheBounds == Bounded /\ OneToAKey(cache) /\ FewPending

\* A future that changes, or a caller that moves, within the bounds.
LEMMA OneBoundFuture ==
  ASSUME Typed, Bounded, NEW f \in Futures, NEW r, BoundFuture(r),
         future' = [future EXCEPT ![f] = r]
  PROVE  \A g \in Futures : BoundFuture(future'[g])
  BY DEF Typed, FuturesTyped, Bounded

\* The same for a caller.
LEMMA OneBoundCaller ==
  ASSUME Typed, Bounded, NEW c \in Callers, NEW r, BoundCaller(r), CallerGoes(c, r)
  PROVE  \A d \in Callers : BoundCaller(caller'[d])
  BY DEF Typed, CallersTyped, CallerGoes, Bounded

\* What has no pool and no value is within the bounds.
LEMMA NothingBound ==
  /\ BoundCaller(IdleCaller)
  /\ BoundFuture(FreeFuture)
  /\ \A f, s : BoundFuture(Ended(f, s))
  BY CacheAssumption DEF BoundCaller, BoundFuture, IdleCaller, FreeFuture, Ended, NoPool

\* Every counter stays within its bound.
LEMMA BoundedInductive ==
  ASSUME Typed, Bounded, [CacheNext]_cacheVars
  PROVE  Bounded'
<1>0. /\ data \in Nat /\ generation \in Nat /\ pool \in Nat
      /\ MaxPools \in Nat /\ MaxGeneration \in Nat /\ MaxVersion \in Nat
      /\ \A f \in Futures : future[f] \in FutureShape /\ BoundFuture(future[f])
      /\ \A c \in Callers : caller[c] \in CallerShape /\ BoundCaller(caller[c])
      /\ pools \in [1..MaxPools -> {"new", "open", "shut"}]
  BY FutureFields, CacheAssumption
     DEF Typed, StateTyped, CallersTyped, GoodCaller, Bounded
<1>1. ASSUME UNCHANGED <<data, generation, pool, pools, owner>>,
             future' = future \/ \A f \in Futures : BoundFuture(future'[f]),
             caller' = caller \/ \A c \in Callers : BoundCaller(caller'[c])
      PROVE  Bounded'
  BY <1>1 DEF Bounded
<1>2. ASSUME UNCHANGED <<future, caller>>,
             data' <= MaxVersion, generation' <= MaxGeneration, pool' <= MaxPools,
             pools' \in [1..MaxPools -> {"new", "open", "shut"}],
             owner' \in {"idle", "pool", "drop"}
      PROVE  Bounded'
  BY <1>2 DEF Bounded
<1>3. CASE DataChange
  BY <1>0, <1>2, <1>3 DEF DataChange, Bounded
<1>4. ASSUME NEW c \in Callers, NEW k \in Keys, Request(c, k)
      PROVE  Bounded'
  <2>1. BoundCaller([IdleCaller EXCEPT !.pc = "pool", !.key = k])
    BY <1>0 DEF BoundCaller, IdleCaller, NoPool
  <2> QED
    BY <1>1, <1>4, <2>1, OneBoundCaller DEF Request
<1>5. ASSUME NEW c \in Callers, GetPool(c)
      PROVE  Bounded'
  <2>1. /\ BoundCaller([caller[c] EXCEPT !.pc = "submit", !.pool = pool])
        /\ BoundCaller([caller[c] EXCEPT !.pc = "create"])
    BY <1>0 DEF BoundCaller, CallerShape, Bounded
  <2>2. PICK r : BoundCaller(r) /\ CallerGoes(c, r)
    BY <1>5, <2>1, NothingBound DEF GetPool
  <2> QED
    BY <1>1, <1>5, <2>2, OneBoundCaller DEF GetPool
<1>6. ASSUME NEW c \in Callers, CreatePool(c)
      PROVE  Bounded'
  <2>1. PICK p \in Nat : /\ p <= MaxPools
                         /\ pool' = p
                         /\ pools' \in [1..MaxPools -> {"new", "open", "shut"}]
                         /\ CallerGoes(c, [caller[c] EXCEPT !.pc = "submit", !.pool = p])
    <3>1. CASE pool # NoPool
      BY <1>0, <1>6, <3>1 DEF CreatePool, Bounded
    <3>2. CASE pool = NoPool
      <4>1. PICK p \in NewPools : /\ pool' = p
                                  /\ pools' = [pools EXCEPT ![p] = "open"]
                                  /\ CallerGoes(c, [caller[c] EXCEPT !.pc = "submit", !.pool = p])
        BY <1>6, <3>2 DEF CreatePool
      <4>2. p \in Nat /\ p <= MaxPools
        BY <1>0 DEF NewPools
      <4>3. pools' \in [1..MaxPools -> {"new", "open", "shut"}]
        BY <1>0, <4>1
      <4> QED
        BY <4>1, <4>2, <4>3
    <3> QED
      BY <3>1, <3>2
  <2>2. BoundCaller([caller[c] EXCEPT !.pc = "submit", !.pool = p])
    BY <1>0, <2>1 DEF BoundCaller, CallerShape
  <2>3. \A d \in Callers : BoundCaller(caller'[d])
    BY <2>1, <2>2, OneBoundCaller
  <2> QED
    BY <1>6, <2>1, <2>3 DEF CreatePool, Bounded
<1>7. ASSUME NEW c \in Callers, SubmitNoBuild(c)
      PROVE  Bounded'
  BY <1>1, <1>7, NothingBound, OneBoundCaller DEF SubmitNoBuild
<1>8. ASSUME NEW c \in Callers, SubmitBuild(c)
      PROVE  Bounded'
  <2> DEFINE r == [FreeFuture EXCEPT !.state = "pending", !.key = caller[c].key,
                                     !.generation = generation, !.pool = caller[c].pool]
             q(f) == [caller[c] EXCEPT !.pc = "callback", !.pool = NoPool, !.future = f]
  <2>1. PICK f \in Futures : /\ future' = [future EXCEPT ![f] = r]
                             /\ CallerGoes(c, q(f))
    BY <1>8 DEF SubmitBuild, FreeFutures
  <2>2. BoundFuture(r)
    BY <1>0 DEF BoundFuture, BoundCaller, FreeFuture
  <2>3. BoundCaller(q(f))
    BY <1>0 DEF BoundCaller, CallerShape, NoPool
  <2> HIDE DEF r, q
  <2>4. \A g \in Futures : BoundFuture(future'[g])
    BY <2>1, <2>2, OneBoundFuture
  <2>5. \A d \in Callers : BoundCaller(caller'[d])
    BY <2>1, <2>3, OneBoundCaller
  <2> QED
    BY <1>1, <1>8, <2>4, <2>5 DEF SubmitBuild
<1>9. ASSUME NEW c \in Callers, AddCallback(c)
      PROVE  Bounded'
  <2>1. caller[c].future \in Futures
    BY <1>9 DEF AddCallback, Typed, CallersTyped, GoodCaller
  <2>2. BoundFuture([future[caller[c].future] EXCEPT !.callback = TRUE])
    BY <1>0, <2>1 DEF BoundFuture, FutureShape
  <2>3. \A g \in Futures : BoundFuture(future'[g])
    BY <1>9, <2>1, <2>2, OneBoundFuture DEF AddCallback
  <2>4. \A d \in Callers : BoundCaller(caller'[d])
    BY <1>9, NothingBound, OneBoundCaller DEF AddCallback
  <2> QED
    BY <1>1, <1>9, <2>3, <2>4 DEF AddCallback
<1>10. ASSUME NEW f \in Futures, NEW r, BoundFuture(r), future' = [future EXCEPT ![f] = r],
              UNCHANGED <<data, generation, pool, pools, owner, caller>>
       PROVE  Bounded'
  BY <1>1, <1>10, OneBoundFuture
<1>11. ASSUME NEW f \in Futures, StartBuild(f)
       PROVE  Bounded'
  <2>1. BoundFuture([future[f] EXCEPT !.state = "building"])
    BY <1>0 DEF BoundFuture, FutureShape
  <2> QED
    BY <1>10, <1>11, <2>1 DEF StartBuild, FutureGoes
<1>12. ASSUME NEW f \in Futures, Build(f)
       PROVE  Bounded'
  <2>1. CASE Finish(f, "failed")
    BY <1>10, <1>12, <2>1, NothingBound DEF Build, Finish
  <2>2. CASE ~Finish(f, "failed")
    <3>1. PICK block \in {0, data} :
            future' = [future EXCEPT ![f].state = "built", ![f].value = block]
      BY <1>12, <2>2 DEF Build
    <3>2. future' = [future EXCEPT ![f] = [future[f] EXCEPT !.state = "built", !.value = block]]
      BY <3>1 DEF Typed, FuturesTyped
    <3>3. BoundFuture([future[f] EXCEPT !.state = "built", !.value = block])
      BY <1>0 DEF BoundFuture, FutureShape, Bounded
    <3> QED
      BY <1>10, <1>12, <3>2, <3>3 DEF Build
  <2> QED
    BY <2>1, <2>2
<1>13. ASSUME NEW f \in Futures, Put(f)
       PROVE  Bounded'
  BY <1>10, <1>13, NothingBound DEF Put, Finish
<1>14. ASSUME NEW f \in Futures, Forget(f)
       PROVE  Bounded'
  <2>1. BoundFuture([future[f] EXCEPT !.callback = FALSE])
    BY <1>0 DEF BoundFuture, FutureShape
  <2> QED
    BY <1>10, <1>14, <2>1 DEF Forget
<1>15. ASSUME NEW f \in Futures, Collect(f)
       PROVE  Bounded'
  BY <1>10, <1>15, NothingBound DEF Collect
<1>16. CASE Clear \/ Shutdown \/ Reopen
  BY <1>0, <1>2, <1>16 DEF Clear, Shutdown, Reopen, Bounded
<1>17. CASE ShutdownPool
  <2>1. \A f \in Futures : BoundFuture(future'[f])
    BY <1>0, <1>17, NothingBound DEF ShutdownPool
  <2>2. pools' \in [1..MaxPools -> {"new", "open", "shut"}]
    BY <1>0, <1>17 DEF ShutdownPool
  <2> QED
    BY <1>17, <2>1, <2>2 DEF ShutdownPool, Bounded
<1>18. CASE DropPool
  BY <1>0, <1>2, <1>18 DEF DropPool, NoPool, Bounded
<1>19. CASE UNCHANGED cacheVars
  BY <1>1, <1>19 DEF cacheVars
<1> QED
  BY <1>3, <1>4, <1>5, <1>6, <1>7, <1>8, <1>9, <1>11, <1>12, <1>13, <1>14, <1>15, <1>16, <1>17,
     <1>18, <1>19 DEF CacheNext, CallerStep, FutureStep, OwnerStep

\* An assignment to a full cache pushes one entry out before it adds one, and an assignment to a
\* key that is there adds none.
LEMMA PutEntryBounds ==
  ASSUME NEW entries \in Entries, OneToAKey(entries), NEW k \in Keys, NEW v \in Nat
  PROVE  OneToAKey(PutEntry(entries, k, v))
<1> DEFINE e == [key |-> k, value |-> v]
           E == [key : Keys, value : Nat]
           put == PutEntry(entries, k, v)
<1>1. entries \in Seq(E) /\ Len(entries) \in Nat /\ e \in E /\ e.key = k
  BY DEF Entries
<1> HIDE DEF e, E
<1>2. CASE \E n \in 1..Len(entries) : entries[n].key = k
  <2> DEFINE s == [n \in 1..Len(entries) |-> IF entries[n].key = k THEN e ELSE entries[n]]
  <2>1. put = s
    BY <1>2 DEF PutEntry, e
  <2>2. s \in Seq(E) /\ Len(s) = Len(entries)
    <3>1. s \in [1..Len(entries) -> E]
      BY <1>1
    <3> QED
      BY <1>1, <3>1, SeqDef
  <2>3. \A n \in 1..Len(s) : s[n].key = entries[n].key
    BY <1>1, <2>2
  <2> QED
    BY <2>1, <2>2, <2>3 DEF OneToAKey
<1>3. CASE ~\E n \in 1..Len(entries) : entries[n].key = k
  <2> DEFINE kept == IF Len(entries) >= MaxSize THEN Tail(entries) ELSE entries
  <2>1. put = Append(kept, e)
    BY <1>3 DEF PutEntry, e
  <2>2. /\ kept \in Seq(E) /\ Len(kept) \in Nat /\ Len(kept) < MaxSize
        /\ \A m, n \in 1..Len(kept) : kept[m].key = kept[n].key => m = n
        /\ \A n \in 1..Len(kept) : kept[n].key # k
    <3>1. CASE Len(entries) >= MaxSize
      <4>1. entries # <<>> /\ Len(entries) = MaxSize /\ MaxSize \in Nat \ {0}
        BY <1>1, <3>1, CacheAssumption DEF OneToAKey
      <4>2. Tail(entries) \in Seq(E) /\ Len(Tail(entries)) = Len(entries) - 1
            /\ \A n \in 1..Len(Tail(entries)) : Tail(entries)[n] = entries[n + 1]
        BY <1>1, <4>1
      <4>3. \A n \in 1..Len(Tail(entries)) : n + 1 \in 1..Len(entries)
        BY <1>1, <4>2
      <4>4. \A m, n \in 1..Len(Tail(entries)) :
              Tail(entries)[m].key = Tail(entries)[n].key => m = n
        BY <1>1, <4>2, <4>3 DEF OneToAKey
      <4> QED
        BY <1>1, <1>3, <3>1, <4>1, <4>2, <4>3, <4>4
    <3>2. CASE ~(Len(entries) >= MaxSize)
      BY <1>1, <1>3, <3>2, CacheAssumption DEF OneToAKey
    <3> QED
      BY <3>1, <3>2
  <2> HIDE DEF kept
  <2>3. /\ Len(put) = Len(kept) + 1
        /\ put[Len(kept) + 1] = e
        /\ \A n \in 1..Len(kept) : put[n] = kept[n]
    BY <1>1, <2>1, <2>2
  <2>4. \A n \in 1..Len(put) : n = Len(kept) + 1 \/ n \in 1..Len(kept)
    BY <2>2, <2>3
  <2>5. Len(put) <= MaxSize
    BY <2>2, <2>3, CacheAssumption
  <2>6. \A m, n \in 1..Len(put) : put[m].key = put[n].key => m = n
    BY <1>1, <2>2, <2>3, <2>4
  <2> QED
    BY <2>5, <2>6 DEF OneToAKey
<1> QED
  BY <1>2, <1>3

\* The entries stay within their bound.
LEMMA EntriesInductive ==
  ASSUME Typed, OneToAKey(cache), [CacheNext]_cacheVars
  PROVE  OneToAKey(cache')
<1>1. ASSUME NEW f \in Futures, Put(f) PROVE OneToAKey(cache')
  <2>1. future[f].key \in Keys /\ future[f].value \in Nat /\ cache \in Entries
    BY <1>1, FutureFields DEF Put, Unfinished, Typed, StateTyped
  <2> QED
    BY <1>1, <2>1, PutEntryBounds DEF Put
<1>2. CASE cache' = <<>>
  BY <1>2, CacheAssumption DEF OneToAKey
<1>3. CASE cache' = cache
  BY <1>3
<1> QED
  BY <1>1, <1>2, <1>3 DEF CacheNext, CallerStep, FutureStep, OwnerStep, DataChange, Request,
     GetPool, CreatePool, SubmitNoBuild, SubmitBuild, AddCallback, StartBuild, Build, Forget,
     Collect, Clear, Shutdown, ShutdownPool, DropPool, Reopen, cacheVars

\* A build is put in flight only while fewer than the cap are.
LEMMA PendingInductive ==
  ASSUME Typed, FewPending, [CacheNext]_cacheVars
  PROVE  FewPending'
<1>0. /\ inflight \in [Keys -> Futures \cup {NoFuture}]
      /\ MaxPending \in Nat /\ IsFiniteSet(PendingKeys) /\ Cardinality(PendingKeys) \in Nat
      /\ Pending = Cardinality(PendingKeys)
  BY CacheAssumption, FS_CardinalityType
     DEF Typed, StateTyped, MaxPending, FewPending, PendingKeys, Pending
<1>1. ASSUME PendingKeys' \subseteq PendingKeys PROVE FewPending'
  <2>1. IsFiniteSet(PendingKeys') /\ Cardinality(PendingKeys') <= Cardinality(PendingKeys)
    BY <1>0, <1>1, FS_Subset
  <2>2. Cardinality(PendingKeys') \in Nat
    BY <2>1, FS_CardinalityType
  <2> QED
    BY <1>0, <2>1, <2>2 DEF FewPending, MaxPending
<1>2. ASSUME NEW c \in Callers, SubmitBuild(c) PROVE FewPending'
  <2> DEFINE k == caller[c].key
  <2>1. k \in Keys /\ inflight[k] = NoFuture /\ ~(Pending >= MaxPending)
    BY <1>2 DEF SubmitBuild, Answer, Typed, CallersTyped, GoodCaller
  <2>2. PendingKeys' \subseteq PendingKeys \cup {k}
    BY <1>0, <1>2 DEF SubmitBuild, PendingKeys
  <2>3. /\ IsFiniteSet(PendingKeys \cup {k})
        /\ Cardinality(PendingKeys \cup {k}) <= Cardinality(PendingKeys) + 1
    BY <1>0, FS_AddElement
  <2>4. /\ IsFiniteSet(PendingKeys')
        /\ Cardinality(PendingKeys') <= Cardinality(PendingKeys \cup {k})
    BY <2>2, <2>3, FS_Subset
  <2>5. Cardinality(PendingKeys') \in Nat /\ Cardinality(PendingKeys \cup {k}) \in Nat
    BY <2>3, <2>4, FS_CardinalityType
  <2> QED
    BY <1>0, <2>1, <2>3, <2>4, <2>5 DEF FewPending, MaxPending
<1>3. ASSUME NEW f \in Futures, Forget(f) PROVE FewPending'
  <2>1. PendingKeys' \subseteq PendingKeys
    BY <1>3 DEF Forget, Forgotten, PendingKeys
  <2> QED
    BY <1>1, <2>1
<1>4. CASE inflight' = [k \in Keys |-> NoFuture]
  <2>1. PendingKeys' \subseteq PendingKeys
    BY <1>4 DEF PendingKeys
  <2> QED
    BY <1>1, <2>1
<1>5. CASE inflight' = inflight
  <2>1. PendingKeys' \subseteq PendingKeys
    BY <1>5 DEF PendingKeys
  <2> QED
    BY <1>1, <2>1
<1> QED
  BY <1>2, <1>3, <1>4, <1>5 DEF CacheNext, CallerStep, FutureStep, OwnerStep, DataChange, Request,
     GetPool, CreatePool, SubmitNoBuild, AddCallback, StartBuild, Build, Put, Collect, Clear,
     Shutdown, ShutdownPool, DropPool, Reopen, cacheVars

\* Typing and freshness, brought within the bounds.
LEMMA BoundsGiveTypes ==
  ASSUME CacheInv, CacheBounds
  PROVE  CacheTypeOK
<1>0. /\ Typed /\ Fresh /\ Bounded /\ OneToAKey(cache) /\ FewPending
  BY DEF CacheInv, CacheBounds
<1>1. /\ data \in 1..MaxVersion /\ cleared \in 1..MaxVersion
      /\ generation \in 0..MaxGeneration /\ life \in 0..generation
      /\ pool \in 0..MaxPools
  BY <1>0, CacheAssumption DEF Typed, StateTyped, Bounded
<1>2. cache \in Seq(Entry)
  <2>1. cache \in Seq([key : Keys, value : Nat]) /\ Len(cache) \in Nat
    BY <1>0 DEF Typed, StateTyped, Entries
  <2>2. \A n \in 1..Len(cache) : cache[n] \in Entry
    <3>1. ASSUME NEW n \in 1..Len(cache) PROVE cache[n] \in Entry
      <4>1. cache[n] \in [key : Keys, value : Nat]
        BY <2>1, ElementOfSeq
      <4>2. cache[n].value \in 1..MaxVersion
        BY <1>0, <1>1, <4>1, CacheAssumption DEF Fresh
      <4> QED
        BY <4>1, <4>2 DEF Entry
    <3> QED
      BY <3>1
  <2>3. cache = [n \in 1..Len(cache) |-> cache[n]]
    BY <2>1, LenProperties
  <2>4. cache \in [1..Len(cache) -> Entry]
    BY <2>2, <2>3
  <2> QED
    BY <2>1, <2>4, SeqDef
<1>3. future \in [Futures -> FutureRecord]
  <2>1. ASSUME NEW f \in Futures PROVE future[f] \in FutureRecord
    <3>1. /\ future[f] \in FutureShape /\ BoundFuture(future[f])
          /\ future[f].generation <= generation
      BY <1>0, FutureFields DEF Typed, Bounded
    <3>2. /\ future[f].generation \in 0..MaxGeneration
          /\ future[f].pool \in 0..MaxPools /\ future[f].value \in 0..MaxVersion
      BY <1>1, <3>1, CacheAssumption DEF FutureShape, BoundFuture
    <3> QED
      BY <3>1, <3>2 DEF FutureShape, FutureRecord, Unfinished, Finished
  <2>2. future = [f \in Futures |-> future[f]]
    BY <1>0 DEF Typed, FuturesTyped
  <2> QED
    BY <2>1, <2>2
<1>4. caller \in [Callers -> CallerRecord]
  <2>1. ASSUME NEW c \in Callers PROVE caller[c] \in CallerRecord
    <3>1. caller[c] \in CallerShape /\ BoundCaller(caller[c])
      BY <1>0 DEF Typed, CallersTyped, GoodCaller, Bounded
    <3>2. caller[c].pool \in 0..MaxPools
      BY <3>1, CacheAssumption DEF CallerShape, BoundCaller
    <3> QED
      BY <3>1, <3>2 DEF CallerShape, CallerRecord
  <2>2. caller = [c \in Callers |-> caller[c]]
    BY <1>0 DEF Typed, CallersTyped
  <2> QED
    BY <2>1, <2>2
<1>5. Pending <= MaxPending
  BY <1>0 DEF FewPending, PendingKeys, Pending
<1>6. closed \in BOOLEAN /\ inflight \in [Keys -> Futures \cup {NoFuture}]
  BY <1>0 DEF Typed, StateTyped
<1>7. Len(cache) <= MaxSize /\ \A m, n \in 1..Len(cache) : cache[m].key = cache[n].key => m = n
  BY <1>0 DEF OneToAKey
<1>8. owner \in {"idle", "pool", "drop"} /\ pools \in [1..MaxPools -> {"new", "open", "shut"}]
  BY <1>0 DEF Bounded
<1> QED
  BY <1>1, <1>2, <1>3, <1>4, <1>5, <1>6, <1>7, <1>8 DEF CacheTypeOK

\* The cache never holds more than MaxSize entries nor two of one key, never has more builds in
\* flight than the cap, and its variables keep their types.
THEOREM CacheTyping == CacheSpec => []CacheTypeOK
<1>1. CacheInit => CacheInv /\ CacheBounds
  <2> SUFFICES ASSUME CacheInit PROVE CacheInv /\ CacheBounds
    OBVIOUS
  <2>1. Bounded
    BY CacheAssumption DEF CacheInit, Bounded, BoundFuture, BoundCaller, FreeFuture, IdleCaller, NoPool
  <2>2. OneToAKey(cache)
    BY CacheAssumption DEF CacheInit, OneToAKey
  <2>3. PendingKeys = {}
    BY DEF CacheInit, PendingKeys
  <2>4. FewPending
    BY <2>3, FS_EmptySet, CacheAssumption DEF FewPending, MaxPending
  <2> QED
    BY <2>1, <2>2, <2>4, CacheInvInit DEF CacheBounds
<1>2. CacheInv /\ CacheBounds /\ [CacheNext]_cacheVars => CacheBounds'
  <2> SUFFICES ASSUME CacheInv, CacheBounds, [CacheNext]_cacheVars PROVE CacheBounds'
    OBVIOUS
  <2>1. Typed /\ Bounded /\ OneToAKey(cache) /\ FewPending
    BY DEF CacheInv, CacheBounds
  <2>2. Bounded' /\ FewPending'
    BY <2>1, BoundedInductive, PendingInductive
  <2>3. OneToAKey(cache')
    BY <2>1, EntriesInductive
  <2> QED
    BY <2>2, <2>3 DEF CacheBounds, OneToAKey
<1>3. CacheInv /\ CacheBounds => CacheTypeOK
  BY BoundsGiveTypes
<1> QED
  BY <1>1, <1>2, <1>3, CacheInvariance, PTL DEF CacheSpec

=============================================================================
