--------------------------- MODULE MCPrefetchCache ---------------------------
(* The prefetch cache with three queries and two turn threads.  With every *)
(* interleaving of both turns the state graph is too large for checking    *)
(* liveness, so the second turn and the third query come in only where     *)
(* they make a difference: see Bounded.                                    *)
EXTENDS PrefetchCache

CONSTANTS k1, k2, k3, t1, t2

\* A finished future nothing refers to; its identity is freed at once.
Garbage ==
  {f \in Futures : /\ future[f].state \in Finished
                   /\ ~future[f].callback
                   /\ \A k \in Keys : inflight[k] # f
                   /\ \A c \in Callers : caller[c].future # f}

Asks(c, k) == caller[c].pc = "idle" /\ caller'[c].key = k

\* The second turn comes while the first is in the cache's code, in the cache's
\* first life; the owner and the index wait until it left.
SecondTurn ==
  /\ \A k \in Keys : Asks(t2, k) =>
       /\ caller[t1].pc # "idle"
       /\ pool = NoPool => NewPools # {}
       /\ k # k3
       /\ generation = 0
  /\ caller[t2].pc # "idle" => UNCHANGED <<generation, data, owner>>

\* The third query is asked for when as many builds are pending as may be; its
\* turn is over before anything else happens.
ThirdQuery ==
  /\ Asks(t1, k3) => Pending = MaxPending
  /\ caller[t1].key = k3 => caller' # caller

Bounded ==
  IF Garbage # {} THEN \E f \in Garbage : future'[f].state = "free"
  ELSE SecondTurn /\ ThirdQuery

MCCacheNext == CacheNext /\ Bounded

MCCacheSpec == CacheInit /\ [][MCCacheNext]_cacheVars /\ CacheFairness

=============================================================================
