---------------------------- MODULE ContextCache ----------------------------
(***************************************************************************)
(* What the prefetch cache promises its owner, whatever its threads do: a  *)
(* block it holds was built from the index as it was at the last           *)
(* invalidation or later, and a closed cache holds nothing.  A block is    *)
(* its query and the version of the index it was built from.               *)
(***************************************************************************)
EXTENDS Integers

CONSTANT Keys    \* normalised queries

VARIABLES
  index,    \* the version of what a build would read now
  floor,    \* the version at the last invalidation
  blocks,   \* the blocks a warm get may return
  closed

contextVars == <<index, floor, blocks, closed>>

Invalidated == blocks' = {} /\ floor' = index

-----------------------------------------------------------------------------
Change ==
  /\ index' = index + 1
  /\ UNCHANGED <<floor, blocks, closed>>

\* A build lands.  It began at or after the last invalidation; it replaces the
\* block of its query and may push others out.
Warm(k) ==
  /\ ~closed
  /\ \E v \in floor..index :
       /\ blocks' \in SUBSET ({b \in blocks : b.key # k} \cup {[key |-> k, value |-> v]})
       /\ [key |-> k, value |-> v] \in blocks'
  /\ UNCHANGED <<index, floor, closed>>

Invalidate == Invalidated /\ UNCHANGED <<index, closed>>

Close == Invalidated /\ closed' = TRUE /\ UNCHANGED index

Reopen == closed /\ Invalidated /\ closed' = FALSE /\ UNCHANGED index

ContextInit ==
  /\ index = 1
  /\ floor = 1
  /\ blocks = {}
  /\ closed = FALSE

ContextNext ==
  \/ Change
  \/ \E k \in Keys : Warm(k)
  \/ Invalidate
  \/ Close
  \/ Reopen

ContextSpec == ContextInit /\ [][ContextNext]_contextVars

=============================================================================
