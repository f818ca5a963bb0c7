-------------------------- MODULE IndexSync_proofs --------------------------
(***************************************************************************)
(* Proofs about the sync engine of the incident index: its types, and that *)
(* no issue version the index lacks ever gets out of reach, for any number *)
(* of issues and queries, any page size and page cap, any clock.           *)
(*                                                                         *)
(* The argument: a run that has swept down to a stamp c with n as newest   *)
(* stamp leaves nothing missing between c and n (Covered).  Sweeping keeps *)
(* that true because results arrive newest-first, and a change in Jira     *)
(* carries a stamp newer than any n.  Each persisted key is one such fact, *)
(* and each commit is safe because the fact it makes public held already.  *)
(***************************************************************************)
EXTENDS IndexSync, TLAPS, WellFoundedInduction

-----------------------------------------------------------------------------
(* The inductive invariant.                                                *)

Paging == {"search", "upsert"}
Persisting == {"watermark", "done", "token", "newest"}

\* Nothing missing is stamped between the cursor c and the newest stamp n.
Covered(c, n) == \A i \in Missing : jira[i] < c \/ jira[i] > n

\* No stamp is ahead of Jira's clock.
StampsPast ==
  /\ \A i \in Issues : jira[i] <= clock /\ index[i] <= clock /\ run.page[i] <= clock
  /\ meta.sync_watermark <= clock
  /\ meta.sync_pending_newest <= clock
  /\ run.newest <= clock

\* A run in progress has a query, and room for one more page while it pages.
RunShape ==
  /\ run.pc # "idle" => run.jql \in Queries
  /\ run.pc \in Paging \cup {"clear", "resolve"} => run.pages < MaxPages

Typing == TypeOK /\ StampsPast /\ RunShape

\* The persisted keys, whatever the run is doing.
MetaCovers ==
  /\ meta.backfill_done => Covered(0, meta.sync_watermark)
  /\ ~meta.backfill_done /\ meta.backfill_token # NoToken
       => Covered(meta.backfill_token.cursor, meta.sync_watermark)
  /\ meta.sync_token # NoToken
       => Covered(meta.sync_token.cursor, meta.sync_pending_newest)

Cleared ==
  /\ meta.sync_watermark = 0
  /\ ~meta.backfill_done
  /\ meta.backfill_token = NoToken
  /\ meta.sync_token = NoToken

\* The keys of another query are gone before the new query is stored.
QueryChange ==
  /\ meta.sync_jql = NoQuery => Cleared
  /\ run.pc = "clear" =>
       /\ meta.sync_jql # run.jql
       /\ run.key > 1 => meta.sync_watermark = 0
       /\ run.key > 2 => ~meta.backfill_done
       /\ run.key > 3 => meta.backfill_token = NoToken
       /\ run.key > 4 => meta.sync_token = NoToken
  /\ run.pc = "resolve" => meta.sync_jql = run.jql \/ Cleared

\* The watermark a backfill would leave behind: set_watermark ignores the empty stamp of a run that
\* read no page.
Reached == IF run.newest > 0 THEN run.newest ELSE meta.sync_watermark

\* What a run read from the meta table still stands while it needs it.  A run that is not incremental
\* (--full) starts after the backfill keys were cleared, and its newest stamp from nothing.
RunAgrees ==
  /\ run.in_incremental => run.incremental
  /\ ~run.incremental /\ run.pc \in Paging \cup {"clear", "resolve", "watermark", "done"}
       => ~meta.backfill_done
  /\ run.pc \in Paging \cup Persisting \cup {"returned"} => run.jql = meta.sync_jql
  /\ run.pc \in Paging \cup {"watermark"} =>
       /\ run.in_incremental = meta.backfill_done
       /\ run.incremental => run.newest >= meta.sync_watermark
  /\ run.pc \in Paging /\ run.in_incremental => run.since <= meta.sync_watermark
  /\ run.pc \in Paging /\ ~run.in_incremental => run.since = 0
  /\ run.pc \in Paging \cup Persisting /\ run.in_incremental =>
       meta.backfill_done /\ run.newest >= meta.sync_pending_newest
  /\ run.pc = "watermark" => run.exhausted \/ ~run.in_incremental
  /\ run.pc = "done" => ~run.in_incremental /\ run.exhausted
  /\ run.pc \in {"done", "token"} /\ ~run.in_incremental =>
       meta.sync_watermark = Reached
  /\ run.pc = "newest" =>
       /\ run.in_incremental
       /\ meta.sync_token = IF run.exhausted THEN NoToken ELSE run.token

\* What the sweep has covered so far, in memory.
SweepCovers ==
  /\ run.pc = "search" /\ run.token # NoToken
       => Covered(run.token.cursor, Reached)
  /\ run.pc = "upsert" =>
       /\ PageNewest(run) > 0
       /\ \A i \in Missing : \/ jira[i] > PageNewest(run)
                             \/ jira[i] = run.page[i]
                             \/ run.next # NoToken /\ jira[i] < run.next.cursor
  /\ run.pc \in Persisting /\ run.exhausted => Covered(0, Reached)
  /\ run.pc \in Persisting /\ ~run.exhausted =>
       run.token # NoToken /\ Covered(run.token.cursor, Reached)

\* A page read before a change in Jira cannot overwrite a current row.
PageFresh ==
  run.pc = "upsert" =>
    \A i \in Issues : run.page[i] > 0 /\ jira[i] > 0 /\ index[i] = jira[i]
                      => run.page[i] = jira[i]

\* The old backfill token stays valid next to the watermark the run is about
\* to commit: the run started at that token and only moved down.
OldTokenCovers ==
  ~run.in_incremental /\ meta.backfill_token # NoToken =>
    LET c == meta.backfill_token.cursor
    IN /\ run.pc = "search" => run.token # NoToken /\ run.token.cursor <= c
       /\ run.pc = "upsert" =>
            /\ Covered(c, PageNewest(run))
            /\ run.next # NoToken => run.next.cursor <= c
       /\ run.pc = "watermark" /\ ~run.exhausted => run.token.cursor <= c

-----------------------------------------------------------------------------
(* Lemmas about the operators of the model.                                *)

\* Dropping the seconds never moves a stamp forward.
LEMMA FloorBelow == \A t \in Nat : Floor(t) \in Nat /\ Floor(t) <= t
<1>1. Minute \in Nat \ {0}
  BY ConstantsAssumption
<1>2. ASSUME NEW t \in Nat PROVE t % Minute \in Nat /\ t % Minute <= t
  BY <1>1
<1> QED
  BY <1>2 DEF Floor

\* A set of stamps with an upper bound has a greatest element.
LEMMA GreatestStamp ==
  ASSUME NEW T \in SUBSET Nat, T # {}, NEW b \in Nat, \A t \in T : t <= b
  PROVE  \E t \in T : \A u \in T : u <= t
<1> DEFINE Bounds == {n \in Nat : \A t \in T : t <= n}
<1>1. PICK n \in Bounds : \A m \in Bounds : ~(<<m, n>> \in OpToRel(<, Nat))
  <2>1. Bounds \subseteq Nat /\ Bounds # {}
    OBVIOUS
  <2> QED
    BY <2>1, WFMin, NatLessThanWellFounded
<1>2. \A m \in Bounds : m >= n
  <2>1. \A k, m \in Nat : k < m => <<k, m>> \in OpToRel(<, Nat)
    BY DEF OpToRel
  <2>2. n \in Nat /\ \A m \in Bounds : m \in Nat
    OBVIOUS
  <2>3. \A m \in Bounds : ~(m < n)
    BY ONLY <1>1, <2>1, <2>2
  <2> QED
    BY <2>2, <2>3
<1>3. n \in T
  <2>1. SUFFICES ASSUME n \notin T PROVE FALSE
    OBVIOUS
  <2>2. \A t \in T : t \in Nat /\ t < n
    BY <2>1
  <2>3. n \in Nat /\ n - 1 \in Nat
    <3>1. PICK t \in T : t \in Nat /\ t < n
      BY <2>2
    <3> QED
      BY <3>1
  <2>4. n - 1 \in Bounds
    <3>1. \A t \in T : t <= n - 1
      BY <2>2, <2>3
    <3> QED
      BY <2>3, <3>1
  <2> QED
    BY <2>3, <2>4, <1>2
<1> QED
  BY <1>3

\* The newest stamp of a run and of the page it is about to write.
LEMMA PageNewestBounds ==
  ASSUME NEW r \in Run, NEW b \in Nat, r.newest <= b, \A i \in Issues : r.page[i] <= b
  PROVE  /\ PageNewest(r) \in Nat
         /\ r.newest <= PageNewest(r)
         /\ PageNewest(r) <= b
         /\ \A i \in Issues : r.page[i] <= PageNewest(r)
         /\ PageNewest(r) = r.newest \/ \E i \in Issues : PageNewest(r) = r.page[i]
<1> DEFINE T == {r.page[i] : i \in Issues}
<1>1. r.newest \in Nat /\ r.page \in [Issues -> Nat]
  BY DEF Run
<1>2. CASE \E i \in Issues : r.page[i] > r.newest
  <2>1. T \in SUBSET Nat /\ T # {} /\ \A t \in T : t <= b
    BY <1>1, <1>2
  <2>2. \E t \in T : \A u \in T : u <= t
    BY <2>1, GreatestStamp
  <2>3. \E t \in T : \A j \in Issues : r.page[j] <= t
    BY <2>2
  <2>4. PageNewest(r) \in T /\ \A j \in Issues : r.page[j] <= PageNewest(r)
    BY <1>2, <2>3 DEF PageNewest
  <2> QED
    BY <1>1, <1>2, <2>1, <2>4
<1>3. CASE ~\E i \in Issues : r.page[i] > r.newest
  BY <1>1, <1>3 DEF PageNewest
<1> QED
  BY <1>2, <1>3

-----------------------------------------------------------------------------
(* Types and stamps.                                                       *)

\* The fields of the two records have the types their sets say.
LEMMA FieldTypes ==
  ASSUME TypeOK
  PROVE  /\ meta.sync_watermark \in Nat
         /\ meta.sync_pending_newest \in Nat
         /\ meta.backfill_done \in BOOLEAN
         /\ meta.backfill_token \in Token
         /\ meta.sync_token \in Token
         /\ meta.sync_jql \in Queries \cup {NoQuery}
         /\ run.pc \in PC
         /\ run.key \in 1..5
         /\ run.incremental \in BOOLEAN
         /\ run.in_incremental \in BOOLEAN
         /\ run.jql \in Queries \cup {NoQuery}
         /\ run.since \in Nat
         /\ run.token \in Token
         /\ run.newest \in Nat
         /\ run.pages \in 0..MaxPages
         /\ run.exhausted \in BOOLEAN
         /\ run.page \in [Issues -> Nat]
         /\ run.next \in Token
  BY DEF TypeOK, Meta, Run

\* What a run has reached is a stamp Jira has given out, and its newest stamp if it has one.
LEMMA ReachedBounds ==
  ASSUME Typing
  PROVE  /\ Reached \in Nat
         /\ Reached <= clock
         /\ run.newest <= Reached
         /\ run.newest > 0 => Reached = run.newest
         /\ run.newest = 0 => Reached = meta.sync_watermark
         /\ run.newest >= meta.sync_watermark => Reached = run.newest
  BY FieldTypes DEF Reached, Typing, StampsPast

LEMMA InitTyping == Init => Typing
  BY ConstantsAssumption DEF Init, Typing, TypeOK, StampsPast, RunShape, NoRun,
     EmptyMeta, NoPage, Meta, Run, PC, Token, Paging

LEMMA NextTyping == Typing /\ [Next]_vars => Typing'
<1> SUFFICES ASSUME Typing, [Next]_vars PROVE Typing'
  OBVIOUS
<1> USE ConstantsAssumption DEF Typing, TypeOK, StampsPast, RunShape, Paging
<1>1. NoRun \in Run /\ NoRun.pc = "idle" /\ NoRun.newest = 0
        /\ \A i \in Issues : NoRun.page[i] = 0
  BY DEF NoRun, Run, PC, Token, NoPage
<1>0. jira \in [Issues -> Nat] /\ index \in [Issues -> Nat] /\ clock \in Nat
  OBVIOUS
<1>2. CASE Environment
  <2>1. ASSUME NEW i \in Issues, JiraUpdate(i) PROVE Typing'
    BY <1>0, <2>1, FieldTypes DEF JiraUpdate
  <2>2. ASSUME NEW i \in Issues, JiraDelete(i) PROVE Typing'
    BY <2>2 DEF JiraDelete
  <2>3. ASSUME NEW q \in Queries, EditJql(q) PROVE Typing'
    BY <2>3 DEF EditJql
  <2>4. CASE CutoffAdvance
    BY <2>4 DEF CutoffAdvance
  <2> QED
    BY <1>2, <2>1, <2>2, <2>3, <2>4 DEF Environment
<1>3. CASE SyncStart(configJql, TRUE)
  <2>1. run' \in Run /\ run'.newest = 0 /\ run'.page = NoPage /\ run'.jql = configJql
          /\ run'.pages = 0 /\ run'.pc \in {"clear", "resolve"}
    <3>1. PICK pc \in {"clear", "resolve"} :
            run' = [NoRun EXCEPT !.pc = pc, !.incremental = TRUE, !.jql = configJql]
      BY <1>3 DEF SyncStart
    <3> QED
      BY <1>1, <3>1 DEF NoRun, Run, PC
  <2> QED
    BY <1>3, <2>1 DEF SyncStart, NoPage
<1>4. CASE ClearKey
  <2>1. run.key \in 1..5
    BY DEF Run
  <2>2. /\ ClearedKey(meta, run.key) \in Meta
        /\ ClearedKey(meta, run.key).sync_watermark <= clock
        /\ ClearedKey(meta, run.key).sync_pending_newest <= clock
    <3>1. CASE run.key = 1
      BY <3>1, FieldTypes DEF ClearedKey, Meta
    <3>2. CASE run.key = 2
      <4>1. ClearedKey(meta, run.key) = [meta EXCEPT !.backfill_done = FALSE]
        BY <3>2 DEF ClearedKey
      <4>2. FALSE \in BOOLEAN
        OBVIOUS
      <4> QED
        BY <4>1, <4>2, FieldTypes DEF Meta
    <3>3. CASE run.key = 3
      BY <3>3, FieldTypes DEF ClearedKey, Meta, Token
    <3>4. CASE run.key = 4
      BY <3>4, FieldTypes DEF ClearedKey, Meta, Token
    <3>5. CASE run.key = 5
      BY <3>5, FieldTypes DEF ClearedKey, Meta
    <3> QED
      BY <2>1, <3>1, <3>2, <3>3, <3>4, <3>5
  <2>3. run' \in Run /\ run'.newest = run.newest /\ run'.page = run.page
          /\ run'.jql = run.jql /\ run'.pc \in {"clear", "resolve"}
    BY <1>4, <2>1 DEF ClearKey, Run, PC
  <2> QED
    BY <1>4, <2>2, <2>3 DEF ClearKey
<1>5. CASE Resolve
  <2> DEFINE inc == run.incremental /\ meta.backfill_done
             wm == IF run.incremental THEN meta.sync_watermark ELSE 0
             since == IF inc THEN Floor(wm) ELSE 0
             token == IF inc THEN meta.sync_token ELSE meta.backfill_token
             newest == Larger(wm, IF inc THEN meta.sync_pending_newest ELSE 0)
  <2>1. /\ inc \in BOOLEAN /\ since \in Nat /\ token \in Token /\ newest \in Nat
        /\ newest <= clock
        /\ (token # NoToken) \in BOOLEAN
    <3>1. wm \in Nat /\ wm <= clock
      BY FieldTypes
    <3>2. since \in Nat
      BY <3>1, FloorBelow
    <3>3. newest \in Nat /\ newest <= clock
      BY <3>1, FieldTypes DEF Larger
    <3> QED
      BY <3>2, <3>3, FieldTypes
  <2> HIDE DEF inc, since, token, newest
  <2>5. run' = [run EXCEPT !.pc = "search", !.backfill_done = meta.backfill_done,
                       !.in_incremental = inc, !.since = since, !.token = token,
                       !.resumed = token # NoToken, !.newest = newest]
    BY <1>5, Zenon DEF Resolve, ResolvedRun, inc, since, token, newest
  <2>2. run' \in Run /\ run'.newest = newest /\ run'.page = run.page
          /\ run'.pages = run.pages /\ run'.jql = run.jql
    BY <2>1, <2>5, FieldTypes DEF Run, PC
  <2>3. meta' \in Meta /\ meta'.sync_watermark = meta.sync_watermark
          /\ meta'.sync_pending_newest = meta.sync_pending_newest
    BY <1>5, FieldTypes DEF Resolve, Meta
  <2> QED
    BY <1>5, <2>1, <2>2, <2>3, <2>5, FieldTypes DEF Resolve, Run
<1>6. ASSUME NEW c \in 1..MaxClock, SearchPage(c) PROVE Typing'
  <2>1. PICK page \in SUBSET Issues, next \in {NoToken, CursorToken(c)} :
          run' = [run EXCEPT
               !.pc = "upsert",
               !.page = [i \in Issues |-> IF i \in page THEN jira[i] ELSE 0],
               !.next = next]
    BY <1>6 DEF SearchPage, Remaining
  <2>2. CursorToken(c) \in Tokens
    BY <1>6, FieldTypes DEF SearchPage, CursorToken, Tokens
  <2>3. /\ run' \in Run /\ run'.newest = run.newest /\ run'.pages = run.pages
        /\ run'.jql = run.jql
        /\ run'.page = [i \in Issues |-> IF i \in page THEN jira[i] ELSE 0]
    BY <2>1, <2>2, FieldTypes DEF Run, PC, Token
  <2>4. \A i \in Issues : run'.page[i] <= clock
    BY <1>0, <2>3
  <2> QED
    BY <1>6, <2>3, <2>4 DEF SearchPage
<1>7. CASE SearchEmpty
  BY <1>7 DEF SearchEmpty, AfterSweep, Run, PC
<1>8. CASE SearchRejected
  <2>1. meta' \in Meta /\ meta'.sync_watermark = meta.sync_watermark
          /\ meta'.sync_pending_newest = meta.sync_pending_newest
    BY <1>8, FieldTypes DEF SearchRejected, Meta, Token
  <2>2. run' \in Run /\ run'.newest = run.newest /\ run'.page = run.page
          /\ run'.pages = run.pages /\ run'.jql = run.jql /\ run'.pc = run.pc
    BY <1>8, FieldTypes DEF SearchRejected, Run, Token
  <2>3. trouble' \in Nat
    BY <1>8 DEF SearchRejected
  <2> QED
    BY <1>8, <2>1, <2>2, <2>3 DEF SearchRejected
<1>9. CASE SearchFailed
  BY <1>1, <1>9 DEF SearchFailed
<1>10. CASE Upsert
  <2>1. PageNewest(run) \in Nat /\ PageNewest(run) <= clock
    BY <1>0, PageNewestBounds
  <2>2. run.pages < MaxPages
    BY <1>10 DEF Upsert
  <2> DEFINE exhausted == run.next = NoToken
             swept == [run EXCEPT !.pages = @ + 1, !.newest = PageNewest(run),
                         !.token = run.next, !.exhausted = exhausted,
                         !.page = NoPage, !.next = NoToken]
             pc == IF MorePages(swept) THEN "search" ELSE AfterSweep(swept)
  <2>3. /\ swept \in Run /\ swept.newest = PageNewest(run) /\ swept.page = NoPage
        /\ swept.pages = run.pages + 1 /\ swept.jql = run.jql
    <3>1. exhausted \in BOOLEAN
      OBVIOUS
    <3>2. NoToken \in Token /\ NoPage \in [Issues -> Nat]
      BY DEF Token, NoPage
    <3>3. run.pages + 1 \in 0..MaxPages
      BY <2>2, FieldTypes
    <3> HIDE DEF exhausted
    <3> QED
      BY <2>1, <3>1, <3>2, <3>3, FieldTypes DEF Run
  <2>6. run' = [swept EXCEPT !.pc = pc]
    BY <1>10, Zenon DEF Upsert, SweptPage
  <2>7. pc \in PC \ {"clear", "resolve"} /\ (pc \in Paging => swept.pages < MaxPages)
    BY DEF MorePages, AfterSweep, PC
  <2> HIDE DEF swept, pc
  <2>4. /\ run' \in Run /\ run'.newest = PageNewest(run) /\ run'.page = NoPage
        /\ run'.pages = run.pages + 1 /\ run'.jql = run.jql /\ run'.pc = pc
    BY <2>3, <2>6, <2>7 DEF Run
  <2>5. index' \in [Issues -> Nat] /\ \A i \in Issues : index'[i] <= clock
    BY <1>0, <1>10, FieldTypes DEF Upsert
  <2> QED
    BY <1>10, <2>1, <2>3, <2>4, <2>5, <2>7 DEF Upsert, NoPage
<1>11. CASE PersistWatermark
  BY <1>11 DEF PersistWatermark, Meta, Run, PC
<1>12. CASE PersistDone
  BY <1>12 DEF PersistDone, Meta, Run, PC
<1>13. CASE PersistToken
  BY <1>13 DEF PersistToken, Meta, Run, PC, Token
<1>14. CASE PersistNewest
  BY <1>14 DEF PersistNewest, Meta, Run, PC
<1>15. CASE ServiceReturn
  BY <1>1, <1>15 DEF ServiceReturn, Pruned
<1>16. CASE CliReturn
  BY <1>1, <1>16 DEF CliReturn
<1>17. CASE Crash
  BY <1>1, <1>17 DEF Crash
<1>18. CASE UNCHANGED vars
  BY <1>18 DEF vars
<1> QED
  BY <1>2, <1>3, <1>4, <1>5, <1>6, <1>7, <1>8, <1>9, <1>10, <1>11, <1>12,
     <1>13, <1>14, <1>15, <1>16, <1>17, <1>18 DEF Next, SyncStep

\* Every variable of the sync engine always has its type; in particular no run
\* ever reads more than MaxPages pages.
THEOREM TypeCorrect == Spec => []TypeOK
<1>1. Typing => TypeOK
  BY DEF Typing
<1> QED
  BY <1>1, InitTyping, NextTyping, PTL DEF Spec

-----------------------------------------------------------------------------
(* The steps, field by field.                                              *)

\* Which key of the meta table each step of a query change clears.
LEMMA ClearedKeyFields ==
  ASSUME NEW m \in Meta, NEW k \in 1..5
  PROVE  LET c == ClearedKey(m, k)
         IN /\ c.sync_jql = m.sync_jql
            /\ c.sync_watermark = IF k = 1 THEN 0 ELSE m.sync_watermark
            /\ c.backfill_done <=> k # 2 /\ m.backfill_done
            /\ c.backfill_token = IF k = 3 THEN NoToken ELSE m.backfill_token
            /\ c.sync_token = IF k = 4 THEN NoToken ELSE m.sync_token
            /\ c.sync_pending_newest = IF k = 5 THEN 0 ELSE m.sync_pending_newest
<1>1. CASE k = 1
  BY <1>1 DEF ClearedKey, Meta
<1>2. CASE k = 2
  BY <1>2 DEF ClearedKey, Meta
<1>3. CASE k = 3
  BY <1>3 DEF ClearedKey, Meta
<1>4. CASE k = 4
  BY <1>4 DEF ClearedKey, Meta
<1>5. CASE k = 5
  BY <1>5 DEF ClearedKey, Meta
<1> QED
  BY <1>1, <1>2, <1>3, <1>4, <1>5

\* A swept page leaves the run with its newest stamp and its next token.
LEMMA UpsertRun ==
  ASSUME Typing, Upsert
  PROVE  /\ run'.newest = PageNewest(run)
         /\ run'.token = run.next
         /\ run'.exhausted <=> run.next = NoToken
         /\ run'.pc \in {"search", AfterSweep(run')}
         /\ run'.pc = "search" => run.next # NoToken
         /\ run'.in_incremental = run.in_incremental
         /\ run'.incremental = run.incremental
         /\ run'.backfill_done = run.backfill_done
         /\ run'.since = run.since
         /\ run'.jql = run.jql
         /\ PageNewest(run) \in Nat
         /\ run.newest <= PageNewest(run)
         /\ PageNewest(run) <= clock
         /\ \A i \in Issues : run.page[i] <= PageNewest(run)
<1>1. run \in Run
  BY DEF Typing, TypeOK
<1> DEFINE swept == [run EXCEPT !.pages = @ + 1, !.newest = PageNewest(run),
                         !.token = run.next, !.exhausted = run.next = NoToken,
                         !.page = NoPage, !.next = NoToken]
           pc == IF MorePages(swept) THEN "search" ELSE AfterSweep(swept)
<1>2. /\ swept.newest = PageNewest(run) /\ swept.token = run.next
      /\ swept.exhausted <=> run.next = NoToken
      /\ swept.in_incremental = run.in_incremental /\ swept.incremental = run.incremental
      /\ swept.backfill_done = run.backfill_done
      /\ swept.since = run.since /\ swept.jql = run.jql
      /\ swept = [swept EXCEPT !.pc = swept.pc]
  BY <1>1 DEF Run
<1>3. run' = [swept EXCEPT !.pc = pc]
  BY Zenon DEF Upsert, SweptPage
<1>4. pc = "search" => run.next # NoToken
  BY <1>2 DEF MorePages, AfterSweep
<1>5. /\ run'.pc = pc /\ run'.newest = swept.newest /\ run'.token = swept.token
      /\ run'.exhausted = swept.exhausted
      /\ run'.in_incremental = swept.in_incremental
      /\ run'.incremental = swept.incremental
      /\ run'.backfill_done = swept.backfill_done
      /\ run'.since = swept.since /\ run'.jql = swept.jql
  <2> HIDE DEF pc
  <2> QED
    BY <1>1, <1>3 DEF Run
<1>6. pc \in {"search", AfterSweep(run')}
  BY <1>5 DEF AfterSweep
<1>7. /\ PageNewest(run) \in Nat /\ run.newest <= PageNewest(run)
      /\ PageNewest(run) <= clock
      /\ \A i \in Issues : run.page[i] <= PageNewest(run)
  BY <1>1, PageNewestBounds DEF Typing, TypeOK, StampsPast
<1> HIDE DEF swept, pc
<1> QED
  BY <1>2, <1>4, <1>5, <1>6, <1>7

-----------------------------------------------------------------------------
(* The control part of the invariant: which keys a run agrees with.        *)

Control == QueryChange /\ RunAgrees

LEMMA NextControl == Typing /\ Control /\ [Next]_vars => Control'
<1> SUFFICES ASSUME Typing, Control, [Next]_vars PROVE Control'
  OBVIOUS
<1> USE DEF Control, QueryChange, RunAgrees, Cleared, Paging, Persisting
<1>0. TypeOK /\ TypeOK' /\ meta \in Meta /\ run \in Run
  BY NextTyping DEF Typing, TypeOK
<1>1. ASSUME UNCHANGED <<meta, run>> PROVE Control'
  BY <1>1 DEF Reached
<1>2. ASSUME UNCHANGED meta, run' = NoRun PROVE Control'
  BY <1>2 DEF NoRun
<1>3. CASE SyncStart(configJql, TRUE)
  BY <1>3 DEF SyncStart, NoRun
<1>4. CASE ClearKey
  <2>1. /\ run.pc = "clear" /\ meta' = ClearedKey(meta, run.key)
        /\ run' = IF run.key = 5 THEN [run EXCEPT !.pc = "resolve"]
                  ELSE [run EXCEPT !.key = @ + 1]
    BY <1>4 DEF ClearKey
  <2>2. /\ run.key < 5 => run'.pc = "clear" /\ run'.key = run.key + 1
        /\ run.key = 5 => run'.pc = "resolve"
        /\ run'.incremental = run.incremental /\ run'.jql = run.jql
    <3>1. run.key \in 1..5
      BY <1>0, FieldTypes
    <3>2. CASE run.key = 5
      <4>1. run' = [run EXCEPT !.pc = "resolve"]
        BY <2>1, <3>2
      <4>2. run'.pc = "resolve" /\ run'.incremental = run.incremental /\ run'.jql = run.jql
        BY <1>0, <4>1 DEF Run
      <4> QED
        BY <3>2, <4>2
    <3>3. CASE run.key # 5
      BY <1>0, <2>1, <3>1, <3>3 DEF Run
    <3> QED
      BY <3>1, <3>2, <3>3
  <2>3. /\ meta'.sync_jql = meta.sync_jql
        /\ meta'.sync_watermark = IF run.key = 1 THEN 0 ELSE meta.sync_watermark
        /\ meta'.backfill_done <=> run.key # 2 /\ meta.backfill_done
        /\ meta'.backfill_token = IF run.key = 3 THEN NoToken ELSE meta.backfill_token
        /\ meta'.sync_token = IF run.key = 4 THEN NoToken ELSE meta.sync_token
    BY <1>0, <2>1, FieldTypes, ClearedKeyFields
  <2> QED
    BY <1>0, <2>1, <2>2, <2>3, FieldTypes
<1>5. CASE Resolve
  BY <1>0, <1>5, FieldTypes, FloorBelow DEF Resolve, ResolvedRun, Larger
<1>6. ASSUME NEW c \in 1..MaxClock, SearchPage(c) PROVE Control'
  BY <1>6 DEF SearchPage
<1>7. CASE SearchEmpty
  BY <1>0, <1>7, FieldTypes DEF SearchEmpty, AfterSweep
<1>8. CASE SearchRejected
  <2>1. run' = [run EXCEPT !.token = NoToken, !.resumed = FALSE] /\ run.pc = "search"
    BY <1>8 DEF SearchRejected
  <2>2. /\ run'.pc = "search" /\ run'.jql = run.jql /\ run'.newest = run.newest
        /\ run'.incremental = run.incremental /\ run'.since = run.since
        /\ run'.in_incremental = run.in_incremental
    BY <1>0, <2>1 DEF TypeOK, Run
  <2>3. /\ meta'.sync_jql = meta.sync_jql
        /\ meta'.sync_watermark = meta.sync_watermark
        /\ meta'.backfill_done = meta.backfill_done
        /\ meta'.sync_pending_newest = meta.sync_pending_newest
        /\ meta'.backfill_token \in {meta.backfill_token, NoToken}
        /\ meta'.sync_token \in {meta.sync_token, NoToken}
    BY <1>0, <1>8 DEF SearchRejected, TypeOK, Meta
  <2>4. QueryChange'
    BY <2>1, <2>2, <2>3
  <2>5. RunAgrees'
    BY <1>0, <2>1, <2>2, <2>3, FieldTypes
  <2> QED
    BY <2>4, <2>5
<1>10. CASE Upsert
  <2>1. run.pc = "upsert" /\ meta' = meta
    BY <1>10 DEF Upsert
  <2>2. run'.pc \in {"search", "token", "watermark"}
    BY <1>10, UpsertRun DEF AfterSweep
  <2>3. run'.pc = "watermark" => run'.exhausted \/ ~run'.in_incremental
    BY <1>10, UpsertRun DEF AfterSweep
  <2>4. run'.pc = "token" => run'.in_incremental
    BY <1>10, UpsertRun DEF AfterSweep
  <2>5. QueryChange'
    BY <2>1, <2>2
  <2>6. run.incremental => run'.newest >= meta'.sync_watermark
    BY <1>0, <1>10, <2>1, UpsertRun, FieldTypes
  <2>7. ASSUME run'.in_incremental PROVE run'.newest >= meta'.sync_pending_newest
    <3>1. run.newest >= meta.sync_pending_newest
      BY <1>10, <2>1, <2>7, UpsertRun
    <3> QED
      BY <1>0, <1>10, <2>1, <3>1, UpsertRun, FieldTypes
  <2>8. RunAgrees'
    BY <1>10, <2>1, <2>2, <2>3, <2>4, <2>6, <2>7, UpsertRun
  <2> QED
    BY <2>5, <2>8
<1>11. CASE PersistWatermark
  <2>1. meta' = [meta EXCEPT !.sync_watermark = Reached]
    BY <1>0, <1>11, FieldTypes DEF PersistWatermark, Meta, Reached
  <2>2. /\ run.pc = "watermark"
        /\ run'.pc = IF ~run.in_incremental /\ run.exhausted THEN "done" ELSE "token"
        /\ run'.jql = run.jql /\ run'.newest = run.newest
        /\ run'.incremental = run.incremental
        /\ run'.in_incremental = run.in_incremental
        /\ run'.exhausted = run.exhausted
    BY <1>0, <1>11 DEF PersistWatermark, TypeOK, Run
  <2>3. /\ meta'.sync_jql = meta.sync_jql
        /\ meta'.sync_watermark = Reached
        /\ meta'.backfill_done = meta.backfill_done
        /\ meta'.sync_pending_newest = meta.sync_pending_newest
    BY <1>0, <2>1 DEF TypeOK, Meta
  <2>4. meta.sync_jql # NoQuery
    BY <1>0, <2>2, ConstantsAssumption DEF Typing, RunShape
  <2>5. Reached' = Reached
    BY <2>2, <2>3 DEF Reached
  <2>6. QueryChange'
    BY <2>2, <2>3, <2>4
  <2>7. RunAgrees'
    BY <1>0, <2>2, <2>3, <2>5, FieldTypes
  <2> QED
    BY <2>6, <2>7
<1>12. CASE PersistDone
  <2>1. /\ run.pc = "done" /\ run'.pc = "token"
        /\ run'.jql = run.jql /\ run'.newest = run.newest
        /\ run'.incremental = run.incremental
        /\ run'.in_incremental = run.in_incremental
    BY <1>0, <1>12 DEF PersistDone, TypeOK, Run
  <2>2. /\ meta'.sync_jql = meta.sync_jql
        /\ meta'.sync_watermark = meta.sync_watermark
        /\ Reached' = Reached
    BY <1>0, <1>12, <2>1 DEF PersistDone, TypeOK, Meta, Reached
  <2>3. meta.sync_jql # NoQuery
    BY <1>0, <2>1, ConstantsAssumption DEF Typing, RunShape
  <2>4. QueryChange'
    BY <2>1, <2>2, <2>3
  <2>5. RunAgrees'
    BY <1>0, <2>1, <2>2, <2>3, FieldTypes
  <2> QED
    BY <2>4, <2>5
<1>13. CASE PersistToken
  <2>1. /\ run.pc = "token"
        /\ run'.pc = IF run.in_incremental THEN "newest" ELSE "returned"
        /\ run'.jql = run.jql /\ run'.newest = run.newest
        /\ run'.incremental = run.incremental
        /\ run'.in_incremental = run.in_incremental
        /\ run'.exhausted = run.exhausted /\ run'.token = run.token
    BY <1>0, <1>13 DEF PersistToken, Run
  <2>2. /\ meta'.sync_jql = meta.sync_jql
        /\ meta'.sync_watermark = meta.sync_watermark
        /\ meta'.sync_pending_newest = meta.sync_pending_newest
        /\ meta'.backfill_done = meta.backfill_done
        /\ run.in_incremental =>
             meta'.sync_token = IF run.exhausted THEN NoToken ELSE run.token
        /\ Reached' = Reached
    BY <1>0, <1>13, <2>1 DEF PersistToken, Meta, Reached
  <2>3. meta.sync_jql # NoQuery
    BY <1>0, <2>1, ConstantsAssumption DEF Typing, RunShape
  <2>4. QueryChange'
    BY <2>1, <2>2, <2>3
  <2>5. RunAgrees'
    BY <1>0, <2>1, <2>2, FieldTypes
  <2> QED
    BY <2>4, <2>5
<1>14. CASE PersistNewest
  BY <1>0, <1>14, FieldTypes DEF PersistNewest
<1>15. CASE Environment \/ UNCHANGED vars
  BY <1>1, <1>15 DEF Environment, JiraUpdate, JiraDelete, EditJql, CutoffAdvance, vars
<1>16. CASE SearchFailed \/ ServiceReturn \/ CliReturn \/ Crash
  BY <1>2, <1>16 DEF SearchFailed, ServiceReturn, CliReturn, Crash
<1> QED
  BY <1>3, <1>4, <1>5, <1>6, <1>7, <1>8, <1>10, <1>11, <1>12, <1>13, <1>14,
     <1>15, <1>16 DEF Next, SyncStep

-----------------------------------------------------------------------------
(* What a step does to the set of missing versions.                        *)

\* Nothing becomes missing but versions newer than every stamp so far.
MissingShrinks ==
  \A i \in Missing' : \/ i \in Missing /\ jira'[i] = jira[i]
                      \/ jira'[i] > clock

LEMMA MissingFacts ==
  ASSUME Typing, NEW i \in Missing
  PROVE  /\ i \in Issues
         /\ meta.sync_jql \in Queries /\ i \in Match[meta.sync_jql]
         /\ jira[i] \in Nat /\ jira[i] > 0 /\ jira[i] <= clock
         /\ index[i] # jira[i]
<1>1. meta.sync_jql \in Queries /\ i \in Match[meta.sync_jql]
  BY FieldTypes DEF Typing, Missing, Matching
<1> QED
  BY <1>1, ConstantsAssumption DEF Typing, TypeOK, StampsPast, Missing

LEMMA MissingTyped ==
  Typing => \A i \in Missing : i \in Issues /\ jira[i] \in Nat /\ jira[i] > 0
  BY MissingFacts

\* The same in the next state.
LEMMA MissingNext ==
  Typing' => \A i \in Missing' : i \in Issues /\ jira'[i] \in Nat /\ jira'[i] > 0
<1>1. (Typing => \A i \in Missing : i \in Issues /\ jira[i] \in Nat /\ jira[i] > 0)'
  BY MissingTyped, PTL
<1> QED
  BY <1>1

\* Whatever was covered stays covered.
LEMMA CoveredStays ==
  ASSUME Typing, Typing', MissingShrinks,
         NEW c, NEW n \in Nat, n <= clock, Covered(c, n)
  PROVE  \A i \in Missing' : jira'[i] < c \/ jira'[i] > n
<1>1. ASSUME NEW i \in Missing' PROVE jira'[i] \in Nat
  BY <1>1, MissingNext
<1>2. clock \in Nat
  BY DEF Typing, TypeOK
<1> QED
  BY <1>1, <1>2 DEF MissingShrinks, Covered

\* A changed issue is stamped past the clock; a page writes current versions
\* only; the prune takes nothing the index should hold.
LEMMA NextShrinks ==
  ASSUME Typing, Typing', PageFresh, Next, ~Resolve
  PROVE  MissingShrinks
<1> USE DEF MissingShrinks, Missing, Matching
<1>0. /\ jira \in [Issues -> Nat] /\ index \in [Issues -> Nat]
      /\ clock \in Nat /\ cutoff \in Nat /\ meta \in Meta /\ run \in Run
      /\ \A i \in Missing' : i \in Issues /\ jira'[i] \in Nat
  BY MissingNext DEF Typing, TypeOK
<1>1. ASSUME UNCHANGED <<jira, index, cutoff>>, meta'.sync_jql = meta.sync_jql
      PROVE MissingShrinks
  BY <1>1
<1>2. ASSUME NEW j \in Issues, JiraUpdate(j) PROVE MissingShrinks
  BY <1>0, <1>2 DEF JiraUpdate
<1>3. ASSUME NEW j \in Issues, JiraDelete(j) PROVE MissingShrinks
  BY <1>0, <1>3 DEF JiraDelete
<1>4. CASE CutoffAdvance
  BY <1>0, <1>4 DEF CutoffAdvance
<1>5. ASSUME NEW q \in Queries, EditJql(q) PROVE MissingShrinks
  BY <1>1, <1>5 DEF EditJql
<1>6. CASE Upsert
  <2>1. run.page \in [Issues -> Nat]
    BY <1>0 DEF Run
  <2> QED
    BY <1>0, <1>6, <2>1 DEF Upsert, PageFresh
<1>7. CASE ServiceReturn
  BY <1>0, <1>7 DEF ServiceReturn, Pruned
<1>8. CASE ClearKey
  <2>1. meta'.sync_jql = meta.sync_jql
    BY <1>0, <1>8, FieldTypes, ClearedKeyFields DEF ClearKey, Typing
  <2> QED
    BY <1>1, <1>8, <2>1 DEF ClearKey
<1>9. CASE SearchRejected
  <2>1. meta'.sync_jql = meta.sync_jql
    BY <1>0, <1>9 DEF SearchRejected, Meta
  <2> QED
    BY <1>1, <1>9, <2>1 DEF SearchRejected
<1>10. CASE PersistWatermark \/ PersistDone \/ PersistToken \/ PersistNewest
  <2>1. meta'.sync_jql = meta.sync_jql
    BY <1>0, <1>10 DEF PersistWatermark, PersistDone, PersistToken, PersistNewest, Meta
  <2> QED
    BY <1>1, <1>10, <2>1 DEF PersistWatermark, PersistDone, PersistToken, PersistNewest
<1>11. ASSUME NEW c \in 1..MaxClock, SearchPage(c) PROVE MissingShrinks
  BY <1>1, <1>11 DEF SearchPage
<1>12. CASE \/ SyncStart(configJql, TRUE)
           \/ SearchEmpty
           \/ SearchFailed
           \/ CliReturn
           \/ Crash
  BY <1>1, <1>12 DEF SyncStart, SearchEmpty, SearchFailed, CliReturn, Crash
<1> QED
  BY <1>2, <1>3, <1>4, <1>5, <1>6, <1>7, <1>8, <1>9, <1>10, <1>11,
     <1>12 DEF Next, Environment, SyncStep

-----------------------------------------------------------------------------
(* The covering part of the invariant.                                     *)

Covers == MetaCovers /\ SweepCovers /\ PageFresh /\ OldTokenCovers

\* Steps that touch no key keep what the keys cover.
LEMMA MetaCoversStays ==
  ASSUME Typing, Typing', MissingShrinks, MetaCovers, UNCHANGED meta
  PROVE  MetaCovers'
<1>0. /\ meta.sync_watermark \in Nat /\ meta.sync_watermark <= clock
      /\ meta.sync_pending_newest \in Nat /\ meta.sync_pending_newest <= clock
  BY FieldTypes DEF Typing, StampsPast
<1>1. meta.backfill_done =>
        \A i \in Missing' : jira'[i] < 0 \/ jira'[i] > meta.sync_watermark
  BY <1>0, CoveredStays DEF MetaCovers
<1>2. ~meta.backfill_done /\ meta.backfill_token # NoToken =>
        \A i \in Missing' : \/ jira'[i] < meta.backfill_token.cursor
                            \/ jira'[i] > meta.sync_watermark
  BY <1>0, CoveredStays DEF MetaCovers
<1>3. meta.sync_token # NoToken =>
        \A i \in Missing' : \/ jira'[i] < meta.sync_token.cursor
                            \/ jira'[i] > meta.sync_pending_newest
  BY <1>0, CoveredStays DEF MetaCovers
<1> QED
  BY <1>1, <1>2, <1>3 DEF MetaCovers, Covered

\* Changes in Jira and of the configuration: a change is newer than the run.
LEMMA EnvironmentCovers ==
  ASSUME Typing, Typing', Covers, MissingShrinks,
         UNCHANGED <<meta, run, index>>,
         \A i \in Issues : jira'[i] \in {jira[i], 0} \/ jira'[i] > clock
  PROVE  Covers'
<1> USE DEF Covers
<1>0. /\ Reached \in Nat /\ Reached <= clock /\ Reached' = Reached /\ clock \in Nat
      /\ PageNewest(run) \in Nat /\ PageNewest(run) <= clock
      /\ PageNewest(run)' = PageNewest(run)
      /\ \A i \in Issues : index[i] \in Nat /\ index[i] <= clock
  <2>1. PageNewest(run)' = PageNewest(run) /\ Reached' = Reached
    BY DEF PageNewest, Reached
  <2>2. /\ run \in Run /\ run.newest \in Nat /\ run.newest <= clock /\ clock \in Nat
        /\ \A i \in Issues : run.page[i] <= clock
        /\ \A i \in Issues : index[i] \in Nat /\ index[i] <= clock
    BY FieldTypes DEF Typing, TypeOK, StampsPast
  <2> QED
    BY <2>1, <2>2, PageNewestBounds, ReachedBounds
<1>1. MetaCovers'
  BY MetaCoversStays
<1>2. SweepCovers'
  <2>1. run.pc = "search" /\ run.token # NoToken =>
          \A i \in Missing' : jira'[i] < run.token.cursor \/ jira'[i] > Reached
    BY <1>0, CoveredStays DEF SweepCovers
  <2>2. run.pc \in Persisting /\ run.exhausted =>
          \A i \in Missing' : jira'[i] < 0 \/ jira'[i] > Reached
    BY <1>0, CoveredStays DEF SweepCovers
  <2>3. run.pc \in Persisting /\ ~run.exhausted =>
          /\ run.token # NoToken
          /\ \A i \in Missing' : jira'[i] < run.token.cursor \/ jira'[i] > Reached
    BY <1>0, CoveredStays DEF SweepCovers
  <2>4. run.pc = "upsert" =>
          /\ PageNewest(run) > 0
          /\ \A i \in Missing' : \/ jira'[i] > PageNewest(run)
                                 \/ jira'[i] = run.page[i]
                                 \/ run.next # NoToken /\ jira'[i] < run.next.cursor
    BY <1>0, MissingNext DEF SweepCovers, MissingShrinks
  <2> QED
    BY <1>0, <2>1, <2>2, <2>3, <2>4 DEF SweepCovers, Covered
<1>3. PageFresh'
  BY <1>0 DEF PageFresh
<1>4. OldTokenCovers'
  <2>1. ASSUME ~run.in_incremental, meta.backfill_token # NoToken, run.pc = "upsert"
        PROVE  \A i \in Missing' : \/ jira'[i] < meta.backfill_token.cursor
                                   \/ jira'[i] > PageNewest(run)
    BY <1>0, <2>1, CoveredStays DEF OldTokenCovers
  <2> QED
    BY <1>0, <2>1 DEF OldTokenCovers, Covered
<1> QED
  BY <1>1, <1>2, <1>3, <1>4

\* The end of a run, however it ends.
LEMMA RunEndCovers ==
  ASSUME Typing, Typing', Covers, MissingShrinks, UNCHANGED meta, run' = NoRun
  PROVE  Covers'
<1>1. MetaCovers'
  BY MetaCoversStays DEF Covers
<1>2. run'.pc = "idle"
  BY DEF NoRun
<1> QED
  BY <1>1, <1>2 DEF Covers, SweepCovers, PageFresh, OldTokenCovers, Persisting

\* Clearing a key leaves only claims that say nothing.
LEMMA ClearKeyCovers ==
  ASSUME Typing, Typing', Control, Covers, MissingShrinks, ClearKey
  PROVE  Covers'
<1>0. /\ TypeOK /\ run \in Run /\ meta \in Meta /\ run.key \in 1..5
      /\ meta.sync_watermark \in Nat /\ meta.sync_watermark <= clock
      /\ meta.sync_pending_newest \in Nat /\ meta.sync_pending_newest <= clock
      /\ meta.backfill_done \in BOOLEAN
  BY FieldTypes DEF Typing, TypeOK, StampsPast
<1>1. run.pc = "clear" /\ meta' = ClearedKey(meta, run.key)
        /\ run'.pc \in {"clear", "resolve"}
  BY <1>0 DEF ClearKey, Run
<1>2. /\ meta'.sync_watermark = IF run.key = 1 THEN 0 ELSE meta.sync_watermark
      /\ meta'.backfill_done <=> run.key # 2 /\ meta.backfill_done
      /\ meta'.backfill_token = IF run.key = 3 THEN NoToken ELSE meta.backfill_token
      /\ meta'.sync_token = IF run.key = 4 THEN NoToken ELSE meta.sync_token
      /\ meta'.sync_pending_newest = IF run.key = 5 THEN 0 ELSE meta.sync_pending_newest
  BY <1>0, <1>1, ClearedKeyFields
<1>3. /\ run.key > 1 => meta.sync_watermark = 0
      /\ run.key > 4 => meta.sync_token = NoToken
  BY <1>1 DEF Control, QueryChange
<1>4. \A i \in Missing' : jira'[i] > 0
  BY MissingNext
<1>5. meta'.sync_watermark = 0
  BY <1>0, <1>2, <1>3
<1>6. meta'.sync_token # NoToken =>
        /\ meta'.sync_token = meta.sync_token
        /\ meta'.sync_pending_newest = meta.sync_pending_newest
        /\ meta.sync_token # NoToken
  BY <1>0, <1>2, <1>3
<1>7. ASSUME meta'.sync_token # NoToken
      PROVE  \A i \in Missing' : \/ jira'[i] < meta'.sync_token.cursor
                                 \/ jira'[i] > meta'.sync_pending_newest
  <2>1. Covered(meta.sync_token.cursor, meta.sync_pending_newest)
    BY <1>6, <1>7 DEF Covers, MetaCovers
  <2>2. \A i \in Missing' : \/ jira'[i] < meta.sync_token.cursor
                            \/ jira'[i] > meta.sync_pending_newest
    BY <1>0, <2>1, CoveredStays
  <2> QED
    BY <1>6, <1>7, <2>2
<1>8. MetaCovers'
  BY <1>4, <1>5, <1>7 DEF MetaCovers, Covered
<1> QED
  BY <1>1, <1>8 DEF Covers, SweepCovers, PageFresh, OldTokenCovers, Persisting

\* A run resumes from what the keys cover, or from a cleared table.
LEMMA ResolveCovers ==
  ASSUME Typing, Typing', Control, Covers, Resolve
  PROVE  Covers'
<1> DEFINE inc == run.incremental /\ meta.backfill_done
           wm == IF run.incremental THEN meta.sync_watermark ELSE 0
<1>0. /\ TypeOK /\ run \in Run /\ meta \in Meta
      /\ meta.sync_watermark \in Nat /\ meta.sync_watermark <= clock
      /\ meta.sync_pending_newest \in Nat /\ meta.sync_pending_newest <= clock
      /\ meta.backfill_done \in BOOLEAN
      /\ run.pc = "resolve"
      /\ jira' = jira /\ index' = index /\ cutoff' = cutoff
  BY FieldTypes DEF Typing, TypeOK, StampsPast, Control, RunAgrees, Resolve
<1>1. /\ run'.pc = "search"
      /\ run'.in_incremental = inc
      /\ run'.token = IF inc THEN meta.sync_token ELSE meta.backfill_token
      /\ run'.newest = Larger(wm, IF inc THEN meta.sync_pending_newest ELSE 0)
  BY <1>0 DEF Resolve, ResolvedRun, Run
<1>2. /\ meta'.sync_watermark = meta.sync_watermark
      /\ meta'.backfill_done = meta.backfill_done
      /\ meta'.backfill_token = meta.backfill_token
      /\ meta'.sync_token = meta.sync_token
      /\ meta'.sync_pending_newest = meta.sync_pending_newest
      /\ meta'.sync_jql = run.jql
  BY <1>0 DEF Resolve, Meta
<1>3. CASE Cleared
  <2>1. MetaCovers'
    BY <1>2, <1>3 DEF MetaCovers, Cleared
  <2>2. run'.token = NoToken /\ ~run'.in_incremental /\ meta'.backfill_token = NoToken
    BY <1>1, <1>2, <1>3 DEF Cleared
  <2> QED
    BY <1>1, <2>1, <2>2 DEF Covers, SweepCovers, PageFresh, OldTokenCovers, Persisting
<1>4. CASE meta.sync_jql = run.jql
  <2>1. Missing' = Missing
    BY <1>0, <1>2, <1>4 DEF Missing, Matching
  <2>2. MetaCovers'
    BY <1>0, <1>2, <2>1 DEF Covers, MetaCovers, Covered
  <2>3. run'.token # NoToken => Covered(run'.token.cursor, Reached')
    <3>1. CASE inc
      BY <1>0, <1>1, <1>2, <3>1, MissingFacts DEF Covers, MetaCovers, Covered, Larger, Reached
    <3>2. CASE ~inc
      <4>1. Reached' = meta.sync_watermark
        BY <1>0, <1>1, <1>2, <3>2 DEF Larger, Reached
      <4>2. ~meta.backfill_done
        BY <1>0, <3>2 DEF Control, RunAgrees
      <4> QED
        BY <1>1, <3>2, <4>1, <4>2 DEF Covers, MetaCovers, Covered
    <3> QED
      BY <3>1, <3>2
  <2>4. SweepCovers'
    BY <1>0, <1>1, <2>1, <2>3 DEF SweepCovers, Covered, Persisting
  <2>5. OldTokenCovers'
    <3>1. ASSUME ~run'.in_incremental, meta'.backfill_token # NoToken
          PROVE  run'.token # NoToken /\ run'.token.cursor <= meta'.backfill_token.cursor
      <4>1. run'.token = meta'.backfill_token
        BY <1>1, <1>2, <3>1
      <4>2. meta'.backfill_token.cursor \in Nat
        BY <1>0, <1>2, <3>1, FieldTypes DEF Token, Tokens
      <4> QED
        BY <3>1, <4>1, <4>2
    <3> QED
      BY <1>1, <3>1 DEF OldTokenCovers
  <2> QED
    BY <1>1, <2>2, <2>4, <2>5 DEF Covers, PageFresh
<1> QED
  BY <1>0, <1>3, <1>4 DEF Control, QueryChange

\* What a search has not returned yet is below the page, or newer than all of
\* the run: results arrive newest-first.
LEMMA Unswept ==
  ASSUME Typing, Control, Covers, run.pc = "search", NEW i \in Missing, i \notin Remaining
  PROVE  /\ run.token # NoToken
         /\ run.token \in Tokens /\ run.token.cursor <= jira[i]
         /\ jira[i] > Reached
<1>1. /\ i \in Match[run.jql] /\ jira[i] \in Nat /\ jira[i] > 0
  BY MissingFacts DEF Control, RunAgrees, Paging
<1>2. jira[i] >= run.since
  <2>1. CASE run.in_incremental
    <3>1. jira[i] > meta.sync_watermark
      BY <1>1, <2>1 DEF Covers, MetaCovers, Covered, Control, RunAgrees, Paging
    <3> QED
      BY <1>1, <2>1, <3>1, FieldTypes DEF Typing, Control, RunAgrees, Paging
  <2>2. CASE ~run.in_incremental
    BY <1>1, <2>2 DEF Control, RunAgrees, Paging
  <2> QED
    BY <2>1, <2>2
<1>3. run.token # NoToken /\ ~(jira[i] < run.token.cursor)
  BY <1>1, <1>2 DEF Remaining
<1>4. run.token \in Tokens
  BY <1>3, FieldTypes DEF Typing, Token
<1> QED
  BY <1>1, <1>3, <1>4 DEF Covers, SweepCovers, Covered, Tokens

LEMMA SearchPageCovers ==
  ASSUME Typing, Typing', Control, Covers, MissingShrinks,
         NEW c \in 1..MaxClock, SearchPage(c)
  PROVE  Covers'
<1>0. /\ TypeOK /\ run \in Run /\ run.pc = "search" /\ jira \in [Issues -> Nat]
      /\ run.newest \in Nat /\ clock \in Nat
      /\ Reached \in Nat /\ run.newest <= Reached
      /\ jira' = jira /\ index' = index /\ meta' = meta /\ UNCHANGED cutoff
  BY FieldTypes, ReachedBounds DEF Typing, TypeOK, SearchPage
<1> DEFINE page == {i \in Remaining : jira[i] >= c}
<1>1. PICK next \in {NoToken, CursorToken(c)} :
        /\ next = NoToken => page = Remaining
        /\ run' = [run EXCEPT !.pc = "upsert",
                     !.page = [i \in Issues |-> IF i \in page THEN jira[i] ELSE 0],
                     !.next = next]
  BY DEF SearchPage
<1>2. /\ run'.pc = "upsert" /\ run'.next = next /\ run'.newest = run.newest
      /\ run'.page = [i \in Issues |-> IF i \in page THEN jira[i] ELSE 0]
      /\ run'.in_incremental = run.in_incremental
  BY <1>0, <1>1 DEF Run
<1>3. next # NoToken => next.cursor = c
  BY <1>1 DEF CursorToken
<1>4. Missing' = Missing
  BY <1>0 DEF Missing, Matching
<1>5. PICK p \in Nat : /\ p = PageNewest(run')
                       /\ p = run.newest \/ \E i \in Issues : p = run'.page[i]
                       /\ \A i \in Issues : run'.page[i] <= p
                       /\ p > 0
  <2>1. run' \in Run /\ \A i \in Issues : run'.page[i] <= clock'
    BY DEF Typing, TypeOK, StampsPast
  <2>2. run'.newest <= clock' /\ clock' \in Nat
    BY DEF Typing, TypeOK, StampsPast
  <2>3. PICK i \in Issues : run'.page[i] = c
    <3>1. PICK i \in page : jira[i] = c
      BY DEF SearchPage
    <3>2. i \in Issues
      BY <1>0, FieldTypes, ConstantsAssumption DEF Remaining, Control, RunAgrees, Paging, Typing, RunShape
    <3> QED
      BY <1>2, <3>1, <3>2
  <2>4. PageNewest(run') \in Nat /\ PageNewest(run') > 0
    BY <2>1, <2>2, <2>3, PageNewestBounds
  <2> QED
    BY <1>2, <2>1, <2>2, <2>4, PageNewestBounds
\* The page's stamps are below the cursor the search resumed from.
<1>6. ASSUME NEW i \in Missing, i \notin Remaining
      PROVE  jira[i] > p
  <2>1. /\ run.token # NoToken /\ run.token \in Tokens
        /\ run.token.cursor <= jira[i] /\ jira[i] > Reached
    BY <1>0, <1>6, Unswept
  <2>2. ASSUME NEW j \in Issues PROVE run'.page[j] = 0 \/ run'.page[j] < run.token.cursor
    BY <1>0, <1>2, <2>1 DEF Remaining
  <2>3. jira[i] \in Nat /\ jira[i] > 0 /\ run.token.cursor \in Nat
    BY <2>1, MissingFacts DEF Tokens
  <2> QED
    BY <1>0, <1>2, <1>5, <2>1, <2>2, <2>3
<1>7. ASSUME NEW i \in Missing
      PROVE  \/ jira[i] > p
             \/ jira[i] = run'.page[i]
             \/ next # NoToken /\ jira[i] < next.cursor
  BY <1>0, <1>1, <1>2, <1>3, <1>6, <1>7, MissingFacts
<1>8. SweepCovers'
  BY <1>0, <1>2, <1>4, <1>5, <1>7 DEF SweepCovers, Persisting
<1>9. PageFresh'
  BY <1>0, <1>2 DEF PageFresh
<1>10. ASSUME ~run.in_incremental, meta.backfill_token # NoToken
       PROVE  /\ \A i \in Missing : jira[i] < meta.backfill_token.cursor \/ jira[i] > p
              /\ next # NoToken => next.cursor <= meta.backfill_token.cursor
  <2>1. /\ run.token # NoToken /\ run.token \in Tokens
        /\ run.token.cursor <= meta.backfill_token.cursor
        /\ meta.backfill_token \in Tokens
    BY <1>0, <1>10, FieldTypes DEF Covers, OldTokenCovers, Token
  <2>2. run.token.cursor \in Nat /\ meta.backfill_token.cursor \in Nat
    BY <2>1 DEF Tokens
  <2>3. next # NoToken => next.cursor <= meta.backfill_token.cursor
    BY <1>0, <1>3, <2>1, <2>2 DEF SearchPage, Remaining
  <2>4. ASSUME NEW i \in Missing
        PROVE  jira[i] < meta.backfill_token.cursor \/ jira[i] > p
    <3>1. CASE i \in Remaining
      BY <2>1, <2>2, <3>1, MissingFacts DEF Remaining
    <3>2. CASE i \notin Remaining
      BY <1>6, <3>2
    <3> QED
      BY <3>1, <3>2
  <2> QED
    BY <2>3, <2>4
<1>11. OldTokenCovers'
  BY <1>0, <1>2, <1>4, <1>5, <1>10 DEF OldTokenCovers, Covered
<1>12. MetaCovers'
  BY <1>0, MetaCoversStays DEF Covers
<1> QED
  BY <1>8, <1>9, <1>11, <1>12 DEF Covers

\* An empty page ends the sweep: everything missing is newer than the run.
LEMMA SearchEmptyCovers ==
  ASSUME Typing, Typing', Control, Covers, MissingShrinks, SearchEmpty
  PROVE  Covers'
<1>0. /\ run \in Run /\ run.pc = "search" /\ run.newest \in Nat
      /\ jira' = jira /\ index' = index /\ meta' = meta /\ UNCHANGED cutoff
      /\ Remaining = {}
  BY FieldTypes DEF Typing, TypeOK, SearchEmpty
<1>1. /\ run'.exhausted /\ run'.newest = run.newest
      /\ run'.pc = "watermark"
  <2>1. run' = [run EXCEPT !.exhausted = TRUE, !.pc = "watermark"]
    BY <1>0 DEF SearchEmpty, AfterSweep, Run
  <2> QED
    BY <1>0, <2>1 DEF Run
<1>2. Missing' = Missing /\ Reached' = Reached
  BY <1>0, <1>1 DEF Missing, Matching, Reached
<1>3. \A i \in Missing : jira[i] > Reached
  BY <1>0, Unswept
<1>4. SweepCovers'
  BY <1>0, <1>1, <1>2, <1>3 DEF SweepCovers, Covered, Persisting
<1>5. MetaCovers'
  BY <1>0, MetaCoversStays DEF Covers
<1> QED
  BY <1>1, <1>4, <1>5 DEF Covers, PageFresh, OldTokenCovers

\* A rejected token is dropped where it is stored; the phase starts over.
LEMMA SearchRejectedCovers ==
  ASSUME Typing, Typing', Control, Covers, MissingShrinks, SearchRejected
  PROVE  Covers'
<1>0. /\ run \in Run /\ meta \in Meta /\ run.pc = "search"
      /\ jira' = jira /\ index' = index /\ UNCHANGED cutoff
  BY DEF Typing, TypeOK, SearchRejected
<1>1. /\ run'.pc = "search" /\ run'.token = NoToken
      /\ run'.in_incremental = run.in_incremental
  BY <1>0 DEF SearchRejected, Run
<1>2. /\ meta'.sync_jql = meta.sync_jql
      /\ meta'.sync_watermark = meta.sync_watermark
      /\ meta'.backfill_done = meta.backfill_done
      /\ meta'.sync_pending_newest = meta.sync_pending_newest
      /\ meta'.backfill_token \in {meta.backfill_token, NoToken}
      /\ meta'.sync_token \in {meta.sync_token, NoToken}
      /\ ~run.in_incremental => meta'.backfill_token = NoToken
  BY <1>0 DEF SearchRejected, Meta
<1>3. Missing' = Missing
  BY <1>0, <1>2 DEF Missing, Matching
<1>4. MetaCovers'
  BY <1>0, <1>2, <1>3 DEF Covers, MetaCovers, Covered
<1> QED
  BY <1>1, <1>2, <1>4 DEF Covers, SweepCovers, PageFresh, OldTokenCovers, Persisting

LEMMA StampsAfterUpsert ==
  ASSUME Typing, Upsert
  PROVE  \A i \in Issues : ~(jira'[i] > clock)
BY DEF Typing, TypeOK, StampsPast, Upsert

\* Writing the page turns what was on it from missing to present.
LEMMA UpsertCovers ==
  ASSUME Typing, Typing', Control, Covers, MissingShrinks, Upsert
  PROVE  Covers'
<1>0. /\ run.pc = "upsert" /\ meta' = meta /\ jira' = jira
      /\ index \in [Issues -> Nat]
      /\ run.page \in [Issues -> Nat]
      /\ index' = [i \in Issues |-> IF run.page[i] > 0 THEN run.page[i] ELSE index[i]]
      /\ run.next \in Token
  BY FieldTypes DEF Typing, TypeOK, Upsert
<1>1. /\ run'.newest = PageNewest(run) /\ run'.token = run.next
      /\ run'.exhausted <=> run.next = NoToken
      /\ run'.pc \in {"search", "token", "watermark"}
      /\ run'.pc = "search" => run.next # NoToken
      /\ run'.in_incremental = run.in_incremental
      /\ PageNewest(run) \in Nat
      /\ Reached' = PageNewest(run)
  BY <1>0, UpsertRun DEF AfterSweep, Covers, SweepCovers, Reached
<1>2. ASSUME NEW i \in Missing'
      PROVE  /\ i \in Missing
             /\ \/ jira[i] > PageNewest(run)
                \/ run.next # NoToken /\ jira[i] < run.next.cursor
  <2>1. i \in Missing
    BY <1>0, <1>2, StampsAfterUpsert, MissingNext DEF MissingShrinks
  <2>2. i \in Issues /\ jira[i] > 0 /\ jira[i] \in Nat /\ index'[i] # jira[i]
    BY <1>0, <1>2, <2>1, MissingFacts DEF Missing
  <2>3. jira[i] # run.page[i]
    BY <1>0, <2>2
  <2> QED
    BY <1>0, <2>1, <2>3 DEF Covers, SweepCovers
<1>3. SweepCovers'
  BY <1>0, <1>1, <1>2, MissingNext DEF SweepCovers, Covered, Persisting
<1>4. OldTokenCovers'
  BY <1>0, <1>1 DEF Covers, OldTokenCovers
<1>5. MetaCovers'
  BY <1>0, MetaCoversStays DEF Covers
<1> QED
  BY <1>1, <1>3, <1>4, <1>5 DEF Covers, PageFresh

\* The newest stamp may become the watermark: of a finished sweep because
\* everything missing is newer, of a paused backfill because the cursor of the
\* old token still covers it.
LEMMA PersistWatermarkCovers ==
  ASSUME Typing, Typing', Control, Covers, MissingShrinks, PersistWatermark
  PROVE  Covers'
<1>0. /\ run \in Run /\ meta \in Meta /\ run.pc = "watermark"
      /\ run.newest \in Nat /\ meta.sync_watermark \in Nat
      /\ run.in_incremental = meta.backfill_done
      /\ run.exhausted \/ ~run.in_incremental
      /\ jira' = jira /\ index' = index /\ UNCHANGED cutoff
  BY FieldTypes DEF Typing, TypeOK, PersistWatermark, Control, RunAgrees, Paging
<1>1. meta' = [meta EXCEPT !.sync_watermark = Reached]
  BY <1>0 DEF PersistWatermark, Meta, Reached
<1>2. /\ meta'.sync_watermark = Reached
      /\ meta'.sync_jql = meta.sync_jql
      /\ meta'.backfill_done = meta.backfill_done
      /\ meta'.backfill_token = meta.backfill_token
      /\ meta'.sync_token = meta.sync_token
      /\ meta'.sync_pending_newest = meta.sync_pending_newest
  BY <1>0, <1>1 DEF Meta
<1>3. /\ run'.pc \in {"done", "token"}
      /\ run'.exhausted = run.exhausted /\ run'.token = run.token
      /\ run'.newest = run.newest
  BY <1>0 DEF PersistWatermark, Run
<1>4. Missing' = Missing /\ Reached' = Reached
  BY <1>0, <1>2, <1>3 DEF Missing, Matching, Reached
<1>5. /\ run.exhausted => Covered(0, Reached)
      /\ ~run.exhausted => run.token # NoToken /\ Covered(run.token.cursor, Reached)
  BY <1>0 DEF Covers, SweepCovers, Persisting
<1>6. ASSUME ~meta.backfill_done, meta.backfill_token # NoToken
      PROVE  Covered(meta.backfill_token.cursor, Reached)
  <2>1. meta.backfill_token.cursor \in Nat
    BY <1>6, FieldTypes DEF Typing, Token, Tokens
  <2>2. \A i \in Missing : jira[i] \in Nat
    BY MissingFacts
  <2>3. CASE run.exhausted
    BY <1>0, <1>5, <2>2, <2>3 DEF Covered
  <2>4. CASE ~run.exhausted
    <3>1. run.token \in Tokens /\ run.token.cursor \in Nat
      BY <1>5, <2>4, FieldTypes DEF Typing, Token, Tokens
    <3>2. run.token.cursor <= meta.backfill_token.cursor
      BY <1>0, <1>6, <2>4 DEF Covers, OldTokenCovers
    <3> QED
      BY <1>0, <1>5, <2>1, <2>2, <2>4, <3>1, <3>2 DEF Covered
  <2> QED
    BY <2>3, <2>4
<1>7. MetaCovers'
  BY <1>0, <1>2, <1>4, <1>5, <1>6 DEF Covers, MetaCovers, Covered
<1>8. SweepCovers'
  BY <1>0, <1>3, <1>4, <1>5 DEF SweepCovers, Covered, Persisting
<1> QED
  BY <1>3, <1>7, <1>8 DEF Covers, PageFresh, OldTokenCovers

\* The backfill is marked done only when everything missing is newer than the
\* watermark already committed.
LEMMA PersistDoneCovers ==
  ASSUME Typing, Typing', Control, Covers, MissingShrinks, PersistDone
  PROVE  Covers'
<1>0. /\ run \in Run /\ meta \in Meta /\ run.pc = "done"
      /\ run.exhausted /\ ~run.in_incremental /\ meta.sync_watermark = Reached
      /\ jira' = jira /\ index' = index /\ UNCHANGED cutoff
  BY DEF Typing, TypeOK, PersistDone, Control, RunAgrees
<1>1. /\ meta'.sync_watermark = meta.sync_watermark
      /\ meta'.sync_jql = meta.sync_jql
      /\ meta'.backfill_done
      /\ meta'.sync_token = meta.sync_token
      /\ meta'.sync_pending_newest = meta.sync_pending_newest
  BY <1>0 DEF PersistDone, Meta
<1>2. /\ run'.pc = "token" /\ run'.exhausted = run.exhausted
      /\ run'.newest = run.newest
  BY <1>0 DEF PersistDone, Run
<1>3. Missing' = Missing /\ Reached' = Reached
  BY <1>0, <1>1, <1>2 DEF Missing, Matching, Reached
<1>4. Covered(0, Reached)
  BY <1>0 DEF Covers, SweepCovers, Persisting
<1>5. MetaCovers'
  BY <1>0, <1>1, <1>3, <1>4 DEF Covers, MetaCovers, Covered
<1>6. SweepCovers'
  BY <1>0, <1>2, <1>3, <1>4 DEF SweepCovers, Covered, Persisting
<1> QED
  BY <1>2, <1>5, <1>6 DEF Covers, PageFresh, OldTokenCovers

\* The token of a paused run covers what its newest stamp, and therefore any
\* older stamp stored beside it, leaves open.
LEMMA PersistTokenCovers ==
  ASSUME Typing, Typing', Control, Control', Covers, MissingShrinks, PersistToken
  PROVE  Covers'
<1> DEFINE token == IF run.exhausted THEN NoToken ELSE run.token
<1>0. /\ run \in Run /\ meta \in Meta /\ run.pc = "token"
      /\ run.newest \in Nat /\ meta.sync_pending_newest \in Nat
      /\ Reached \in Nat /\ run.newest <= Reached
      /\ jira' = jira /\ index' = index /\ UNCHANGED cutoff
  BY FieldTypes, ReachedBounds DEF Typing, TypeOK, PersistToken
<1>1. /\ run'.pc \in {"newest", "returned"}
      /\ run'.exhausted = run.exhausted /\ run'.token = run.token
      /\ run'.newest = run.newest
  BY <1>0 DEF PersistToken, Run
<1>2. /\ run.exhausted => Covered(0, Reached)
      /\ ~run.exhausted => run.token # NoToken /\ Covered(run.token.cursor, Reached)
  BY <1>0 DEF Covers, SweepCovers, Persisting
<1>3. /\ meta'.sync_watermark = meta.sync_watermark
      /\ meta'.sync_jql = meta.sync_jql
      /\ meta'.backfill_done = meta.backfill_done
      /\ meta'.sync_pending_newest = meta.sync_pending_newest
      /\ meta'.backfill_token = IF run.in_incremental THEN meta.backfill_token ELSE token
      /\ meta'.sync_token = IF run.in_incremental THEN token ELSE meta.sync_token
  BY <1>0 DEF PersistToken, Meta
<1>4. Missing' = Missing /\ Reached' = Reached
  BY <1>0, <1>1, <1>3 DEF Missing, Matching, Reached
<1>5. \A i \in Missing : jira[i] \in Nat
  BY MissingFacts
<1>6. MetaCovers'
  <2>1. CASE run.in_incremental
    <3>1. meta.backfill_done /\ run.newest >= meta.sync_pending_newest
      BY <1>0, <2>1 DEF Control, RunAgrees, Persisting
    <3>2. token # NoToken => Covered(token.cursor, meta.sync_pending_newest)
      BY <1>0, <1>2, <1>5, <3>1 DEF Covered
    <3> QED
      BY <1>0, <1>3, <1>4, <2>1, <3>1, <3>2 DEF Covers, MetaCovers, Covered
  <2>2. CASE ~run.in_incremental
    <3>1. meta.sync_watermark = Reached
      BY <1>0, <2>2 DEF Control, RunAgrees
    <3> QED
      BY <1>0, <1>2, <1>3, <1>4, <2>2, <3>1 DEF Covers, MetaCovers, Covered
  <2> QED
    BY <2>1, <2>2
<1>7. SweepCovers'
  BY <1>0, <1>1, <1>2, <1>4 DEF SweepCovers, Covered, Persisting
<1> QED
  BY <1>1, <1>6, <1>7 DEF Covers, PageFresh, OldTokenCovers

LEMMA PersistNewestCovers ==
  ASSUME Typing, Typing', Control, Covers, MissingShrinks, PersistNewest
  PROVE  Covers'
<1>0. /\ run \in Run /\ meta \in Meta /\ run.pc = "newest"
      /\ meta.sync_token = IF run.exhausted THEN NoToken ELSE run.token
      /\ jira' = jira /\ index' = index /\ UNCHANGED cutoff
  BY DEF Typing, TypeOK, PersistNewest, Control, RunAgrees
<1>1. /\ meta'.sync_watermark = meta.sync_watermark
      /\ meta'.sync_jql = meta.sync_jql
      /\ meta'.backfill_done = meta.backfill_done
      /\ meta'.backfill_token = meta.backfill_token
      /\ meta'.sync_token = meta.sync_token
      /\ meta'.sync_pending_newest = IF run.exhausted THEN 0 ELSE run.newest
  BY <1>0 DEF PersistNewest, Meta
<1>2. run'.pc = "returned"
  BY <1>0 DEF PersistNewest, Run
<1>3. Missing' = Missing
  BY <1>0, <1>1 DEF Missing, Matching
<1>4. ~run.exhausted => Covered(run.token.cursor, run.newest)
  <2>1. ~run.exhausted => Covered(run.token.cursor, Reached)
    BY <1>0 DEF Covers, SweepCovers, Persisting
  <2>2. /\ Reached \in Nat /\ run.newest \in Nat /\ run.newest <= Reached
        /\ \A i \in Missing : jira[i] \in Nat
    BY FieldTypes, ReachedBounds, MissingFacts DEF Typing
  <2> QED
    BY <2>1, <2>2 DEF Covered
<1>5. MetaCovers'
  BY <1>0, <1>1, <1>3, <1>4 DEF Covers, MetaCovers, Covered
<1> QED
  BY <1>2, <1>5 DEF Covers, SweepCovers, PageFresh, OldTokenCovers, Persisting

LEMMA NextCovers ==
  ASSUME Typing, Typing', Control, Control', Covers, [Next]_vars
  PROVE  Covers'
<1>1. CASE UNCHANGED vars
  <2>1. PageNewest(run)' = PageNewest(run)
    BY <1>1 DEF vars, PageNewest
  <2>2. Missing' = Missing /\ Reached' = Reached
    BY <1>1 DEF vars, Missing, Matching, Reached
  <2> QED
    BY <1>1, <2>1, <2>2 DEF vars, Covers, MetaCovers, SweepCovers, PageFresh,
       OldTokenCovers, Covered
<1>2. CASE Resolve
  BY <1>2, ResolveCovers
<1>3. CASE Next /\ ~Resolve
  <2>0. MissingShrinks
    BY <1>3, NextShrinks DEF Covers
  <2>1. CASE Environment
    <3>1. \A i \in Issues : jira'[i] \in {jira[i], 0} \/ jira'[i] > clock
      BY <2>1 DEF Environment, JiraUpdate, JiraDelete, EditJql, CutoffAdvance, Typing, TypeOK
    <3>2. UNCHANGED <<meta, run, index>>
      BY <2>1 DEF Environment, JiraUpdate, JiraDelete, EditJql, CutoffAdvance
    <3> QED
      BY <2>0, <3>1, <3>2, EnvironmentCovers
  <2>2. CASE SyncStart(configJql, TRUE)
    <3>1. meta' = meta /\ run'.pc \in {"clear", "resolve"}
      BY <2>2 DEF SyncStart, NoRun
    <3>2. MetaCovers'
      BY <2>0, <3>1, MetaCoversStays DEF Covers
    <3> QED
      BY <3>1, <3>2 DEF Covers, SweepCovers, PageFresh, OldTokenCovers, Persisting
  <2>3. CASE ClearKey
    BY <2>0, <2>3, ClearKeyCovers
  <2>4. ASSUME NEW c \in 1..MaxClock, SearchPage(c) PROVE Covers'
    BY <2>0, <2>4, SearchPageCovers
  <2>5. CASE SearchEmpty
    BY <2>0, <2>5, SearchEmptyCovers
  <2>6. CASE SearchRejected
    BY <2>0, <2>6, SearchRejectedCovers
  <2>7. CASE Upsert
    BY <2>0, <2>7, UpsertCovers
  <2>8. CASE PersistWatermark
    BY <2>0, <2>8, PersistWatermarkCovers
  <2>9. CASE PersistDone
    BY <2>0, <2>9, PersistDoneCovers
  <2>10. CASE PersistToken
    BY <2>0, <2>10, PersistTokenCovers
  <2>11. CASE PersistNewest
    BY <2>0, <2>11, PersistNewestCovers
  <2>12. CASE SearchFailed \/ ServiceReturn \/ CliReturn \/ Crash
    <3>1. UNCHANGED meta /\ run' = NoRun
      BY <2>12 DEF SearchFailed, ServiceReturn, CliReturn, Crash
    <3> QED
      BY <2>0, <3>1, RunEndCovers
  <2> QED
    BY <1>3, <2>1, <2>2, <2>3, <2>4, <2>5, <2>6, <2>7, <2>8, <2>9, <2>10,
       <2>11, <2>12 DEF Next, SyncStep
<1> QED
  BY <1>1, <1>2, <1>3

-----------------------------------------------------------------------------
(* The theorems.                                                           *)

\* The inductive invariant: types, what a run agrees with, what is covered.
Inv == Typing /\ Control /\ Covers /\ run.incremental

\* The service and the plain `jira sync` run incrementally only.
LEMMA NextIncremental ==
  ASSUME Typing, run.incremental, [Next]_vars
  PROVE  run'.incremental
<1>0. run \in Run
  BY DEF Typing, TypeOK
<1>1. CASE Upsert
  BY <1>1, UpsertRun
<1>2. CASE SyncStep /\ ~Upsert
  BY <1>0, <1>2 DEF SyncStep, ClearKey, Resolve, ResolvedRun, SearchPage, SearchEmpty, SearchRejected,
                    PersistWatermark, PersistDone, PersistToken, PersistNewest, Run
<1>3. CASE Environment \/ UNCHANGED vars
  BY <1>3 DEF vars, Environment, JiraUpdate, JiraDelete, EditJql, CutoffAdvance
<1>4. CASE SyncStart(configJql, TRUE)
  BY <1>4 DEF SyncStart, NoRun
<1>5. CASE SearchFailed \/ ServiceReturn \/ CliReturn \/ Crash
  BY <1>5 DEF SearchFailed, ServiceReturn, CliReturn, Crash, NoRun
<1> QED
  BY <1>1, <1>2, <1>3, <1>4, <1>5 DEF Next

\* Every reachable state satisfies the inductive invariant.
THEOREM Invariance == Spec => []Inv
<1>1. Init => Inv
  <2>1. ASSUME Init PROVE Control /\ Covers /\ run.incremental
    BY <2>1 DEF Init, Control, QueryChange, RunAgrees, Cleared, EmptyMeta, NoRun, Paging,
       Persisting, Covers, MetaCovers, SweepCovers, PageFresh, OldTokenCovers
  <2> QED
    BY <2>1, InitTyping DEF Inv
<1>2. Inv /\ [Next]_vars => Inv'
  BY NextTyping, NextControl, NextCovers, NextIncremental DEF Inv
<1> QED
  BY <1>1, <1>2, PTL DEF Spec

\* Once the backfill is done, every version the index lacks is newer than the
\* watermark, so a later incremental run still fetches it.
THEOREM WatermarkSafety == Spec => []WatermarkSafe
<1>1. Inv => WatermarkSafe
  <2> SUFFICES ASSUME Inv, meta.backfill_done, NEW i \in Missing
               PROVE  jira[i] > meta.sync_watermark
    BY DEF WatermarkSafe
  <2>1. Covered(0, meta.sync_watermark)
    BY DEF Inv, Covers, MetaCovers
  <2>2. jira[i] \in Nat
    BY MissingFacts DEF Inv
  <2> QED
    BY <2>1, <2>2 DEF Covered
<1> QED
  BY <1>1, Invariance, PTL

\* The resume token of a paused backfill leads to everything missing.
THEOREM BackfillSafety == Spec => []BackfillResumable
<1>1. Inv => BackfillResumable
  BY DEF Inv, Covers, MetaCovers, Covered, BackfillResumable
<1> QED
  BY <1>1, Invariance, PTL

\* The resume token of a paused incremental run leads to everything missing
\* that the watermark of the finished run would hide.
THEOREM IncrementalSafety == Spec => []IncrementalResumable
<1>1. Inv => IncrementalResumable
  BY DEF Inv, Covers, MetaCovers, Covered, IncrementalResumable
<1> QED
  BY <1>1, Invariance, PTL

\* The watermark never moves back, and moves ahead only with an exhausted run
\* or during the backfill; a query edit clears it.
THEOREM WatermarkMonotone == Spec => WatermarkMoves
<1>1. ASSUME Inv, Inv', [Next]_vars, meta'.sync_watermark # meta.sync_watermark
      PROVE  \/ meta'.sync_watermark = 0 /\ meta.sync_jql # run.jql
             \/ /\ meta'.sync_watermark > meta.sync_watermark
                /\ run.exhausted \/ ~meta.backfill_done
  <2>0. /\ meta \in Meta /\ run \in Run /\ TypeOK
        /\ meta.sync_watermark \in Nat /\ run.newest \in Nat
    BY <1>1, FieldTypes DEF Inv, Typing, TypeOK
  <2>1. CASE ClearKey
    <3>1. meta'.sync_watermark = 0
      BY <1>1, <2>0, <2>1, FieldTypes, ClearedKeyFields DEF ClearKey
    <3> QED
      BY <1>1, <2>1, <3>1 DEF ClearKey, Inv, Control, QueryChange
  <2>2. CASE PersistWatermark
    <3>1. run.newest >= meta.sync_watermark /\ run.in_incremental = meta.backfill_done
            /\ (run.exhausted \/ ~run.in_incremental)
      BY <1>1, <2>2 DEF PersistWatermark, Inv, Control, RunAgrees
    <3>2. meta'.sync_watermark \in {run.newest, meta.sync_watermark}
      BY <2>0, <2>2 DEF PersistWatermark, Meta
    <3> QED
      BY <1>1, <2>0, <3>1, <3>2
  <2>3. CASE ~ClearKey /\ ~PersistWatermark
    <3>1. meta'.sync_watermark = meta.sync_watermark
      BY <1>1, <2>0, <2>3 DEF Next, vars, Environment, JiraUpdate, JiraDelete, EditJql,
         CutoffAdvance, SyncStart, SyncStep, Resolve, SearchPage, SearchEmpty,
         SearchRejected, SearchFailed, Upsert, PersistDone, PersistToken, PersistNewest,
         ServiceReturn, CliReturn, Crash, Meta
    <3> QED
      BY <1>1, <3>1
  <2> QED
    BY <2>1, <2>2, <2>3
<1>2. Inv /\ Inv' /\ [Next]_vars =>
        [meta'.sync_watermark # meta.sync_watermark =>
          \/ meta'.sync_watermark = 0 /\ meta.sync_jql # run.jql
          \/ /\ meta'.sync_watermark > meta.sync_watermark
             /\ run.exhausted \/ ~meta.backfill_done]_vars
  BY <1>1
<1> QED
  BY <1>2, Invariance, PTL DEF Spec, WatermarkMoves

=============================================================================
