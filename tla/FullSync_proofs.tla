-------------------------- MODULE FullSync_proofs --------------------------
(***************************************************************************)
(* Proofs about `jira sync --full` on top of the sync engine: its types,   *)
(* and, when no plain sync runs between two parts of a sweep and no        *)
(* invocation dies while it records its progress, that an unfinished or    *)
(* finished sweep leaves nothing out of a later run's reach and deletes    *)
(* nothing that is still live in Jira and was there to be seen.            *)
(*                                                                         *)
(* The argument is the engine's, told twice.  A sweep that has come down   *)
(* to a stamp c leaves nothing missing above c (Covered) and nothing live  *)
(* unseen above c (Passed), up to the newest stamp it reached.  The        *)
(* checkpoint and the backfill token together carry both facts from one    *)
(* invocation to the next; at the end c is 0 and what is deleted can only  *)
(* be gone or newer than the watermark.                                    *)
(***************************************************************************)
EXTENDS FullSync, IndexSync_proofs

-----------------------------------------------------------------------------
(* Types and the shape of an invocation.                                   *)

\* How far an invocation has come with the checkpoint it works from.
CliShape ==
  /\ cli.pc # "idle" => cli.jql \in Queries
  /\ cli.pc = "prepare" => /\ cli.key > 6 => full.active
                           /\ cli.key > 7 => full.jql = cli.jql
  /\ cli.pc = "sync" => cli.key = 1 /\ full.active /\ full.jql = cli.jql
  /\ cli.pc = "reconcile" => cli.key \in 1..3 /\ (cli.key > 1 => ~full.active)

SweepTyping ==
  /\ Typing
  /\ full \in Checkpoint
  /\ cli \in Cli
  /\ seen \subseteq Issues
  /\ CliShape

\* The fields of the checkpoint and of an invocation have the types their sets say.
LEMMA SweepFields ==
  ASSUME full \in Checkpoint, cli \in Cli
  PROVE  /\ full.active \in BOOLEAN
         /\ full.jql \in Queries \cup {NoQuery}
         /\ full.seen \subseteq Issues
         /\ cli.pc \in {"idle", "prepare", "sync", "reconcile"}
         /\ cli.key \in 1..8
         /\ cli.jql \in Queries \cup {NoQuery}
         /\ cli.prior \subseteq Issues
  BY DEF Checkpoint, Cli

\* An invocation that ended leaves nothing behind.
LEMMA NoCliFields ==
  /\ NoCli \in Cli
  /\ NoCli.pc = "idle" /\ NoCli.key = 1 /\ NoCli.prior = {}
  BY DEF NoCli, Cli

\* A run that ended, or never began.
LEMMA NoRunFields ==
  /\ NoRun \in Run
  /\ NoRun.pc = "idle" /\ NoRun.newest = 0 /\ NoRun.incremental
  /\ \A i \in Issues : NoRun.page[i] = 0
  BY ConstantsAssumption DEF NoRun, Run, PC, Token, NoPage

\* Seen from the engine, a step of the command is a step of the engine, or one of the four that
\* the engine alone does not make.
LEMMA EngineSteps ==
  ASSUME [FullNext]_allVars
  PROVE  [Next]_vars \/ FullRunStart \/ Prepare \/ DeleteUnseen \/ FullCrash
<1>1. CASE UNCHANGED allVars
  BY <1>1 DEF allVars
<1>2. CASE \/ \E i \in Issues : JiraUpdate(i)
           \/ \E i \in Issues : JiraDelete(i)
           \/ \E q \in Queries : EditJql(q)
  BY <1>2 DEF Next, Environment
<1>3. CASE PlainRunStart
  BY <1>3 DEF PlainRunStart, Next
<1>4. CASE PlainRunStep
  BY <1>4 DEF PlainRunStep, Next
<1>5. CASE StartFull \/ ClearCheckpoint
  BY <1>5 DEF StartFull, ClearCheckpoint
<1>6. CASE FullRunStep
  BY <1>6 DEF FullRunStep, Next
<1>7. CASE SaveSeen
  BY <1>7 DEF SaveSeen, Next, CliReturn
<1>8. CASE FullRunFailed
  BY <1>8 DEF FullRunFailed, Next
<1> QED
  BY <1>1, <1>2, <1>3, <1>4, <1>5, <1>6, <1>7, <1>8 DEF FullNext, FullStep

\* Starting a run, incremental or not.
LEMMA StartTyping ==
  ASSUME Typing, NEW q \in Queries, NEW b \in BOOLEAN, SyncStart(q, b)
  PROVE  /\ Typing'
         /\ run'.pc \in {"clear", "resolve"}
         /\ run'.pc = "clear" => meta.sync_jql # q
         /\ run'.pc = "resolve" => meta.sync_jql \in {NoQuery, q}
         /\ run'.key = 1 /\ run'.jql = q /\ run'.incremental = b /\ ~run'.in_incremental
         /\ run'.newest = 0
<1>1. PICK pc \in {"clear", "resolve"} :
        /\ run' = [NoRun EXCEPT !.pc = pc, !.incremental = b, !.jql = q]
        /\ pc = "clear" => meta.sync_jql # q
        /\ pc = "resolve" => meta.sync_jql \in {NoQuery, q}
  BY DEF SyncStart
<1>2. /\ run' \in Run
      /\ run'.pc = pc /\ run'.jql = q /\ run'.incremental = b
      /\ run'.newest = 0 /\ run'.page = NoPage /\ run'.pages = 0 /\ run'.key = 1
      /\ ~run'.in_incremental
  BY <1>1, ConstantsAssumption, NoRunFields DEF NoRun, Run, PC
<1>3. Typing'
  BY <1>1, <1>2, ConstantsAssumption
     DEF SyncStart, Typing, TypeOK, StampsPast, RunShape, NoPage, Paging
<1> QED
  BY <1>1, <1>2, <1>3

\* Clearing one key of the meta table.
LEMMA ClearedKeyTyped ==
  ASSUME Typing, NEW k \in 1..5
  PROVE  LET c == ClearedKey(meta, k)
         IN c \in Meta /\ c.sync_watermark <= clock /\ c.sync_pending_newest <= clock
<1>0. /\ meta \in Meta /\ meta.sync_watermark <= clock /\ meta.sync_pending_newest <= clock
      /\ clock \in Nat
  BY DEF Typing, TypeOK, StampsPast
<1>1. CASE k = 1
  BY <1>0, <1>1 DEF ClearedKey, Meta
<1>2. CASE k = 2
  <2>1. ClearedKey(meta, k) = [meta EXCEPT !.backfill_done = FALSE]
    BY <1>2 DEF ClearedKey
  <2>2. FALSE \in BOOLEAN
    OBVIOUS
  <2> QED
    BY <1>0, <2>1, <2>2 DEF Meta
<1>3. CASE k = 3
  BY <1>0, <1>3 DEF ClearedKey, Meta, Token
<1>4. CASE k = 4
  BY <1>0, <1>4 DEF ClearedKey, Meta, Token
<1>5. CASE k = 5
  BY <1>0, <1>5 DEF ClearedKey, Meta
<1> QED
  BY <1>1, <1>2, <1>3, <1>4, <1>5

\* The engine's part of the types.
LEMMA EngineTyping ==
  ASSUME SweepTyping, [FullNext]_allVars
  PROVE  Typing'
<1>0. Typing /\ full \in Checkpoint /\ cli \in Cli /\ CliShape
  BY DEF SweepTyping
<1>1. CASE [Next]_vars
  BY <1>0, <1>1, NextTyping
<1>2. CASE FullRunStart
  <2>1. cli.jql \in Queries /\ FALSE \in BOOLEAN
    BY <1>0, <1>2 DEF FullRunStart, CliShape
  <2> QED
    BY <1>0, <1>2, <2>1, StartTyping DEF FullRunStart
<1>3. CASE Prepare
  <2>1. /\ meta' \in Meta /\ meta'.sync_watermark <= clock
        /\ meta'.sync_pending_newest <= clock
    <3>1. CASE cli.key <= 5
      <4>1. cli.key \in 1..5
        BY <1>0, <3>1, SweepFields
      <4> QED
        BY <1>0, <1>3, <4>1, ClearedKeyTyped DEF Prepare
    <3>2. CASE ~(cli.key <= 5)
      BY <1>0, <1>3, <3>2 DEF Prepare, Typing, TypeOK, StampsPast
    <3> QED
      BY <3>1, <3>2
  <2> QED
    BY <1>0, <1>3, <2>1 DEF Prepare, Typing, TypeOK, StampsPast, RunShape
<1>4. CASE DeleteUnseen
  BY <1>0, <1>4, NoRunFields DEF DeleteUnseen, Typing, TypeOK, StampsPast, RunShape, Paging
<1>5. CASE FullCrash
  BY <1>0, <1>5, NoRunFields DEF FullCrash, Typing, TypeOK, StampsPast, RunShape, Paging
<1> QED
  BY <1>1, <1>2, <1>3, <1>4, <1>5, EngineSteps

\* The command's own part.
LEMMA CommandTyping ==
  ASSUME SweepTyping, [FullNext]_allVars
  PROVE  full' \in Checkpoint /\ cli' \in Cli /\ seen' \subseteq Issues /\ CliShape'
<1>0. /\ full \in Checkpoint /\ cli \in Cli /\ seen \subseteq Issues
      /\ full.active \in BOOLEAN
      /\ full.jql \in Queries \cup {NoQuery}
      /\ full.seen \subseteq Issues
      /\ cli.pc \in {"idle", "prepare", "sync", "reconcile"}
      /\ cli.key \in 1..8
      /\ cli.jql \in Queries \cup {NoQuery}
      /\ cli.prior \subseteq Issues
      /\ configJql \in Queries
  BY SweepFields DEF SweepTyping, Typing, TypeOK
<1>1. ASSUME UNCHANGED fullVars
      PROVE  full' \in Checkpoint /\ cli' \in Cli /\ seen' \subseteq Issues /\ CliShape'
  BY <1>0, <1>1 DEF fullVars, SweepTyping, CliShape
<1>2. CASE StartFull
  <2>1. CASE full.active /\ full.jql = configJql
    <3>1. cli' = [NoCli EXCEPT !.pc = "sync", !.jql = configJql, !.prior = full.seen]
      BY <1>2, <2>1 DEF StartFull
    <3>2. /\ cli' \in Cli /\ cli'.pc = "sync" /\ cli'.jql = configJql /\ cli'.key = 1
      BY <1>0, <3>1, NoCliFields DEF NoCli, Cli
    <3> QED
      BY <1>0, <1>2, <2>1, <3>2 DEF StartFull, CliShape
  <2>2. CASE ~(full.active /\ full.jql = configJql)
    <3>1. cli' = [NoCli EXCEPT !.pc = "prepare", !.jql = configJql]
      BY <1>2, <2>2 DEF StartFull
    <3>2. /\ cli' \in Cli /\ cli'.pc = "prepare" /\ cli'.jql = configJql /\ cli'.key = 1
      BY <1>0, <3>1, NoCliFields DEF NoCli, Cli
    <3> QED
      BY <1>0, <1>2, <3>2 DEF StartFull, CliShape
  <2> QED
    BY <2>1, <2>2
<1>3. CASE Prepare
  <2>1. CASE cli.key = 8
    <3>1. full' = [full EXCEPT !.seen = {}] /\ cli' = [cli EXCEPT !.pc = "sync", !.key = 1]
      BY <1>3, <2>1 DEF Prepare
    <3>2. full' \in Checkpoint /\ full'.active = full.active /\ full'.jql = full.jql
      BY <1>0, <3>1 DEF Checkpoint
    <3>3. cli' = [pc |-> "sync", key |-> 1, jql |-> cli.jql, prior |-> cli.prior]
      BY <1>0, <3>1 DEF Cli
    <3>4. cli' \in Cli /\ cli'.pc = "sync" /\ cli'.key = 1 /\ cli'.jql = cli.jql
      BY <1>0, <3>3 DEF Cli
    <3> QED
      BY <1>0, <1>3, <2>1, <3>2, <3>4 DEF Prepare, CliShape, SweepTyping
  <2>2. CASE cli.key # 8
    <3>1. /\ cli' = [cli EXCEPT !.key = @ + 1]
          /\ cli' \in Cli /\ cli'.pc = "prepare" /\ cli'.key = cli.key + 1 /\ cli'.jql = cli.jql
      BY <1>0, <1>3, <2>2 DEF Prepare, Cli
    <3>2. CASE cli.key <= 5
      BY <1>0, <1>3, <3>1, <3>2 DEF Prepare, CliShape, SweepTyping
    <3>3. CASE cli.key = 6
      <4>1. full' = [full EXCEPT !.active = TRUE]
        BY <1>3, <3>3 DEF Prepare
      <4>2. TRUE \in BOOLEAN
        OBVIOUS
      <4>3. full' \in Checkpoint /\ full'.active
        BY <1>0, <4>1, <4>2 DEF Checkpoint
      <4> QED
        BY <1>0, <1>3, <3>1, <3>3, <4>3 DEF Prepare, CliShape, SweepTyping
    <3>4. CASE cli.key = 7
      <4>1. full' = [full EXCEPT !.jql = cli.jql]
        BY <1>3, <3>4 DEF Prepare
      <4>2. full' \in Checkpoint /\ full'.active = full.active /\ full'.jql = cli.jql
        BY <1>0, <4>1 DEF Checkpoint
      <4> QED
        BY <1>0, <1>3, <3>1, <3>4, <4>2 DEF Prepare, CliShape, SweepTyping
    <3> QED
      BY <1>0, <2>2, <3>2, <3>3, <3>4
  <2> QED
    BY <2>1, <2>2
<1>4. CASE FullRunStart
  BY <1>0, <1>4 DEF FullRunStart, SweepTyping, CliShape
<1>5. CASE FullRunStep
  BY <1>0, <1>5 DEF FullRunStep, SweepTyping, CliShape
<1>6. CASE FullRunFailed \/ FullCrash
  BY <1>0, <1>6, NoCliFields DEF FullRunFailed, FullCrash, CliShape
<1>7. CASE SaveSeen
  <2>1. full' = [full EXCEPT !.seen = AllSeen] /\ AllSeen \subseteq Issues
    BY <1>0, <1>7 DEF SaveSeen, AllSeen
  <2>2. full' \in Checkpoint
    BY <1>0, <2>1 DEF Checkpoint
  <2> QED
    BY <1>0, <1>7, <2>2, NoCliFields DEF SaveSeen, CliShape
<1>8. CASE DeleteUnseen
  <2>1. cli' \in Cli /\ cli'.pc = "reconcile" /\ cli'.key = cli.key /\ cli'.jql = cli.jql
    BY <1>0, <1>8 DEF DeleteUnseen, Cli
  <2> QED
    BY <1>0, <1>8, <2>1 DEF DeleteUnseen, SweepTyping, CliShape
<1>9. CASE ClearCheckpoint
  <2>0. cli.key \in 1..3 /\ cli.pc = "reconcile" /\ cli.jql \in Queries
    BY <1>9 DEF ClearCheckpoint, SweepTyping, CliShape
  <2>4. cli.key > 1 => ~full.active
    BY <1>9 DEF ClearCheckpoint, SweepTyping, CliShape
  <2>1. full' \in Checkpoint /\ ~full'.active
    <3>1. CASE cli.key = 1
      <4>1. full' = [full EXCEPT !.active = FALSE]
        BY <1>9, <3>1 DEF ClearCheckpoint
      <4>2. FALSE \in BOOLEAN
        OBVIOUS
      <4> QED
        BY <1>0, <4>1, <4>2 DEF Checkpoint
    <3>2. CASE cli.key = 2
      <4>1. full' = [full EXCEPT !.jql = NoQuery]
        BY <1>9, <3>2 DEF ClearCheckpoint
      <4> QED
        BY <1>0, <2>4, <3>2, <4>1 DEF Checkpoint
    <3>3. CASE cli.key = 3
      <4>1. full' = [full EXCEPT !.seen = {}]
        BY <1>9, <3>3 DEF ClearCheckpoint
      <4> QED
        BY <1>0, <2>4, <3>3, <4>1 DEF Checkpoint
    <3> QED
      BY <2>0, <3>1, <3>2, <3>3
  <2>2. CASE cli.key = 3
    BY <1>0, <1>9, <2>1, <2>2, NoCliFields DEF ClearCheckpoint, CliShape
  <2>3. CASE cli.key # 3
    <3>1. /\ cli' \in Cli /\ cli'.pc = "reconcile" /\ cli'.key = cli.key + 1
          /\ cli'.jql = cli.jql
      BY <1>0, <1>9, <2>0, <2>3 DEF ClearCheckpoint, Cli
    <3> QED
      BY <1>0, <1>9, <2>0, <2>1, <2>3, <3>1 DEF ClearCheckpoint, CliShape
  <2> QED
    BY <2>2, <2>3
<1> QED
  BY <1>1, <1>2, <1>3, <1>4, <1>5, <1>6, <1>7, <1>8, <1>9
     DEF FullNext, FullStep, allVars, fullVars, PlainRunStart, PlainRunStep

\* Types always hold, whatever plain syncs and crashes do; and a sweep in progress is the sweep of
\* its checkpoint, so what an earlier invocation saw counts for the same query only.
THEOREM FullTyping == FullSpec => []FullTypeOK
<1>1. FullInit => SweepTyping
  BY InitTyping, NoCliFields DEF FullInit, SweepTyping, CliShape, Checkpoint
<1>2. SweepTyping /\ [FullNext]_allVars => SweepTyping'
  BY EngineTyping, CommandTyping DEF SweepTyping
<1>3. SweepTyping => FullTypeOK
  BY DEF SweepTyping, Typing, CliShape, FullTypeOK
<1> QED
  BY <1>1, <1>2, <1>3, PTL DEF FullSpec

-----------------------------------------------------------------------------
(* What an invocation and the run below it agree on.                       *)

\* The states of a run in which none of its progress is committed yet.
Reading == {"idle", "clear", "resolve"} \cup Paging

\* Runs belong to the invocation or to the service, never to both.
OneRunner ==
  /\ full.active /\ cli.pc # "sync" => run.pc = "idle"
  /\ cli.pc \in {"prepare", "reconcile"} => run.pc = "idle"
  /\ cli.pc # "sync" => run.incremental
  /\ cli.pc = "sync" /\ run.pc # "idle" => ~run.incremental /\ run.jql = cli.jql

\* A sweep starts from cleared keys, and only its last part marks the backfill done.
SweepKeys ==
  /\ full.active => meta.sync_token = NoToken
  /\ full.active /\ cli.pc # "reconcile" /\ run.pc \in Reading => ~meta.backfill_done
  /\ cli.pc = "prepare" =>
       /\ cli.prior = {}
       /\ cli.key > 1 => meta.sync_watermark = 0
       /\ cli.key > 2 => ~meta.backfill_done
       /\ cli.key > 3 => meta.backfill_token = NoToken
       /\ cli.key > 4 => meta.sync_token = NoToken

\* What the part in progress will hand over: to the next part its token, to the reconciliation an
\* exhausted run.
PartAgrees ==
  cli.pc = "sync" =>
    /\ cli.prior = full.seen
    /\ run.pc \in {"clear", "resolve"} => seen = {}
    /\ run.pc \in Paging \cup Persisting \cup {"returned"} =>
         ~run.in_incremental /\ ~run.backfill_done
    /\ run.pc \in {"token", "returned"} => (meta.backfill_done <=> run.exhausted)
    /\ run.pc = "returned" =>
         /\ meta.sync_watermark = Reached
         /\ meta.backfill_token = IF run.exhausted THEN NoToken ELSE run.token

SweepControl == OneRunner /\ SweepKeys /\ PartAgrees

\* A step of the sweep's own run keeps all three.
LEMMA SweepRunControl ==
  ASSUME SweepTyping, Control, SweepControl, cli.pc = "sync", FullRunStep
  PROVE  SweepControl'
<1> USE DEF SweepControl, OneRunner, SweepKeys, PartAgrees, Reading, Paging, Persisting
<1>0. /\ Typing /\ TypeOK /\ run \in Run /\ meta \in Meta /\ seen \subseteq Issues
      /\ full' = full /\ cli' = cli /\ SyncStep
      /\ seen' = seen \cup {i \in Issues : run.pc = "upsert" /\ run.page[i] > 0}
      /\ full.active /\ cli.prior = full.seen
      /\ meta.sync_token = NoToken
  BY DEF SweepTyping, Typing, TypeOK, FullRunStep, CliShape
<1>1. run.pc # "idle" /\ ~run.incremental /\ run.jql = cli.jql
  BY <1>0 DEF SyncStep, ClearKey, Resolve, SearchPage, SearchEmpty, SearchRejected, Upsert,
              PersistWatermark, PersistDone, PersistToken, PersistNewest
<1>2. run.pc # "upsert" => seen' = seen
  BY <1>0
<1>3. CASE ClearKey
  <2>1. /\ run'.pc \in {"clear", "resolve"} /\ run.pc = "clear"
        /\ run'.incremental = run.incremental /\ run'.jql = run.jql
    BY <1>0, <1>3 DEF ClearKey, Run
  <2>2. /\ meta'.backfill_done => meta.backfill_done
        /\ meta'.sync_token = NoToken
    BY <1>0, <1>3, FieldTypes, ClearedKeyFields DEF ClearKey
  <2> QED
    BY <1>0, <1>1, <1>2, <2>1, <2>2
<1>4. CASE Resolve
  <2>1. /\ run'.pc = "search" /\ run.pc = "resolve"
        /\ run'.incremental = run.incremental /\ run'.jql = run.jql
    BY <1>0, <1>4 DEF Resolve, ResolvedRun, Run
  <2>2. ~run'.in_incremental /\ ~run'.backfill_done /\ ~meta.backfill_done
    BY <1>0, <1>1, <1>4, <2>1 DEF Resolve, ResolvedRun, Run
  <2>3. (meta'.backfill_done <=> meta.backfill_done) /\ meta'.sync_token = NoToken
    BY <1>0, <1>4 DEF Resolve, Meta
  <2> QED
    BY <1>0, <1>1, <1>2, <2>1, <2>2, <2>3
<1>5. ASSUME NEW c \in 1..MaxClock, SearchPage(c) PROVE SweepControl'
  <2>1. /\ run'.pc = "upsert" /\ run.pc = "search" /\ meta' = meta
        /\ run'.incremental = run.incremental /\ run'.jql = run.jql
        /\ run'.in_incremental = run.in_incremental
        /\ run'.backfill_done = run.backfill_done
    BY <1>0, <1>5 DEF SearchPage, Run
  <2> QED
    BY <1>0, <1>1, <1>2, <2>1
<1>6. CASE SearchEmpty
  <2>0. ~run.in_incremental
    BY <1>6 DEF SearchEmpty
  <2>1. run' = [run EXCEPT !.exhausted = TRUE, !.pc = "watermark"] /\ run.pc = "search"
    BY <1>0, <1>6 DEF SearchEmpty, AfterSweep, Run
  <2>2. /\ run'.pc = "watermark" /\ meta' = meta
        /\ run'.incremental = run.incremental /\ run'.jql = run.jql
        /\ run'.in_incremental = run.in_incremental
        /\ run'.backfill_done = run.backfill_done
    BY <1>0, <1>6, <2>1 DEF SearchEmpty, Run
  <2> QED
    BY <1>0, <1>1, <1>2, <2>1, <2>2
<1>7. CASE SearchRejected
  <2>1. run' = [run EXCEPT !.token = NoToken, !.resumed = FALSE] /\ run.pc = "search"
    BY <1>7 DEF SearchRejected
  <2>2. /\ run'.pc = "search"
        /\ run'.incremental = run.incremental /\ run'.jql = run.jql
        /\ run'.in_incremental = run.in_incremental
        /\ run'.backfill_done = run.backfill_done
    BY <1>0, <2>1 DEF Run
  <2>3. meta'.backfill_done = meta.backfill_done /\ meta'.sync_token = NoToken
    BY <1>0, <1>7 DEF SearchRejected, Meta
  <2> QED
    BY <1>0, <1>1, <1>2, <2>1, <2>2, <2>3
<1>8. CASE Upsert
  <2>1. run.pc = "upsert" /\ meta' = meta
    BY <1>8 DEF Upsert
  <2>2. /\ run'.pc \in {"search", AfterSweep(run')}
        /\ run'.incremental = run.incremental /\ run'.jql = run.jql
        /\ run'.in_incremental = run.in_incremental
        /\ run'.backfill_done = run.backfill_done
    BY <1>0, <1>8, UpsertRun
  <2>3. run'.pc \in {"search", "watermark"}
    BY <2>1, <2>2 DEF AfterSweep
  <2> QED
    BY <1>0, <1>1, <2>1, <2>2, <2>3
<1>9. CASE PersistWatermark
  <2>1. /\ run.pc = "watermark"
        /\ run'.pc = IF run.exhausted THEN "done" ELSE "token"
        /\ run'.incremental = run.incremental /\ run'.jql = run.jql
        /\ run'.in_incremental = run.in_incremental
        /\ run'.backfill_done = run.backfill_done
        /\ run'.exhausted = run.exhausted
    BY <1>0, <1>9 DEF PersistWatermark, Run
  <2>2. /\ meta'.backfill_done = meta.backfill_done /\ ~meta.backfill_done
        /\ meta'.sync_token = NoToken
    BY <1>0, <1>1, <1>9, <2>1 DEF PersistWatermark, Meta, Control, RunAgrees
  <2> QED
    BY <1>0, <1>1, <1>2, <2>1, <2>2
<1>10. CASE PersistDone
  <2>1. /\ run.pc = "done" /\ run'.pc = "token"
        /\ run'.incremental = run.incremental /\ run'.jql = run.jql
        /\ run'.in_incremental = run.in_incremental
        /\ run'.backfill_done = run.backfill_done
        /\ run'.exhausted = run.exhausted
    BY <1>0, <1>10 DEF PersistDone, Run
  <2>2. run.exhausted
    BY <2>1 DEF Control, RunAgrees
  <2>3. meta'.backfill_done /\ meta'.sync_token = NoToken
    BY <1>0, <1>10 DEF PersistDone, Meta
  <2> QED
    BY <1>0, <1>1, <1>2, <2>1, <2>2, <2>3
<1>11. CASE PersistToken
  <2>1. /\ run.pc = "token" /\ run'.pc = "returned"
        /\ run'.incremental = run.incremental /\ run'.jql = run.jql
        /\ run'.in_incremental = run.in_incremental
        /\ run'.backfill_done = run.backfill_done
        /\ run'.exhausted = run.exhausted
        /\ run'.token = run.token /\ run'.newest = run.newest
    BY <1>0, <1>11 DEF PersistToken, Run
  <2>2. /\ meta'.backfill_done = meta.backfill_done /\ meta'.sync_token = NoToken
        /\ meta'.sync_watermark = meta.sync_watermark
        /\ meta'.backfill_token = IF run.exhausted THEN NoToken ELSE run.token
    BY <1>0, <1>11, <2>1 DEF PersistToken, Meta
  <2>3. meta'.sync_watermark = Reached'
    BY <2>1, <2>2 DEF Control, RunAgrees, Reached
  <2>4. meta.backfill_done <=> run.exhausted
    BY <2>1
  <2> QED
    BY <1>0, <1>1, <1>2, <2>1, <2>2, <2>3, <2>4
<1>12. CASE PersistNewest
  BY <1>1, <1>12 DEF PersistNewest, Control, RunAgrees
<1> QED
  BY <1>0, <1>3, <1>4, <1>5, <1>6, <1>7, <1>8, <1>9, <1>10, <1>11, <1>12 DEF SyncStep

\* Every other step keeps them too, if no plain sync runs between the parts of a sweep and no
\* invocation dies while it records its progress.
LEMMA NextSweepControl ==
  ASSUME SweepTyping, SweepTyping', Control, SweepControl,
         ~PlainDuringSweep, ~CrashWhileSaving, [FullNext]_allVars
  PROVE  SweepControl'
<1> USE DEF SweepControl, OneRunner, SweepKeys, PartAgrees, Reading, Paging, Persisting
<1>0. /\ Typing /\ TypeOK /\ run \in Run /\ meta \in Meta /\ seen \subseteq Issues
      /\ full \in Checkpoint /\ cli \in Cli /\ CliShape
      /\ cli.pc \in {"idle", "prepare", "sync", "reconcile"}
      /\ cli.key \in 1..8
  BY SweepFields DEF SweepTyping, Typing, TypeOK
<1>1. ASSUME UNCHANGED <<meta, run, full, cli, seen>> PROVE SweepControl'
  BY <1>1 DEF Reached
<1>2. CASE StartFull
  <2>1. /\ meta' = meta /\ run' = run /\ full' = full /\ seen' = seen
        /\ run.pc = "idle" /\ cli.pc = "idle"
    BY <1>2 DEF StartFull, vars
  <2>2. \/ cli'.pc = "sync" /\ full.active /\ cli'.prior = full.seen
        \/ cli'.pc = "prepare" /\ cli'.key = 1 /\ cli'.prior = {}
    BY <1>2, NoCliFields DEF StartFull, NoCli
  <2> QED
    BY <2>1, <2>2
<1>3. CASE Prepare
  <2>0. /\ cli.pc = "prepare" /\ run' = run /\ seen' = seen /\ run.pc = "idle"
    BY <1>3 DEF Prepare
  <2>1. CASE cli.key = 8
    <3>1. full' = [full EXCEPT !.seen = {}] /\ cli' = [cli EXCEPT !.pc = "sync", !.key = 1]
          /\ meta' = meta
      BY <1>3, <2>1 DEF Prepare
    <3>2. full'.active = full.active /\ full'.seen = {}
      BY <1>0, <3>1 DEF Checkpoint
    <3>3. cli'.pc = "sync" /\ cli'.prior = cli.prior
      BY <1>0, <3>1 DEF Cli
    <3> QED
      BY <1>0, <2>0, <2>1, <3>1, <3>2, <3>3
  <2>2. CASE cli.key # 8
    <3>1. /\ cli'.pc = "prepare" /\ cli'.key = cli.key + 1 /\ cli'.prior = cli.prior
      BY <1>0, <1>3, <2>0, <2>2 DEF Prepare, Cli
    <3>2. CASE cli.key <= 5
      <4>1. full' = full /\ meta' = ClearedKey(meta, cli.key) /\ cli.key \in 1..5
        BY <1>0, <1>3, <3>2 DEF Prepare
      <4>2. /\ meta'.sync_watermark = IF cli.key = 1 THEN 0 ELSE meta.sync_watermark
            /\ meta'.backfill_done <=> cli.key # 2 /\ meta.backfill_done
            /\ meta'.backfill_token = IF cli.key = 3 THEN NoToken ELSE meta.backfill_token
            /\ meta'.sync_token = IF cli.key = 4 THEN NoToken ELSE meta.sync_token
        BY <1>0, <4>1, ClearedKeyFields
      <4> QED
        BY <1>0, <2>0, <3>1, <4>1, <4>2
    <3>3. CASE cli.key \in {6, 7}
      <4>1. meta' = meta
        BY <1>3, <3>3 DEF Prepare
      <4> QED
        BY <1>0, <2>0, <3>1, <3>3, <4>1
    <3> QED
      BY <1>0, <2>2, <3>2, <3>3
  <2> QED
    BY <2>1, <2>2
<1>4. CASE FullRunStart
  <2>1. /\ cli.pc = "sync" /\ run.pc = "idle" /\ meta' = meta /\ full' = full /\ cli' = cli
        /\ seen' = {} /\ cli.jql \in Queries /\ full.active
    BY <1>0, <1>4 DEF FullRunStart, SyncStart, CliShape
  <2>2. /\ run'.pc \in {"clear", "resolve"} /\ run'.jql = cli.jql /\ ~run'.incremental
    <3>1. FALSE \in BOOLEAN
      OBVIOUS
    <3> QED
      BY <1>0, <1>4, <2>1, <3>1, StartTyping DEF FullRunStart
  <2> QED
    BY <2>1, <2>2
<1>5. CASE cli.pc = "sync" /\ FullRunStep
  BY <1>5, SweepRunControl
<1>6. CASE SaveSeen
  <2>1. /\ cli.pc = "sync" /\ run.pc = "returned" /\ meta' = meta
        /\ run'.pc = "idle" /\ run'.incremental
        /\ cli'.pc = "idle"
    BY <1>6, NoRunFields, NoCliFields DEF SaveSeen
  <2>2. full'.active = full.active
    BY <1>0, <1>6 DEF SaveSeen, Checkpoint
  <2>3. full.active
    BY <1>0, <2>1 DEF CliShape
  <2>4. ~meta.backfill_done
    BY <1>6, <2>1 DEF SaveSeen, BackfillComplete
  <2> QED
    BY <2>1, <2>2, <2>3, <2>4
<1>7. CASE DeleteUnseen
  <2>1. /\ cli.pc = "sync" /\ meta' = meta /\ full' = full
        /\ run'.pc = "idle" /\ run'.incremental
    BY <1>7, NoRunFields DEF DeleteUnseen
  <2>2. cli'.pc = "reconcile"
    BY <1>0, <1>7 DEF DeleteUnseen, Cli
  <2>3. full.active
    BY <1>0, <2>1 DEF CliShape
  <2> QED
    BY <2>1, <2>2, <2>3
<1>8. CASE ClearCheckpoint
  <2>1. /\ cli.pc = "reconcile" /\ run' = run /\ meta' = meta
        /\ cli.key \in 1..3 /\ run.pc = "idle"
    BY <1>0, <1>8 DEF ClearCheckpoint, vars, CliShape
  <2>4. ~full'.active
    <3>1. CliShape /\ CliShape' /\ full' \in Checkpoint
      BY DEF SweepTyping
    <3>2. CASE cli.key = 1
      BY <1>0, <1>8, <3>2 DEF ClearCheckpoint, Checkpoint
    <3>3. CASE cli.key = 2
      BY <1>0, <1>8, <2>1, <3>1, <3>3 DEF ClearCheckpoint, Checkpoint, CliShape
    <3>4. CASE cli.key = 3
      BY <1>0, <1>8, <2>1, <3>1, <3>4 DEF ClearCheckpoint, Checkpoint, CliShape
    <3> QED
      BY <2>1, <3>2, <3>3, <3>4
  <2>2. CASE cli.key = 3
    <3>1. cli'.pc = "idle"
      BY <1>8, <2>2, NoCliFields DEF ClearCheckpoint
    <3> QED
      BY <2>1, <2>4, <3>1
  <2>3. CASE cli.key # 3
    <3>1. cli'.pc = "reconcile"
      BY <1>0, <1>8, <2>1, <2>3 DEF ClearCheckpoint, Cli
    <3> QED
      BY <2>1, <2>4, <3>1
  <2> QED
    BY <2>2, <2>3
<1>9. CASE PlainRunStart
  <2>1. /\ cli.pc = "idle" /\ ~full.active /\ UNCHANGED <<meta, full, cli, seen>>
        /\ SyncStart(configJql, TRUE)
    BY <1>9 DEF PlainRunStart, SyncStart, fullVars
  <2>2. run'.incremental
    <3>1. TRUE \in BOOLEAN /\ configJql \in Queries
      BY <1>0 DEF TypeOK
    <3> QED
      BY <1>0, <2>1, <3>1, StartTyping
  <2> QED
    BY <2>1, <2>2
<1>10. CASE PlainRunStep
  <2>1. /\ cli.pc = "idle" /\ UNCHANGED <<full, cli, seen>> /\ Next
    BY <1>10 DEF PlainRunStep, fullVars, Next
  <2>2. run.pc # "idle"
    BY <1>10 DEF PlainRunStep, SyncStep, ClearKey, Resolve, SearchPage, SearchEmpty,
       SearchRejected, Upsert, PersistWatermark, PersistDone, PersistToken, PersistNewest,
       SearchFailed, ServiceReturn, CliReturn, Crash
  <2>3. run'.incremental
    BY <1>0, <2>1, NextIncremental
  <2> QED
    BY <2>1, <2>2, <2>3
<1>11. CASE cli.pc = "sync" /\ FullRunFailed
  <2>1. /\ run.pc = "search" /\ run'.pc = "idle" /\ run'.incremental
        /\ cli'.pc = "idle" /\ UNCHANGED <<meta, full, seen>>
    BY <1>11, NoRunFields, NoCliFields DEF FullRunFailed, SearchFailed
  <2> QED
    BY <1>11, <2>1
<1>12. CASE FullCrash
  <2>1. /\ cli.pc # "idle" /\ ~Saving
        /\ run'.pc = "idle" /\ run'.incremental
        /\ cli'.pc = "idle" /\ UNCHANGED <<meta, full, seen>>
    BY <1>12, NoRunFields, NoCliFields DEF FullCrash
  <2>2. full.active => ~meta.backfill_done
    <3>1. CASE cli.pc = "reconcile"
      BY <2>1, <3>1 DEF Saving
    <3>2. CASE cli.pc = "prepare"
      BY <2>1, <3>2
    <3>3. CASE cli.pc = "sync"
      <4>1. run.pc \in Reading
        BY <1>0, <2>1, <3>3, FieldTypes DEF Saving, PC
      <4> QED
        BY <3>3, <4>1
    <3> QED
      BY <1>0, <2>1, <3>1, <3>2, <3>3
  <2> QED
    BY <2>1, <2>2
<1>13. ASSUME NEW i \in Issues, JiraUpdate(i) \/ JiraDelete(i), UNCHANGED fullVars
       PROVE  SweepControl'
  BY <1>1, <1>13 DEF JiraUpdate, JiraDelete, fullVars
<1>14. ASSUME NEW q \in Queries, EditJql(q), UNCHANGED fullVars
       PROVE  SweepControl'
  BY <1>1, <1>14 DEF EditJql, fullVars
<1>15. CASE UNCHANGED allVars
  BY <1>1, <1>15 DEF allVars, vars
<1> HIDE DEF SweepControl, OneRunner, SweepKeys, PartAgrees
<1> QED
  BY <1>2, <1>3, <1>4, <1>5, <1>6, <1>7, <1>8, <1>9, <1>10, <1>11, <1>12, <1>13, <1>14, <1>15
     DEF FullNext, FullStep

\* The engine's control holds for the runs of a sweep as well: one starts only while the backfill
\* is not done.
LEMMA EngineControl ==
  ASSUME SweepTyping, Control, SweepControl, [FullNext]_allVars
  PROVE  Control'
<1> USE DEF Control, QueryChange, RunAgrees, Cleared, Paging, Persisting
<1>0. /\ Typing /\ meta \in Meta /\ cli.key \in 1..8
  BY SweepFields DEF SweepTyping, Typing, TypeOK
<1>1. CASE [Next]_vars
  BY <1>0, <1>1, NextControl
<1>2. CASE FullRunStart
  <2>1. /\ cli.jql \in Queries /\ FALSE \in BOOLEAN /\ SyncStart(cli.jql, FALSE)
        /\ cli.pc = "sync" /\ full.active
    BY <1>2 DEF FullRunStart, SweepTyping, CliShape
  <2>2. meta' = meta /\ ~meta.backfill_done
    BY <2>1 DEF SyncStart, SweepControl, SweepKeys, Reading
  <2>3. /\ run'.pc \in {"clear", "resolve"}
        /\ run'.pc = "clear" => meta.sync_jql # cli.jql
        /\ run'.pc = "resolve" => meta.sync_jql \in {NoQuery, cli.jql}
        /\ run'.key = 1 /\ run'.jql = cli.jql /\ ~run'.incremental /\ ~run'.in_incremental
    BY <1>0, <2>1, StartTyping
  <2> QED
    BY <2>2, <2>3
<1>3. CASE Prepare
  <2>1. run' = run /\ run.pc = "idle"
    BY <1>3 DEF Prepare, SweepControl, OneRunner
  <2>2. CASE cli.key <= 5
    <3>1. meta' = ClearedKey(meta, cli.key) /\ cli.key \in 1..5
      BY <1>0, <1>3, <2>2 DEF Prepare
    <3>2. /\ meta'.sync_jql = meta.sync_jql
          /\ meta'.sync_watermark \in {0, meta.sync_watermark}
          /\ meta'.backfill_done => meta.backfill_done
          /\ meta'.backfill_token \in {NoToken, meta.backfill_token}
          /\ meta'.sync_token \in {NoToken, meta.sync_token}
      BY <1>0, <3>1, ClearedKeyFields
    <3> QED
      BY <2>1, <3>2
  <2>3. CASE ~(cli.key <= 5)
    BY <1>3, <2>1, <2>3 DEF Prepare
  <2> QED
    BY <2>2, <2>3
<1>4. CASE DeleteUnseen \/ FullCrash
  BY <1>4 DEF DeleteUnseen, FullCrash, NoRun
<1> QED
  BY <1>1, <1>2, <1>3, <1>4, EngineSteps

-----------------------------------------------------------------------------
(* What a sweep has passed.                                                *)

\* No live issue of query q outside S is stamped between the cursor c and the newest stamp n.
Passed(j, q, S, c, n) ==
  \A i \in Issues : i \in Match[q] /\ i \notin S /\ j[i] > 0 => j[i] < c \/ j[i] > n

\* What the checkpoint and the token leave to the next part of the sweep.
SavedPassed ==
  /\ full.active /\ cli.pc # "reconcile" /\ run.pc \in Reading
  /\ meta.backfill_token # NoToken
  => Passed(jira, full.jql, full.seen, meta.backfill_token.cursor, meta.sync_watermark)

\* What the part in progress has passed.
PartPassed ==
  cli.pc = "sync" =>
    /\ run.pc = "search" /\ run.token # NoToken
         => Passed(jira, full.jql, AllSeen, run.token.cursor, Reached)
    /\ run.pc = "upsert" =>
         \A i \in Issues :
           i \in Match[full.jql] /\ i \notin AllSeen /\ jira[i] > 0 =>
             \/ jira[i] > PageNewest(run)
             \/ run.page[i] > 0
             \/ run.next # NoToken /\ jira[i] < run.next.cursor
    /\ run.pc \in Persisting \cup {"returned"} =>
         /\ run.exhausted => Passed(jira, full.jql, AllSeen, 0, Reached)
         /\ ~run.exhausted =>
              /\ run.token # NoToken
              /\ Passed(jira, full.jql, AllSeen, run.token.cursor, Reached)

SweepSeen == SavedPassed /\ PartPassed

\* What was passed stays passed: a change in Jira is newer than every stamp, and seen issues are
\* not forgotten.
LEMMA PassedStays ==
  ASSUME NEW q, NEW S, NEW U, S \subseteq U, NEW c, NEW n \in Nat, NEW k \in Nat, n <= k,
         NEW j \in [Issues -> Nat], NEW l \in [Issues -> Nat],
         \A i \in Issues : l[i] \in {j[i], 0} \/ l[i] > k,
         Passed(j, q, S, c, n)
  PROVE  Passed(l, q, U, c, n)
  BY DEF Passed

\* The keys of a step that empties the table one by one still say only what holds.
LEMMA PrepareCovers ==
  ASSUME Typing, Typing', Covers, cli.key \in 1..8, SweepControl, Prepare
  PROVE  Covers'
<1>0. /\ TypeOK /\ meta \in Meta
      /\ meta.sync_watermark \in Nat /\ meta.sync_watermark <= clock
      /\ meta.sync_pending_newest \in Nat /\ meta.sync_pending_newest <= clock
      /\ run' = run /\ run.pc = "idle" /\ cli.pc = "prepare"
      /\ UNCHANGED <<jira, index, cutoff, clock>>
  BY FieldTypes DEF Typing, TypeOK, StampsPast, Prepare, SweepControl, OneRunner
<1>1. CASE ~(cli.key <= 5)
  <2>1. meta' = meta
    BY <1>1 DEF Prepare
  <2>2. MissingShrinks
    BY <1>0, <2>1 DEF MissingShrinks, Missing, Matching
  <2>3. MetaCovers'
    BY <2>1, <2>2, MetaCoversStays DEF Covers
  <2> QED
    BY <1>0, <2>3 DEF Covers, SweepCovers, PageFresh, OldTokenCovers, Persisting
<1>2. CASE cli.key <= 5
  <2>1. meta' = ClearedKey(meta, cli.key) /\ cli.key \in 1..5
    BY <1>2 DEF Prepare
  <2>2. /\ meta'.sync_jql = meta.sync_jql
        /\ meta'.sync_watermark = IF cli.key = 1 THEN 0 ELSE meta.sync_watermark
        /\ meta'.sync_token = IF cli.key = 4 THEN NoToken ELSE meta.sync_token
        /\ meta'.sync_pending_newest = IF cli.key = 5 THEN 0 ELSE meta.sync_pending_newest
    BY <1>0, <2>1, ClearedKeyFields
  <2>3. /\ cli.key > 1 => meta.sync_watermark = 0
        /\ cli.key > 4 => meta.sync_token = NoToken
    BY <1>0 DEF SweepControl, SweepKeys
  <2>4. Missing' = Missing
    BY <1>0, <2>2 DEF Missing, Matching
  <2>5. \A i \in Missing : jira[i] \in Nat /\ jira[i] > 0
    BY MissingFacts
  <2>6. meta'.sync_watermark = 0
    BY <2>1, <2>2, <2>3
  <2>7. meta'.sync_token # NoToken =>
          /\ meta'.sync_token = meta.sync_token
          /\ meta'.sync_pending_newest = meta.sync_pending_newest
          /\ meta.sync_token # NoToken
    BY <2>1, <2>2, <2>3
  <2>8. meta'.sync_token # NoToken =>
          Covered(meta'.sync_token.cursor, meta'.sync_pending_newest)
    BY <2>7 DEF Covers, MetaCovers
  <2>9. MetaCovers'
    BY <1>0, <2>4, <2>5, <2>6, <2>8 DEF MetaCovers, Covered
  <2> QED
    BY <1>0, <2>9 DEF Covers, SweepCovers, PageFresh, OldTokenCovers, Persisting
<1> QED
  BY <1>1, <1>2

\* What the reconciliation is about to delete is gone from Jira, or newer than the watermark.
LEMMA UnseenIsGone ==
  ASSUME SweepTyping, Control, SweepControl, SweepSeen, DeleteUnseen
  PROVE  /\ meta.sync_jql = full.jql /\ full.jql \in Queries
         /\ meta.backfill_done /\ meta.sync_token = NoToken
         /\ \A i \in Issues \ AllSeen :
              i \in Match[full.jql] => jira[i] = 0 \/ jira[i] > meta.sync_watermark
<1>0. /\ cli.pc = "sync" /\ run.pc = "returned" /\ BackfillComplete
      /\ full.active /\ full.jql = cli.jql /\ cli.jql \in Queries
      /\ jira \in [Issues -> Nat]
  BY DEF DeleteUnseen, SweepTyping, CliShape, Typing, TypeOK
<1>1. /\ run.jql = cli.jql /\ ~run.backfill_done /\ meta.sync_watermark = Reached
      /\ meta.sync_token = NoToken
      /\ meta.backfill_done <=> run.exhausted
  BY <1>0 DEF SweepControl, OneRunner, SweepKeys, PartAgrees
<1>2. run.exhausted
  BY <1>0, <1>1 DEF BackfillComplete
<1>3. run.jql = meta.sync_jql
  BY <1>0 DEF Control, RunAgrees
<1>4. Passed(jira, full.jql, AllSeen, 0, Reached)
  BY <1>0, <1>2 DEF SweepSeen, PartPassed
<1>5. \A i \in Issues : jira[i] \in Nat
  BY <1>0
<1> QED
  BY <1>0, <1>1, <1>2, <1>3, <1>4, <1>5 DEF Passed

\* So the deletion leaves every version the index lacks in reach.
LEMMA DeleteUnseenCovers ==
  ASSUME SweepTyping, SweepTyping', Control, Covers, SweepControl, SweepSeen, DeleteUnseen
  PROVE  Covers'
<1>0. /\ Typing /\ Typing' /\ run'.pc = "idle" /\ meta' = meta
      /\ UNCHANGED <<jira, cutoff>> /\ index \in [Issues -> Nat] /\ jira \in [Issues -> Nat]
      /\ index' = [i \in Issues |-> IF i \in AllSeen THEN index[i] ELSE 0]
      /\ \A q \in Queries : Match[q] \subseteq Issues
  BY NoRunFields, ConstantsAssumption DEF SweepTyping, Typing, TypeOK, DeleteUnseen
<1>1. /\ meta.sync_jql = full.jql /\ full.jql \in Queries
      /\ meta.backfill_done /\ meta.sync_token = NoToken
      /\ \A i \in Issues \ AllSeen :
           i \in Match[full.jql] => jira[i] = 0 \/ jira[i] > meta.sync_watermark
  BY UnseenIsGone
<1>2. Covered(0, meta.sync_watermark)
  BY <1>1 DEF Covers, MetaCovers
<1>3. ASSUME NEW i \in Missing' PROVE jira'[i] > meta'.sync_watermark
  <2>1. /\ i \in Issues /\ i \in Match[full.jql] /\ jira[i] > 0 /\ jira[i] >= cutoff
        /\ index'[i] # jira[i]
    BY <1>0, <1>1, <1>3, ConstantsAssumption DEF Missing, Matching
  <2>2. CASE i \in AllSeen
    <3>1. i \in Missing
      BY <1>0, <1>1, <2>1, <2>2, ConstantsAssumption DEF Missing, Matching
    <3>2. jira[i] \in Nat
      BY <1>0, <2>1
    <3> QED
      BY <1>0, <1>2, <3>1, <3>2 DEF Covered
  <2>3. CASE i \notin AllSeen
    BY <1>0, <1>1, <2>1, <2>3
  <2> QED
    BY <2>2, <2>3
<1>4. MetaCovers'
  BY <1>0, <1>1, <1>3 DEF MetaCovers, Covered
<1> QED
  BY <1>0, <1>4 DEF Covers, SweepCovers, PageFresh, OldTokenCovers, Persisting

\* The engine's covering holds for the runs of a sweep, and across everything around them.
LEMMA EngineCovers ==
  ASSUME SweepTyping, SweepTyping', Control, Control', Covers, SweepControl, SweepSeen,
         [FullNext]_allVars
  PROVE  Covers'
<1>0. Typing /\ Typing' /\ cli.key \in 1..8
  BY SweepFields DEF SweepTyping
<1>1. CASE [Next]_vars
  BY <1>0, <1>1, NextCovers
<1>2. CASE FullRunStart
  <2>1. /\ cli.jql \in Queries /\ FALSE \in BOOLEAN /\ SyncStart(cli.jql, FALSE)
    BY <1>2 DEF FullRunStart, SweepTyping, CliShape
  <2>2. run'.pc \in {"clear", "resolve"}
    BY <1>0, <2>1, StartTyping
  <2>3. UNCHANGED <<jira, cutoff, index, meta>>
    BY <2>1 DEF SyncStart
  <2>4. MissingShrinks
    BY <2>3 DEF MissingShrinks, Missing, Matching
  <2>5. MetaCovers'
    BY <1>0, <2>3, <2>4, MetaCoversStays DEF Covers
  <2> QED
    BY <2>2, <2>5 DEF Covers, SweepCovers, PageFresh, OldTokenCovers, Persisting
<1>3. CASE Prepare
  BY <1>0, <1>3, PrepareCovers
<1>4. CASE DeleteUnseen
  BY <1>4, DeleteUnseenCovers
<1>5. CASE FullCrash
  <2>1. UNCHANGED <<jira, cutoff, index, meta>> /\ run' = NoRun
    BY <1>5 DEF FullCrash
  <2>2. MissingShrinks
    BY <2>1 DEF MissingShrinks, Missing, Matching
  <2> QED
    BY <1>0, <2>1, <2>2, RunEndCovers
<1> QED
  BY <1>1, <1>2, <1>3, <1>4, <1>5, EngineSteps

-----------------------------------------------------------------------------
(* What has been passed, step by step.                                     *)

\* A step of the sweep's run leaves to the next part what the last one left, or less.
LEMMA SweepRunSaved ==
  ASSUME SweepTyping, Control, SweepControl, SweepSeen, cli.pc = "sync", FullRunStep
  PROVE  SavedPassed'
<1> USE DEF Reading, Paging
<1>0. /\ Typing /\ TypeOK /\ run \in Run /\ meta \in Meta
      /\ full' = full /\ cli' = cli /\ SyncStep /\ jira' = jira
      /\ full.active
  BY DEF SweepTyping, Typing, TypeOK, FullRunStep, CliShape, SyncStep, ClearKey, Resolve,
         SearchPage, SearchEmpty, SearchRejected, Upsert, PersistWatermark, PersistDone,
         PersistToken, PersistNewest
<1>1. ASSUME run.pc \in Reading,
             meta'.backfill_token \in {meta.backfill_token, NoToken},
             meta'.sync_watermark \in {meta.sync_watermark, 0}
      PROVE  SavedPassed'
  BY <1>0, <1>1 DEF SweepSeen, SavedPassed, Passed
<1>2. ASSUME run'.pc \notin Reading PROVE SavedPassed'
  BY <1>2 DEF SavedPassed
<1>3. CASE ClearKey
  <2>1. run.pc \in Reading
    BY <1>3 DEF ClearKey
  <2>2. /\ meta'.backfill_token \in {meta.backfill_token, NoToken}
        /\ meta'.sync_watermark \in {meta.sync_watermark, 0}
    BY <1>0, <1>3, FieldTypes, ClearedKeyFields DEF ClearKey
  <2> QED
    BY <1>1, <2>1, <2>2
<1>4. CASE Resolve \/ SearchEmpty \/ SearchRejected \/ Upsert
  <2>1. run.pc \in Reading
    BY <1>4 DEF Resolve, SearchEmpty, SearchRejected, Upsert
  <2>2. /\ meta'.backfill_token \in {meta.backfill_token, NoToken}
        /\ meta'.sync_watermark \in {meta.sync_watermark, 0}
    BY <1>0, <1>4 DEF Resolve, SearchEmpty, SearchRejected, Upsert, Meta
  <2> QED
    BY <1>1, <2>1, <2>2
<1>5. ASSUME NEW c \in 1..MaxClock, SearchPage(c) PROVE SavedPassed'
  BY <1>1, <1>5 DEF SearchPage
<1>6. CASE PersistWatermark \/ PersistDone \/ PersistToken \/ PersistNewest
  <2>1. run'.pc \in {"done", "token", "newest", "returned"}
    BY <1>0, <1>6 DEF PersistWatermark, PersistDone, PersistToken, PersistNewest, Run
  <2> QED
    BY <1>2, <2>1
<1> QED
  BY <1>0, <1>3, <1>4, <1>5, <1>6 DEF SyncStep

\* What a search of the sweep has not returned yet was passed by an earlier page.
LEMMA UnseenUnswept ==
  ASSUME SweepTyping, Control, SweepControl, SweepSeen, cli.pc = "sync", run.pc = "search",
         NEW i \in Issues, i \in Match[full.jql], i \notin AllSeen, jira[i] > 0, i \notin Remaining
  PROVE  /\ run.token \in Tokens
         /\ run.token.cursor <= jira[i]
         /\ jira[i] > Reached
<1>0. /\ Typing /\ jira[i] \in Nat /\ full.jql = cli.jql /\ run.token \in Token
  BY FieldTypes DEF SweepTyping, CliShape, Typing, TypeOK
<1>1. run.jql = cli.jql /\ ~run.in_incremental
  BY DEF SweepControl, OneRunner, PartAgrees, Paging
<1>2. run.since = 0
  BY <1>1 DEF Control, RunAgrees, Paging
<1>3. run.token # NoToken /\ ~(jira[i] < run.token.cursor)
  BY <1>0, <1>1, <1>2 DEF Remaining
<1>4. run.token \in Tokens
  BY <1>0, <1>3 DEF Token
<1>5. Passed(jira, full.jql, AllSeen, run.token.cursor, Reached)
  BY <1>3 DEF SweepSeen, PartPassed
<1> QED
  BY <1>0, <1>3, <1>4, <1>5 DEF Passed, Tokens

\* A page brings the issues next below what was passed.
LEMMA SearchPagePassed ==
  ASSUME SweepTyping, SweepTyping', Control, SweepControl, SweepSeen, cli.pc = "sync",
         UNCHANGED <<full, cli, seen>>, NEW c \in 1..MaxClock, SearchPage(c)
  PROVE  PartPassed'
<1>0. /\ run \in Run /\ run.pc = "search" /\ jira \in [Issues -> Nat]
      /\ run.newest \in Nat /\ Reached \in Nat /\ run.newest <= Reached
      /\ jira' = jira /\ AllSeen' = AllSeen
  BY FieldTypes, ReachedBounds DEF SweepTyping, Typing, TypeOK, SearchPage, AllSeen
<1> DEFINE page == {i \in Remaining : jira[i] >= c}
<1>1. PICK next \in {NoToken, CursorToken(c)} :
        /\ next = NoToken => page = Remaining
        /\ run' = [run EXCEPT !.pc = "upsert",
                     !.page = [i \in Issues |-> IF i \in page THEN jira[i] ELSE 0],
                     !.next = next]
  BY DEF SearchPage
<1>2. /\ run'.pc = "upsert" /\ run'.next = next /\ run'.newest = run.newest
      /\ run'.page = [i \in Issues |-> IF i \in page THEN jira[i] ELSE 0]
  BY <1>0, <1>1 DEF Run
<1>3. next # NoToken => next.cursor = c
  BY <1>1 DEF CursorToken
<1>4. PICK p \in Nat : /\ p = PageNewest(run')
                       /\ p = run.newest \/ \E i \in Issues : p = run'.page[i]
  <2>1. /\ run' \in Run /\ \A i \in Issues : run'.page[i] <= clock'
        /\ run'.newest <= clock' /\ clock' \in Nat
    BY DEF SweepTyping, Typing, TypeOK, StampsPast
  <2> QED
    BY <1>2, <2>1, PageNewestBounds
<1>5. ASSUME NEW i \in Issues, i \in Match[full.jql], i \notin AllSeen, jira[i] > 0
      PROVE  \/ jira[i] > p
             \/ run'.page[i] > 0
             \/ next # NoToken /\ jira[i] < next.cursor
  <2>1. CASE i \in page
    BY <1>2, <1>5, <2>1
  <2>2. CASE i \in Remaining /\ i \notin page
    BY <1>0, <1>1, <1>3, <2>2
  <2>3. CASE i \notin Remaining
    <3>1. run.token \in Tokens /\ run.token.cursor <= jira[i] /\ jira[i] > Reached
      BY <1>0, <1>5, <2>3, UnseenUnswept
    <3>2. ASSUME NEW j \in Issues PROVE run'.page[j] = 0 \/ run'.page[j] < run.token.cursor
      BY <1>0, <1>2, <3>1, ConstantsAssumption DEF Remaining
    <3>3. run.token.cursor \in Nat /\ jira[i] \in Nat
      BY <1>0, <3>1 DEF Tokens
    <3> QED
      BY <1>0, <1>2, <1>4, <1>5, <3>1, <3>2, <3>3
  <2> QED
    BY <2>1, <2>2, <2>3
<1> QED
  BY <1>0, <1>2, <1>4, <1>5 DEF PartPassed, Persisting

\* Writing the page turns what was on it from unseen to seen.
LEMMA UpsertPassed ==
  ASSUME SweepTyping, SweepTyping', Covers, SweepSeen, cli.pc = "sync",
         UNCHANGED <<full, cli>>, Upsert,
         seen' = seen \cup {i \in Issues : run.pc = "upsert" /\ run.page[i] > 0}
  PROVE  PartPassed'
<1>0. /\ Typing /\ run.pc = "upsert" /\ meta' = meta /\ jira' = jira
      /\ jira \in [Issues -> Nat] /\ run.next \in Token
  BY FieldTypes DEF SweepTyping, Typing, TypeOK, Upsert
<1>1. /\ run'.newest = PageNewest(run) /\ run'.token = run.next
      /\ run'.exhausted <=> run.next = NoToken
      /\ run'.pc \in {"search", "token", "watermark"}
      /\ run'.pc = "search" => run.next # NoToken
      /\ PageNewest(run) \in Nat
  BY <1>0, UpsertRun DEF AfterSweep
<1>2. Reached' = PageNewest(run)
  BY <1>0, <1>1 DEF Reached, Covers, SweepCovers
<1>3. ASSUME NEW i \in Issues, i \in Match[full.jql], i \notin AllSeen', jira[i] > 0
      PROVE  \/ jira[i] > PageNewest(run)
             \/ run.next # NoToken /\ jira[i] < run.next.cursor
  <2>1. i \notin AllSeen /\ ~(run.page[i] > 0)
    BY <1>0, <1>3 DEF AllSeen
  <2> QED
    BY <1>0, <1>3, <2>1 DEF SweepSeen, PartPassed
<1> QED
  BY <1>0, <1>1, <1>2, <1>3 DEF PartPassed, Persisting, Passed

\* The sweep's own run keeps what its part has passed.
LEMMA SweepRunPassed ==
  ASSUME SweepTyping, SweepTyping', Control, Covers, SweepControl, SweepSeen,
         cli.pc = "sync", FullRunStep
  PROVE  PartPassed'
<1> USE DEF Reading, Paging, Persisting
<1>0. /\ Typing /\ TypeOK /\ run \in Run /\ meta \in Meta
      /\ full' = full /\ cli' = cli /\ SyncStep
      /\ seen' = seen \cup {i \in Issues : run.pc = "upsert" /\ run.page[i] > 0}
      /\ jira' = jira /\ full.active /\ cli.prior = full.seen
      /\ \A i \in Issues : jira[i] \in Nat
  BY DEF SweepTyping, Typing, TypeOK, FullRunStep, CliShape, SyncStep, ClearKey, Resolve,
         SearchPage, SearchEmpty, SearchRejected, Upsert, PersistWatermark, PersistDone,
         PersistToken, PersistNewest, SweepControl, PartAgrees
<1>1. run.pc # "upsert" => seen' = seen /\ AllSeen' = AllSeen
  BY <1>0 DEF AllSeen
<1>3. CASE ClearKey
  <2>1. run'.pc \in {"clear", "resolve"}
    BY <1>0, <1>3 DEF ClearKey, Run
  <2> QED
    BY <2>1 DEF PartPassed
<1>4. CASE Resolve
  <2>1. run.pc = "resolve" /\ run.incremental \in BOOLEAN /\ ~run.incremental
    BY <1>0, <1>4, FieldTypes DEF Resolve, SweepControl, OneRunner
  <2>2. seen = {} /\ AllSeen' = full.seen
    BY <1>0, <1>1, <2>1 DEF SweepControl, PartAgrees, AllSeen
  <2>3. /\ run'.pc = "search" /\ run'.newest = 0 /\ run'.token = meta.backfill_token
    BY <1>0, <1>4, <2>1 DEF Resolve, ResolvedRun, Run, Larger
  <2>4. meta'.sync_watermark = meta.sync_watermark
    BY <1>0, <1>4 DEF Resolve, Meta
  <2>5. Reached' = meta.sync_watermark
    BY <2>3, <2>4 DEF Reached
  <2>6. meta.backfill_token # NoToken =>
          Passed(jira, full.jql, full.seen, meta.backfill_token.cursor, meta.sync_watermark)
    BY <1>0, <2>1 DEF SweepSeen, SavedPassed
  <2> QED
    BY <1>0, <2>2, <2>3, <2>5, <2>6 DEF PartPassed
<1>5. ASSUME NEW c \in 1..MaxClock, SearchPage(c) PROVE PartPassed'
  <2>1. seen' = seen
    BY <1>1, <1>5 DEF SearchPage
  <2> QED
    BY <1>0, <1>5, <2>1, SearchPagePassed
<1>6. CASE SearchEmpty
  <2>1. run.pc = "search" /\ Remaining = {} /\ meta' = meta
    BY <1>6 DEF SearchEmpty
  <2>2. run' = [run EXCEPT !.exhausted = TRUE, !.pc = "watermark"]
    BY <1>0, <1>6 DEF SearchEmpty, AfterSweep, Run
  <2>3. run'.pc = "watermark" /\ run'.exhausted /\ run'.newest = run.newest
    BY <1>0, <2>2 DEF Run
  <2>4. AllSeen' = AllSeen /\ Reached' = Reached
    BY <1>1, <2>1, <2>3 DEF Reached
  <2>5. ASSUME NEW i \in Issues, i \in Match[full.jql], i \notin AllSeen, jira[i] > 0
        PROVE  jira[i] > Reached
    BY <2>1, <2>5, UnseenUnswept
  <2>6. Passed(jira, full.jql, AllSeen, 0, Reached)
    BY <2>5 DEF Passed
  <2> QED
    BY <1>0, <2>3, <2>4, <2>6 DEF PartPassed
<1>7. CASE SearchRejected
  <2>1. run'.pc = "search" /\ run'.token = NoToken
    BY <1>0, <1>7 DEF SearchRejected, Run
  <2> QED
    BY <2>1 DEF PartPassed
<1>8. CASE Upsert
  BY <1>0, <1>8, UpsertPassed
<1>9. ASSUME run.pc \in Persisting, run'.pc \in Persisting \cup {"returned"},
             run'.exhausted = run.exhausted, run'.token = run.token, Reached' = Reached
      PROVE  PartPassed'
  <2>1. AllSeen' = AllSeen
    BY <1>1, <1>9
  <2> QED
    BY <1>0, <1>9, <2>1 DEF SweepSeen, PartPassed
<1>10. CASE PersistWatermark
  <2>1. /\ run.pc = "watermark" /\ run'.pc \in {"done", "token"}
        /\ run'.exhausted = run.exhausted /\ run'.token = run.token
        /\ run'.newest = run.newest
    BY <1>0, <1>10 DEF PersistWatermark, Run
  <2>2. Reached' = Reached
    BY <1>0, <1>10, <2>1 DEF PersistWatermark, Meta, Reached
  <2> QED
    BY <1>9, <2>1, <2>2
<1>11. CASE PersistDone
  <2>1. /\ run.pc = "done" /\ run'.pc = "token"
        /\ run'.exhausted = run.exhausted /\ run'.token = run.token
        /\ run'.newest = run.newest
    BY <1>0, <1>11 DEF PersistDone, Run
  <2>2. Reached' = Reached
    BY <1>0, <1>11, <2>1 DEF PersistDone, Meta, Reached
  <2> QED
    BY <1>9, <2>1, <2>2
<1>12. CASE PersistToken
  <2>1. /\ run.pc = "token" /\ run'.pc \in {"newest", "returned"}
        /\ run'.exhausted = run.exhausted /\ run'.token = run.token
        /\ run'.newest = run.newest
    BY <1>0, <1>12 DEF PersistToken, Run
  <2>2. Reached' = Reached
    BY <1>0, <1>12, <2>1 DEF PersistToken, Meta, Reached
  <2> QED
    BY <1>9, <2>1, <2>2
<1>13. CASE PersistNewest
  <2>1. /\ run.pc = "newest" /\ run'.pc = "returned"
        /\ run'.exhausted = run.exhausted /\ run'.token = run.token
        /\ run'.newest = run.newest
    BY <1>0, <1>13 DEF PersistNewest, Run
  <2>2. Reached' = Reached
    BY <1>0, <1>13, <2>1 DEF PersistNewest, Meta, Reached
  <2> QED
    BY <1>9, <2>1, <2>2
<1> QED
  BY <1>0, <1>3, <1>4, <1>5, <1>6, <1>7, <1>8, <1>10, <1>11, <1>12, <1>13 DEF SyncStep

\* Changes in Jira: a change is newer than what was passed.
LEMMA EnvironmentSeen ==
  ASSUME SweepTyping, SweepTyping', SweepSeen,
         UNCHANGED <<meta, run, full, cli, seen>>,
         \A i \in Issues : jira'[i] \in {jira[i], 0} \/ jira'[i] > clock
  PROVE  SweepSeen'
<1>0. /\ Typing /\ clock \in Nat /\ jira \in [Issues -> Nat] /\ jira' \in [Issues -> Nat]
      /\ meta.sync_watermark \in Nat /\ meta.sync_watermark <= clock
      /\ Reached \in Nat /\ Reached <= clock
      /\ run \in Run /\ run.newest <= clock /\ \A i \in Issues : run.page[i] <= clock
  BY FieldTypes, ReachedBounds DEF SweepTyping, Typing, TypeOK, StampsPast
<1>1. PageNewest(run) \in Nat /\ PageNewest(run) <= clock
  BY <1>0, PageNewestBounds
<1>2. /\ PageNewest(run)' = PageNewest(run) /\ Reached' = Reached /\ AllSeen' = AllSeen
  BY DEF PageNewest, Reached, AllSeen
<1>3. ASSUME NEW q, NEW S, NEW c, NEW n \in Nat, n <= clock, Passed(jira, q, S, c, n)
      PROVE  Passed(jira', q, S, c, n)
  BY <1>0, <1>3 DEF Passed
<1>4. SavedPassed'
  BY <1>0, <1>3 DEF SweepSeen, SavedPassed, Reading
<1>5. PartPassed'
  <2>1. ASSUME cli.pc = "sync", run.pc = "search", run.token # NoToken
        PROVE  Passed(jira', full.jql, AllSeen, run.token.cursor, Reached)
    BY <1>0, <1>3, <2>1 DEF SweepSeen, PartPassed
  <2>2. ASSUME cli.pc = "sync", run.pc \in Persisting \cup {"returned"}, run.exhausted
        PROVE  Passed(jira', full.jql, AllSeen, 0, Reached)
    BY <1>0, <1>3, <2>2 DEF SweepSeen, PartPassed
  <2>3. ASSUME cli.pc = "sync", run.pc \in Persisting \cup {"returned"}, ~run.exhausted
        PROVE  run.token # NoToken /\ Passed(jira', full.jql, AllSeen, run.token.cursor, Reached)
    BY <1>0, <1>3, <2>3 DEF SweepSeen, PartPassed
  <2>4. ASSUME cli.pc = "sync", run.pc = "upsert",
               NEW i \in Issues, i \in Match[full.jql], i \notin AllSeen, jira'[i] > 0
        PROVE  \/ jira'[i] > PageNewest(run)
               \/ run.page[i] > 0
               \/ run.next # NoToken /\ jira'[i] < run.next.cursor
    <3>1. CASE jira'[i] = jira[i]
      BY <2>4, <3>1 DEF SweepSeen, PartPassed
    <3>2. CASE jira'[i] > clock
      <4>1. jira'[i] \in Nat
        BY <1>0
      <4> QED
        BY <1>0, <1>1, <3>2, <4>1
    <3> QED
      BY <1>0, <2>4, <3>1, <3>2
  <2> QED
    BY <1>2, <2>1, <2>2, <2>3, <2>4 DEF PartPassed
<1> QED
  BY <1>4, <1>5 DEF SweepSeen

\* Every step keeps what a sweep has passed.
LEMMA NextSweepSeen ==
  ASSUME SweepTyping, SweepTyping', Control, Covers, SweepControl, SweepControl', SweepSeen,
         ~PlainDuringSweep, ~CrashWhileSaving, [FullNext]_allVars
  PROVE  SweepSeen'
<1>0. /\ Typing /\ run \in Run /\ meta \in Meta /\ CliShape /\ CliShape'
      /\ full \in Checkpoint /\ cli \in Cli
      /\ cli.pc \in {"idle", "prepare", "sync", "reconcile"}
      /\ cli.key \in 1..8
  BY SweepFields DEF SweepTyping, Typing, TypeOK
\* Nothing is claimed while no sweep is active, or no run has read a page.
<1>1. ASSUME ~full'.active PROVE SweepSeen'
  BY <1>1 DEF SweepTyping, CliShape, SweepSeen, SavedPassed, PartPassed
<1>2. ASSUME run'.pc \in {"idle", "clear", "resolve"}, SavedPassed' PROVE SweepSeen'
  BY <1>2 DEF SweepSeen, PartPassed, Persisting
<1>3. ASSUME run'.pc \in {"idle", "clear", "resolve"}, UNCHANGED <<jira, meta, full>>,
             full.active => cli.pc # "reconcile" /\ run.pc \in Reading
      PROVE  SweepSeen'
  <2>1. SavedPassed'
    BY <1>3 DEF SweepSeen, SavedPassed
  <2> QED
    BY <1>2, <1>3, <2>1
<1>4. CASE StartFull
  BY <1>3, <1>4 DEF StartFull, vars, Reading
<1>5. CASE Prepare
  <2>0. run' = run /\ run.pc = "idle" /\ jira' = jira /\ cli.pc = "prepare"
    BY <1>5 DEF Prepare, SweepControl, OneRunner
  <2>1. CASE cli.key <= 5
    <3>1. full' = full /\ meta' = ClearedKey(meta, cli.key) /\ cli.key \in 1..5
      BY <1>0, <1>5, <2>1 DEF Prepare
    <3>2. /\ meta'.backfill_token \in {NoToken, meta.backfill_token}
          /\ meta'.sync_watermark \in {0, meta.sync_watermark}
      BY <1>0, <3>1, ClearedKeyFields
    <3>3. SavedPassed'
      BY <2>0, <3>1, <3>2 DEF SweepSeen, SavedPassed, Passed, Reading
    <3> QED
      BY <1>2, <2>0, <3>3
  <2>2. CASE ~(cli.key <= 5)
    <3>1. meta' = meta /\ meta.backfill_token = NoToken
      BY <1>0, <1>5, <2>0, <2>2 DEF Prepare, SweepControl, SweepKeys
    <3>2. SavedPassed'
      BY <3>1 DEF SavedPassed
    <3> QED
      BY <1>2, <2>0, <3>2
  <2> QED
    BY <2>1, <2>2
<1>6. CASE FullRunStart
  <2>1. /\ cli.jql \in Queries /\ FALSE \in BOOLEAN /\ SyncStart(cli.jql, FALSE)
        /\ cli.pc = "sync" /\ full' = full
    BY <1>0, <1>6 DEF FullRunStart, CliShape
  <2>2. run'.pc \in {"clear", "resolve"}
    BY <1>0, <2>1, StartTyping
  <2>3. run.pc = "idle" /\ UNCHANGED <<jira, meta>>
    BY <2>1 DEF SyncStart
  <2> QED
    BY <1>3, <2>1, <2>2, <2>3 DEF Reading
<1>7. CASE cli.pc = "sync" /\ FullRunStep
  BY <1>7, SweepRunSaved, SweepRunPassed DEF SweepSeen
<1>8. CASE SaveSeen
  <2>1. /\ cli.pc = "sync" /\ run.pc = "returned" /\ UNCHANGED <<jira, meta>>
        /\ run'.pc = "idle" /\ ~run.exhausted
        /\ full' = [full EXCEPT !.seen = AllSeen]
    BY <1>8, NoRunFields DEF SaveSeen, BackfillComplete
  <2>2. full'.jql = full.jql /\ full'.seen = AllSeen
    BY <1>0, <2>1 DEF Checkpoint
  <2>3. /\ meta.sync_watermark = Reached /\ meta.backfill_token = run.token
    BY <2>1 DEF SweepControl, PartAgrees
  <2>4. Passed(jira, full.jql, AllSeen, run.token.cursor, Reached)
    BY <2>1 DEF SweepSeen, PartPassed
  <2>5. SavedPassed'
    BY <2>1, <2>2, <2>3, <2>4 DEF SavedPassed
  <2> QED
    BY <1>2, <2>1, <2>5
<1>9. CASE DeleteUnseen
  <2>1. run'.pc = "idle"
    BY <1>9, NoRunFields DEF DeleteUnseen
  <2>2. cli'.pc = "reconcile"
    BY <1>0, <1>9 DEF DeleteUnseen, Cli
  <2> QED
    BY <1>2, <2>1, <2>2 DEF SavedPassed
<1>10. CASE ClearCheckpoint
  <2>1. /\ cli.pc = "reconcile" /\ cli.key \in 1..3
        /\ cli.key > 1 => ~full.active
    BY <1>0, <1>10 DEF ClearCheckpoint, CliShape
  <2>2. ~full'.active
    <3>1. CASE cli.key = 1
      BY <1>0, <1>10, <3>1 DEF ClearCheckpoint, Checkpoint
    <3>2. CASE cli.key = 2
      BY <1>0, <1>10, <2>1, <3>2 DEF ClearCheckpoint, Checkpoint
    <3>3. CASE cli.key = 3
      BY <1>0, <1>10, <2>1, <3>3 DEF ClearCheckpoint, Checkpoint
    <3> QED
      BY <2>1, <3>1, <3>2, <3>3
  <2> QED
    BY <1>1, <2>2
<1>11. CASE PlainRunStart
  BY <1>1, <1>11 DEF PlainRunStart, fullVars
<1>12. CASE PlainRunStep
  <2>1. cli.pc = "idle" /\ full' = full
    BY <1>12 DEF PlainRunStep, fullVars
  <2>2. run.pc # "idle"
    BY <1>12 DEF PlainRunStep, SyncStep, ClearKey, Resolve, SearchPage, SearchEmpty,
       SearchRejected, Upsert, PersistWatermark, PersistDone, PersistToken, PersistNewest,
       SearchFailed, ServiceReturn, CliReturn, Crash
  <2>3. ~full.active
    BY <2>1, <2>2 DEF SweepControl, OneRunner
  <2> QED
    BY <1>1, <2>1, <2>3
<1>13. CASE cli.pc = "sync" /\ FullRunFailed
  <2>1. /\ run.pc = "search" /\ run'.pc = "idle" /\ UNCHANGED <<jira, meta, full>>
    BY <1>13, NoRunFields DEF FullRunFailed, SearchFailed
  <2> QED
    BY <1>3, <1>13, <2>1 DEF Reading, Paging
<1>14. CASE FullCrash
  <2>1. /\ cli.pc # "idle" /\ ~Saving /\ run'.pc = "idle" /\ UNCHANGED <<jira, meta, full>>
    BY <1>14, NoRunFields DEF FullCrash
  <2>2. full.active => cli.pc # "reconcile" /\ run.pc \in Reading
    <3>1. CASE cli.pc = "sync"
      BY <1>0, <2>1, <3>1, FieldTypes DEF Saving, PC, Reading, Paging, Typing
    <3>2. CASE cli.pc # "sync"
      BY <2>1, <3>2 DEF Saving, SweepControl, OneRunner, Reading
    <3> QED
      BY <3>1, <3>2
  <2> QED
    BY <1>3, <2>1, <2>2
<1>15. ASSUME NEW i \in Issues, JiraUpdate(i) \/ JiraDelete(i), UNCHANGED fullVars
       PROVE  SweepSeen'
  <2>1. \A k \in Issues : jira'[k] \in {jira[k], 0} \/ jira'[k] > clock
    BY <1>0, <1>15 DEF JiraUpdate, JiraDelete, Typing, TypeOK
  <2>2. UNCHANGED <<meta, run, full, cli, seen>>
    BY <1>15 DEF JiraUpdate, JiraDelete, fullVars
  <2> QED
    BY <2>1, <2>2, EnvironmentSeen
<1>16. ASSUME UNCHANGED <<jira, meta, run, full, cli, seen>> PROVE SweepSeen'
  BY <1>16, EnvironmentSeen
<1>17. ASSUME NEW q \in Queries, EditJql(q), UNCHANGED fullVars PROVE SweepSeen'
  BY <1>16, <1>17 DEF EditJql, fullVars
<1>18. CASE UNCHANGED allVars
  BY <1>16, <1>18 DEF allVars, vars
<1> QED
  BY <1>4, <1>5, <1>6, <1>7, <1>8, <1>9, <1>10, <1>11, <1>12, <1>13, <1>14, <1>15, <1>17, <1>18
     DEF FullNext, FullStep

-----------------------------------------------------------------------------
(* The theorems about the sweep.                                           *)

SweepInv == SweepTyping /\ Control /\ Covers /\ SweepControl /\ SweepSeen

\* The sweep's inductive invariant, for a service that starts no sync while a sweep is unfinished
\* and invocations that are not killed while they record their progress.  Both hypotheses are needed:
\* with one of them dropped TLC finds both properties below violated.
LEMMA SweepInvariance ==
  ASSUME ~PlainDuringSweep, ~CrashWhileSaving
  PROVE  FullSpec => []SweepInv
<1>1. FullInit => SweepInv
  <2> SUFFICES ASSUME FullInit PROVE SweepInv
    OBVIOUS
  <2>1. SweepTyping
    BY InitTyping, NoCliFields DEF FullInit, SweepTyping, CliShape, Checkpoint
  <2>2. Control /\ Covers
    BY DEF FullInit, Init, Control, QueryChange, RunAgrees, Cleared, EmptyMeta, NoRun, Paging,
       Persisting, Covers, MetaCovers, SweepCovers, PageFresh, OldTokenCovers
  <2>3. SweepControl /\ SweepSeen
    BY NoCliFields DEF FullInit, Init, NoRun, SweepControl, OneRunner, SweepKeys, PartAgrees,
       SweepSeen, SavedPassed, PartPassed
  <2> QED
    BY <2>1, <2>2, <2>3 DEF SweepInv
<1>2. SweepInv /\ [FullNext]_allVars => SweepInv'
  <2> SUFFICES ASSUME SweepInv, [FullNext]_allVars PROVE SweepInv'
    OBVIOUS
  <2>1. SweepTyping /\ Control /\ Covers /\ SweepControl /\ SweepSeen
    BY DEF SweepInv
  <2>2. SweepTyping'
    BY <2>1, EngineTyping, CommandTyping DEF SweepTyping
  <2>3. Control'
    BY <2>1, EngineControl
  <2>4. SweepControl'
    BY <2>1, <2>2, NextSweepControl
  <2>5. Covers'
    BY <2>1, <2>2, <2>3, EngineCovers
  <2>6. SweepSeen'
    BY <2>1, <2>2, <2>4, NextSweepSeen
  <2> QED
    BY <2>2, <2>3, <2>4, <2>5, <2>6 DEF SweepInv
<1> QED
  BY <1>1, <1>2, PTL DEF FullSpec

\* At no time, during a sweep or after it, is anything the index lacks out of a later run's reach:
\* a resumed sweep, its deletion and the plain syncs before and after share one watermark safely.
THEOREM SweepReachable ==
  ASSUME ~PlainDuringSweep, ~CrashWhileSaving
  PROVE  FullSpec => []SweepLeavesReachable
<1>1. SweepInv => SweepLeavesReachable
  <2> SUFFICES ASSUME SweepInv, meta.backfill_done, NEW i \in Missing
               PROVE  jira[i] > meta.sync_watermark
    BY DEF SweepLeavesReachable, WatermarkSafe
  <2>1. Covered(0, meta.sync_watermark)
    BY DEF SweepInv, Covers, MetaCovers
  <2>2. jira[i] \in Nat
    BY MissingFacts DEF SweepInv, SweepTyping
  <2> QED
    BY <2>1, <2>2 DEF Covered
<1> QED
  BY <1>1, SweepInvariance, PTL

\* The reconciliation deletes no incident that is live in Jira, unless it changed while the sweep
\* was passing it by: then its version is newer than the watermark and the next run fetches it.
THEOREM NoFalseDeletions ==
  ASSUME ~PlainDuringSweep, ~CrashWhileSaving
  PROVE  FullSpec => NoFalseDeletion
<1>1. ASSUME SweepInv, NEW i \in Issues, DeleteUnseen, i \notin AllSeen, i \in Matching
      PROVE  jira[i] = 0 \/ jira[i] > meta.sync_watermark
  BY <1>1, UnseenIsGone, ConstantsAssumption DEF SweepInv, Matching
<1>2. SweepInv /\ [FullNext]_allVars =>
        [\A i \in Issues :
           (DeleteUnseen /\ index[i] # 0 /\ i \notin AllSeen /\ i \in Matching)
           => jira[i] = 0 \/ jira[i] > meta.sync_watermark]_allVars
  BY <1>1
<1> QED
  BY <1>2, SweepInvariance, PTL DEF FullSpec, NoFalseDeletion

=============================================================================
