------------------------------ MODULE FullSync ------------------------------
(***************************************************************************)
(* `flaky-stab jira sync --full` (incidents/cli.py) on top of the sync     *)
(* engine: a sweep that re-ingests everything, over as many invocations as *)
(* max_pages requires, and at the end deletes the local incidents Jira no  *)
(* longer returned.  The checkpoint of a sweep is three more keys of the   *)
(* meta table.  The sweep shares the engine's backfill_token and           *)
(* backfill_done with the plain syncs of the background service.           *)
(***************************************************************************)
EXTENDS IndexSync

CONSTANTS
  PlainDuringSweep,  \* may a plain sync run between two parts of a sweep?
  CrashWhileSaving   \* may a `--full` invocation die while it records its progress?

ASSUME SweepAssumption ==
  PlainDuringSweep \in BOOLEAN /\ CrashWhileSaving \in BOOLEAN

VARIABLES
  full,   \* the checkpoint: full_sync_active, full_sync_jql, full_sync_seen_keys
  cli,    \* the `--full` invocation in progress, if any
  seen    \* seen_keys of its run_sync

fullVars == <<full, cli, seen>>
allVars == <<vars, full, cli, seen>>

NoCli == [pc |-> "idle", key |-> 1, jql |-> NoQuery, prior |-> {}]

Cli == [pc : {"idle", "prepare", "sync", "reconcile"}, key : 1..8,
        jql : Queries \cup {NoQuery}, prior : SUBSET Issues]

Checkpoint == [active : BOOLEAN, jql : Queries \cup {NoQuery}, seen : SUBSET Issues]

-----------------------------------------------------------------------------
(* _prepare_full_sync.                                                     *)

\* Mutant: an active sweep is resumed whatever its query was.
StartFullAnyQuery ==
  /\ run.pc = "idle"
  /\ cli.pc = "idle"
  /\ cli' = IF full.active
            THEN [NoCli EXCEPT !.pc = "sync", !.jql = configJql, !.prior = full.seen]
            ELSE [NoCli EXCEPT !.pc = "prepare", !.jql = configJql]
  /\ UNCHANGED <<vars, full, seen>>

\* An active sweep of the same query is resumed with what it has seen; any
\* other start resets the sync state first.
StartFull ==
  /\ run.pc = "idle"
  /\ cli.pc = "idle"
  /\ cli' = IF full.active /\ full.jql = configJql
            THEN [NoCli EXCEPT !.pc = "sync", !.jql = configJql, !.prior = full.seen]
            ELSE [NoCli EXCEPT !.pc = "prepare", !.jql = configJql]
  /\ UNCHANGED <<vars, full, seen>>

\* The five keys of reset_sync_state, then the three of the checkpoint.
Prepare ==
  /\ cli.pc = "prepare"
  /\ meta' = IF cli.key <= 5 THEN ClearedKey(meta, cli.key) ELSE meta
  /\ full' = CASE cli.key <= 5 -> full
               [] cli.key = 6 -> [full EXCEPT !.active = TRUE]
               [] cli.key = 7 -> [full EXCEPT !.jql = cli.jql]
               [] cli.key = 8 -> [full EXCEPT !.seen = {}]
  /\ cli' = IF cli.key = 8 THEN [cli EXCEPT !.pc = "sync", !.key = 1]
            ELSE [cli EXCEPT !.key = @ + 1]
  /\ UNCHANGED <<jira, clock, cutoff, configJql, trouble, index, run, seen>>

-----------------------------------------------------------------------------
(* run_sync(incremental=False).                                            *)

FullRunStart ==
  /\ cli.pc = "sync"
  /\ SyncStart(cli.jql, FALSE)
  /\ seen' = {}
  /\ UNCHANGED <<full, cli>>

FullRunStep ==
  /\ SyncStep
  /\ seen' = seen \cup {i \in Issues : run.pc = "upsert" /\ run.page[i] > 0}
  /\ UNCHANGED <<full, cli>>

\* The command reports the error and exits 1; the checkpoint is not touched.
FullRunFailed ==
  /\ SearchFailed
  /\ cli' = NoCli
  /\ UNCHANGED <<full, seen>>

-----------------------------------------------------------------------------
(* _reconcile_full_sync.                                                   *)

\* Mutant: a truncated sweep counts as complete.
BackfillCompleteAlways == TRUE

BackfillComplete == run.backfill_done \/ run.exhausted

\* Mutant: the keys of the earlier invocations are forgotten.
SeenByThisRun == seen

AllSeen == cli.prior \cup seen

\* A truncated sweep saves what it has seen; the next invocation resumes it.
SaveSeen ==
  /\ cli.pc = "sync"
  /\ run.pc = "returned"
  /\ ~BackfillComplete
  /\ full' = [full EXCEPT !.seen = AllSeen]
  /\ cli' = NoCli
  /\ run' = NoRun
  /\ UNCHANGED <<jira, clock, cutoff, configJql, trouble, index, meta, seen>>

\* Mutant: only a sweep that needed a single invocation deletes.
DeleteUnseenSingleRun ==
  /\ cli.pc = "sync"
  /\ run.pc = "returned"
  /\ BackfillComplete
  /\ index' = [i \in Issues |->
                 IF i \in AllSeen \/ cli.prior # {} THEN index[i] ELSE 0]
  /\ cli' = [cli EXCEPT !.pc = "reconcile"]
  /\ run' = NoRun
  /\ UNCHANGED <<jira, clock, cutoff, configJql, trouble, meta, full, seen>>

\* delete_keys_not_in: one transaction.
DeleteUnseen ==
  /\ cli.pc = "sync"
  /\ run.pc = "returned"
  /\ BackfillComplete
  /\ index' = [i \in Issues |-> IF i \in AllSeen THEN index[i] ELSE 0]
  /\ cli' = [cli EXCEPT !.pc = "reconcile"]
  /\ run' = NoRun
  /\ UNCHANGED <<jira, clock, cutoff, configJql, trouble, meta, full, seen>>

\* The three commits that clear the checkpoint.
ClearCheckpoint ==
  /\ cli.pc = "reconcile"
  /\ full' = CASE cli.key = 1 -> [full EXCEPT !.active = FALSE]
               [] cli.key = 2 -> [full EXCEPT !.jql = NoQuery]
               [] cli.key = 3 -> [full EXCEPT !.seen = {}]
  /\ cli' = IF cli.key = 3 THEN NoCli ELSE [cli EXCEPT !.key = @ + 1]
  /\ UNCHANGED <<vars, seen>>

-----------------------------------------------------------------------------
(* The specification.                                                      *)

PlainRunStart ==
  /\ cli.pc = "idle"
  /\ full.active => PlainDuringSweep
  /\ SyncStart(configJql, TRUE)
  /\ UNCHANGED fullVars

PlainRunStep ==
  /\ cli.pc = "idle"
  /\ SyncStep \/ SearchFailed \/ ServiceReturn \/ CliReturn \/ Crash
  /\ UNCHANGED fullVars

\* The steps from the first commit of run_sync's progress to the end of the
\* reconciliation: the engine's keys are ahead of the checkpoint's.
Saving ==
  \/ cli.pc = "sync" /\ run.pc \in {"watermark", "done", "token", "newest", "returned"}
  \/ cli.pc = "reconcile" /\ full.active

FullCrash ==
  /\ cli.pc # "idle"
  /\ Saving => CrashWhileSaving
  /\ trouble < MaxTrouble
  /\ trouble' = trouble + 1
  /\ run' = NoRun
  /\ cli' = NoCli
  /\ UNCHANGED <<jira, clock, cutoff, configJql, index, meta, full, seen>>

FullStep ==
  \/ StartFull
  \/ Prepare
  \/ FullRunStart
  \/ cli.pc = "sync" /\ FullRunStep
  \/ SaveSeen
  \/ DeleteUnseen
  \/ ClearCheckpoint

FullInit ==
  /\ Init
  /\ full = [active |-> FALSE, jql |-> NoQuery, seen |-> {}]
  /\ cli = NoCli
  /\ seen = {}

\* The command itself applies no retention: the window stays closed.
FullNext ==
  \/ /\ \/ \E i \in Issues : JiraUpdate(i)
        \/ \E i \in Issues : JiraDelete(i)
        \/ \E q \in Queries : EditJql(q)
     /\ UNCHANGED fullVars
  \/ PlainRunStart
  \/ PlainRunStep
  \/ FullStep
  \/ cli.pc = "sync" /\ FullRunFailed
  \/ FullCrash

FullSpec == FullInit /\ [][FullNext]_allVars

\* The operator runs the command again until the sweep is complete, and again
\* later, whatever the background service does in between; an invocation or a
\* run that started keeps going.
FullFairSpec ==
  FullSpec /\ SF_allVars(StartFull) /\ WF_allVars(FullStep) /\ WF_allVars(PlainRunStep)

-----------------------------------------------------------------------------
(* Properties.                                                             *)

\* Types; and a sweep in progress is the sweep of its checkpoint: what an
\* earlier invocation saw counts for the same query only.
FullTypeOK ==
  /\ TypeOK
  /\ full \in Checkpoint
  /\ cli \in Cli
  /\ seen \subseteq Issues
  /\ cli.pc = "sync" => full.active /\ full.jql = cli.jql

\* Help text of --full: deletion is skipped if the run was truncated.  So an
\* incident that is still live in Jira is deleted locally only if it changed
\* while the sweep was passing it by: its version is then newer than the
\* watermark and the next incremental run brings it back.
NoFalseDeletion ==
  [][ \A i \in Issues :
        (DeleteUnseen /\ index[i] # 0 /\ i \notin AllSeen /\ i \in Matching)
        => jira[i] = 0 \/ jira[i] > meta.sync_watermark ]_allVars

\* Sweeps and plain syncs share the backfill state and the watermark; outside
\* an unfinished sweep nothing the index lacks is out of a later run's reach.
SweepLeavesReachable == ~full.active => WatermarkSafe

\* Issues deleted upstream leave the index: with sweeps repeated and Jira
\* quiet, the index ends up with live issues of the query only.
GhostsExpunged ==
  <>[](\A i \in Issues : index[i] # 0 => jira[i] # 0 /\ i \in Match[configJql])

=============================================================================
