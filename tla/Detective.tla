----------------------------- MODULE Detective -----------------------------
(***************************************************************************)
(* The run history and the flaky-test detective at work: CI leaves reports, *)
(* an operator ingests them (one file, or a directory in one transaction)   *)
(* and prunes, pipelines feed burn-in runs back through the gateway's       *)
(* shared connection, and scans (nightly or by hand) read the history,      *)
(* replace the verdicts, record an audit row and report, four steps that a  *)
(* crash or another scan can come between.                                  *)
(***************************************************************************)
EXTENDS TestHistory

CONSTANTS Files,       \* the report files, in the order a directory is walked
          Reports,     \* file |-> what CI may leave in it: [kind, dated, els]
          BurnIns,     \* the test ids pipelines may be asked to heal
          HealedAt,    \* test id |-> the spec file the healer reports for it, or None
          Feeder,      \* gateway threads that may feed a burn-in back
          Repeats,     \* green runs one burn-in feeds
          Cron, Hand,  \* the two scanners
          Tunables,    \* [window, minFails, includeErrors] a user may set
          FirstConfig, \* the configuration to begin with
          FirstDisk,   \* the reports that may be there to begin with
          FirstClock, MaxClock, MaxEvents   \* bounds: time, from and to; calls and crashes

Scanner == {Cron, Hand}
File == { Files[i] : i \in 1..Len(Files) }

\* A copy CI may have left: one of the file's reports, with a time of its own or its
\* modification time.
Arrived(f, copy) == copy.report \in Reports[f] /\ RunTimestamp(copy) \in 0..MaxClock

ASSUME DetectiveAssumption ==
  /\ \A id \in BurnIns : id \in Text /\ (HealedAt[id] = None \/ HealedAt[id] \in Text)
  /\ FirstConfig \in Tunables
  /\ \A t \in Tunables : t = [window |-> t.window, minFails |-> t.minFails,
                             includeErrors |-> t.includeErrors]
                        /\ {t.window, t.minFails} \subseteq Int
  /\ {MaxClock, MaxEvents} \subseteq Nat /\ FirstClock \in 0..MaxClock
  /\ Repeats \in Nat \ {0} /\ Cron # Hand
  /\ \A f \in File : \A report \in Reports[f] :
       /\ report.kind \in {"junit", "unbindable", "broken"}
       /\ report.els \in Seq([ident : Ident, tags : SUBSET {"error", "failure", "skipped"}])
  /\ \A d \in FirstDisk :
       DOMAIN d = File /\ \A f \in File : d[f] # None => Arrived(f, d[f])

VARIABLES
  clock,
  disk,      \* file |-> the copy there: [report, stamp, mtime], or None
  exists,    \* history.db has been created
  db,        \* history.db as committed
  txn,       \* the write transaction under way: [by, db], by nobody if there is none
  batch,     \* the directory ingest: the places in Files left to do, or None
  feeder,    \* thread |-> [pc, test, done, stamp, run]
  conf,      \* the detective section of config.json
  cron,      \* [shim, job]: the script is installed, the job exists
  scan,      \* scanner |-> [pc, found, prev]
  verdicts,  \* flaky_verdicts in state.db
  audit,     \* the last scan_runs row: [examined, flaky], or None
  told,      \* the tests the reports so far leave the reader believing flaky
  muddled,   \* two scans overlapped, or one died before its report
  mixed,     \* one gateway thread has committed another's half-written run
  pruned,    \* everything before this moment was pruned
  events     \* calls and crashes so far

historyVars == <<clock, disk, exists, db, txn, batch, feeder, mixed, pruned>>
scanVars == <<conf, cron, scan, verdicts, audit, told, muddled>>
vars == <<historyVars, scanVars, events>>

\* One more call of an operator, a pipeline or CI, or one more crash.
Event == events < MaxEvents /\ events' = events + 1

NoTxn == [by |-> "nobody", db |-> EmptyDb]
Idle == [pc |-> "idle", found |-> {}, prev |-> {}]
NoFeed == [pc |-> "idle", test |-> None, done |-> 0, stamp |-> 0, run |-> 0]

Init ==
  /\ clock = FirstClock /\ exists = FALSE
  /\ disk \in FirstDisk
  /\ db = EmptyDb /\ txn = NoTxn /\ batch = None
  /\ feeder = [w \in Feeder |-> NoFeed]
  /\ conf = FirstConfig /\ cron = [shim |-> FALSE, job |-> FALSE]
  /\ scan = [s \in Scanner |-> Idle]
  /\ verdicts = {} /\ audit = None /\ told = {}
  /\ muddled = FALSE /\ mixed = FALSE /\ pruned = 0
  /\ events = 0

------------------------------------------------------------------------------
(* The world: time, and CI leaving a report (with its own timestamp or not). *)

Tick == /\ clock < MaxClock
        /\ clock' = clock + 1
        /\ UNCHANGED <<disk, exists, db, txn, batch, feeder, mixed, pruned, scanVars, events>>

LeaveReport(f) ==
  /\ Event
  /\ \E r \in Reports[f] :
       disk' = [disk EXCEPT ![f] = [report |-> r, mtime |-> clock,
                                    stamp |-> IF r.dated THEN clock ELSE None]]
  /\ UNCHANGED <<clock, exists, db, txn, batch, feeder, mixed, pruned, scanVars>>

------------------------------------------------------------------------------
(* Ingest.  A connection holds the write lock from its first INSERT to its   *)
(* commit; another writer waits for it and then fails.                        *)

\* `ingest <file>`: one transaction; a failure ends the process, so nothing stays.
IngestOne(f) ==
  /\ batch = None /\ disk[f] # None /\ txn = NoTxn /\ Event
  /\ exists' = TRUE
  /\ db' = IF disk[f].report.kind = "junit" THEN IngestFile(db, f, disk[f]) ELSE db
  /\ UNCHANGED <<clock, disk, txn, batch, feeder, mixed, pruned, scanVars>>

\* `ingest <directory>`: every report there, in order.
StartBatch ==
  /\ batch = None /\ Event
  /\ batch' = { i \in 1..Len(Files) : disk[Files[i]] # None }
  /\ exists' = TRUE
  /\ UNCHANGED <<clock, disk, db, txn, feeder, mixed, pruned, scanVars>>

\* A file that does not parse, or that finds the database locked, is skipped.
BatchFile ==
  /\ batch # None
  /\ \E i \in batch :
       /\ \A j \in batch : i <= j
       /\ LET f == Files[i]
              base == IF txn = NoTxn THEN db ELSE txn.db
              locked == txn.by \notin {"nobody", "cli"}
              opens == disk[f].report.kind # "broken" /\ ~locked
          IN txn' = IF opens THEN [by |-> "cli", db |-> IngestFile(base, f, disk[f])] ELSE txn
       /\ batch' = batch \ {i}
  /\ UNCHANGED <<clock, disk, exists, db, feeder, mixed, pruned, scanVars, events>>

CommitOf(who) ==
  IF txn.by = who
  THEN db' = txn.db /\ txn' = NoTxn
  ELSE UNCHANGED <<db, txn>>

EndBatch ==
  /\ batch = {}
  /\ CommitOf("cli")
  /\ batch' = None
  /\ UNCHANGED <<clock, disk, exists, feeder, mixed, pruned, scanVars, events>>

\* `prune --before`: both deletes in one transaction.
Prune(cutoff) ==
  /\ exists /\ txn = NoTxn
  /\ db' = PruneBefore(db, cutoff)
  /\ pruned' = IF cutoff > pruned THEN cutoff ELSE pruned
  /\ UNCHANGED <<clock, disk, exists, txn, batch, feeder, mixed, scanVars, events>>

------------------------------------------------------------------------------
(* The burn-in feedback.  Each repeat is a run of its own, with a pseudo     *)
(* source of its own; all threads of the gateway share one connection.        *)

\* Mutant: the source names the burn-in, not the repeat.
BurnInSource(test, stamp, index) == <<"burn-in", test, stamp>>

FeedSource(test, stamp, index) == <<"burn-in", test, stamp, index>>

\* The pseudo source of a repeat is the name of no file.
ASSUME SourceAssumption ==
  \A test \in BurnIns, stamp \in 0..MaxClock, index \in 0..Repeats :
    FeedSource(test, stamp, index) \notin File

\* Class and name are the requested id's, the path is the healer's: a test whose reports
\* name another file, or none, gets a second path.
BurnInIdent(test) ==
  [cls |-> IF Len(test) > 1 THEN LeftOf(test) ELSE None,
   name |-> NameOf(test),
   path |-> IF HealedAt[test] # None THEN HealedAt[test] ELSE test]

BurnInCases(test) == {[nr |-> 1, ident |-> BurnInIdent(test), status |-> "passed"]}

Locked == txn.by \notin {"nobody", "gateway"}

\* INSERT INTO test_runs: opens the connection's transaction, or joins it.
InsertRepeat(w, test, stamp, done) ==
  /\ ~Locked
  /\ LET base == IF txn = NoTxn THEN db ELSE txn.db
     IN /\ txn' = [by |-> "gateway", db |-> InsertRun(base, FeedSource(test, stamp, done), stamp)]
        /\ feeder' = [feeder EXCEPT ![w] = [pc |-> "cases", test |-> test, done |-> done,
                                           stamp |-> stamp, run |-> base.next]]
  /\ exists' = TRUE
  /\ UNCHANGED <<clock, disk, db, batch, mixed, pruned, scanVars>>

\* All repeats carry the moment the feedback began.
BeginFeed(w) ==
  /\ feeder[w].pc = "idle" /\ Event
  /\ \E test \in BurnIns : InsertRepeat(w, test, clock, 0)

FeedRun(w) ==
  /\ feeder[w].pc = "next" /\ feeder[w].done < Repeats
  /\ InsertRepeat(w, feeder[w].test, feeder[w].stamp, feeder[w].done)
  /\ UNCHANGED events

\* The cases, then COMMIT: of everything the connection has open.
FeedCases(w) ==
  /\ feeder[w].pc = "cases" /\ ~Locked
  /\ LET base == IF txn = NoTxn THEN db ELSE txn.db
     IN db' = InsertCases(base, feeder[w].run, BurnInCases(feeder[w].test))
  /\ txn' = NoTxn
  /\ mixed' = (mixed \/ \E v \in Feeder \ {w} : feeder[v].pc = "cases")
  /\ feeder' = [feeder EXCEPT ![w].pc = "next", ![w].done = @ + 1, ![w].run = 0]
  /\ UNCHANGED <<clock, disk, exists, batch, pruned, scanVars, events>>

\* The lock is elsewhere: the feedback gives up (its DELETE cannot run either).
FeedLocked(w) ==
  /\ feeder[w].pc \in {"next", "cases"} /\ Locked
  /\ feeder' = [feeder EXCEPT ![w] = NoFeed]
  /\ UNCHANGED <<clock, disk, exists, db, txn, batch, mixed, pruned, scanVars, events>>

EndFeed(w) ==
  /\ feeder[w].pc = "next" /\ feeder[w].done = Repeats
  /\ feeder' = [feeder EXCEPT ![w] = NoFeed]
  /\ UNCHANGED <<clock, disk, exists, db, txn, batch, mixed, pruned, scanVars, events>>

------------------------------------------------------------------------------
(* Configuration and the nightly job.                                         *)

\* update_section: the options install-cron has, merged into the section there is.
Merged(t) == [conf EXCEPT !.window = t.window, !.minFails = t.minFails]

\* What an install-cron that got as far as `upTo` leaves on disk and in the gateway.
InstallShim(upTo) == cron.shim \/ upTo # "config"
CreateJob(upTo) == cron.job \/ upTo = "job"

\* install-cron: checks, then the configuration, the script, the job; it may stop
\* after any of them.
InstallCron(t) ==
  /\ Event /\ ValidateTunables(t)
  /\ conf' = Merged(t)
  /\ \E upTo \in {"config", "shim", "job"} :
       cron' = [shim |-> InstallShim(upTo), job |-> CreateJob(upTo)]
  /\ UNCHANGED <<historyVars, scan, verdicts, audit, told, muddled>>

\* The file edited by hand, within what the readers accept.
EditConfig(t) ==
  /\ Event
  /\ conf' = t
  /\ UNCHANGED <<historyVars, cron, scan, verdicts, audit, told, muddled>>

------------------------------------------------------------------------------
(* A scan.                                                                    *)

\* Bad tunables and an absent history end it with nothing touched.
ScanRefused(t) == (~exists \/ ~ValidateTunables(t)) /\ UNCHANGED vars

\* A window with nothing counted leaves the verdicts as they are and says so in the
\* audit.
ScanRead(s, t) ==
  /\ scan[s].pc = "idle" /\ exists /\ ValidateTunables(t)
  /\ LET found == ScanVerdicts(db, clock, t)
     IN IF found = {}
        THEN /\ audit' = [examined |-> 0, flaky |-> 0]
             /\ UNCHANGED scan
        ELSE /\ scan' = [scan EXCEPT ![s] = [Idle EXCEPT !.pc = "read", !.found = found]]
             /\ UNCHANGED audit
  /\ UNCHANGED <<historyVars, conf, cron, verdicts, told, muddled>>

CronScan == cron.shim /\ cron.job /\ ScanRead(Cron, conf) /\ UNCHANGED events
HandScan(t) == ScanRead(Hand, t) /\ Event

\* Between its reading of the old verdicts and its report.
Midway(s) == scan[s].pc \in {"prev", "replaced", "recorded"}

ReadFlakyKeys(s) ==
  /\ scan[s].pc = "read"
  /\ scan' = [scan EXCEPT ![s].pc = "prev", ![s].prev = FlakyKeys(verdicts)]
  /\ muddled' = (muddled \/ \E o \in Scanner \ {s} : Midway(o))
  /\ UNCHANGED <<historyVars, conf, cron, verdicts, audit, told, events>>

ReplaceVerdicts(s) ==
  /\ scan[s].pc = "prev"
  /\ verdicts' = scan[s].found
  /\ scan' = [scan EXCEPT ![s].pc = "replaced"]
  /\ UNCHANGED <<historyVars, conf, cron, audit, told, muddled, events>>

RecordScanRun(s) ==
  /\ scan[s].pc = "replaced"
  /\ audit' = [examined |-> Cardinality(scan[s].found),
               flaky |-> Cardinality(FlakyKeys(scan[s].found))]
  /\ scan' = [scan EXCEPT ![s].pc = "recorded"]
  /\ UNCHANGED <<historyVars, conf, cron, verdicts, told, muddled, events>>

\* Mutant: what is no longer flaky is not reported.
OnlyNewlyFlaky(s) == told \cup FlakyKeys(scan[s].found)

\* The nightly report is the change since the last scan; an operator's is the whole.
Believed(s) ==
  LET new == FlakyKeys(scan[s].found)
  IN IF s = Hand THEN new
     ELSE (told \cup (new \ scan[s].prev)) \ (scan[s].prev \ new)

EmitScan(s) ==
  /\ scan[s].pc = "recorded"
  /\ told' = Believed(s)
  /\ muddled' = (muddled /\ ~( /\ s = Hand /\ verdicts = scan[s].found
                               /\ ~Midway(Cron)
                               /\ audit.flaky = Cardinality(FlakyKeys(verdicts))
                               /\ audit.examined = Cardinality(verdicts) ))
  /\ scan' = [scan EXCEPT ![s] = Idle]
  /\ UNCHANGED <<historyVars, conf, cron, verdicts, audit, events>>

------------------------------------------------------------------------------
(* Crashes: of the process that ingests, of the gateway, of a scan.           *)

CrashBatch ==
  /\ batch # None /\ Event
  /\ batch' = None
  /\ txn' = IF txn.by = "cli" THEN NoTxn ELSE txn
  /\ UNCHANGED <<clock, disk, exists, db, feeder, mixed, pruned, scanVars>>

CrashGateway ==
  /\ Event /\ \E w \in Feeder : feeder[w].pc # "idle"
  /\ feeder' = [w \in Feeder |-> NoFeed]
  /\ txn' = IF txn.by = "gateway" THEN NoTxn ELSE txn
  /\ UNCHANGED <<clock, disk, exists, db, batch, mixed, pruned, scanVars>>

CrashScan(s) ==
  /\ Event /\ scan[s].pc # "idle"
  /\ muddled' = (muddled \/ scan[s].pc \in {"replaced", "recorded"})
  /\ scan' = [scan EXCEPT ![s] = Idle]
  /\ UNCHANGED <<historyVars, conf, cron, verdicts, audit, told>>

------------------------------------------------------------------------------
ScanStep(s) ==
  ReadFlakyKeys(s) \/ ReplaceVerdicts(s) \/ RecordScanRun(s) \/ EmitScan(s)

Next ==
  \/ Tick
  \/ \E f \in File : LeaveReport(f) \/ IngestOne(f)
  \/ StartBatch \/ BatchFile \/ EndBatch \/ CrashBatch
  \/ \E c \in 1..MaxClock : Prune(c)
  \/ \E w \in Feeder : BeginFeed(w) \/ FeedRun(w) \/ FeedCases(w) \/ FeedLocked(w) \/ EndFeed(w)
  \/ CrashGateway
  \/ \E t \in Tunables : InstallCron(t) \/ EditConfig(t) \/ HandScan(t) \/ ScanRefused(t)
  \/ CronScan
  \/ \E s \in Scanner : ScanStep(s) \/ CrashScan(s)

Spec == Init /\ [][Next]_vars

------------------------------------------------------------------------------
DetectiveTypeOK ==
  /\ clock \in 0..MaxClock /\ exists \in BOOLEAN /\ pruned \in 0..MaxClock
  /\ \A r \in db.runs : r.id < db.next /\ r.eff \in 0..MaxClock
  /\ txn = NoTxn \/ txn.by \in {"cli", "gateway"}
  /\ \A w \in Feeder : feeder[w].done \in 0..Repeats
  /\ \E t \in Tunables : conf = [t EXCEPT !.includeErrors = conf.includeErrors]
  /\ \A s \in Scanner : scan[s].pc \in {"idle", "read", "prev", "replaced", "recorded"}

\* history/ingest.py: a run carries the cases of its report, all of them, whatever
\* bad file, locked database or crash came before; a repeat of a burn-in the one case
\* of the test it is of.  Two gateway threads that feed at once share a connection, and
\* one's commit may publish the other's run row early (`mixed`).
WholeRuns ==
  \A r \in db.runs :
    \/ r.file \in File /\ \E report \in Reports[r.file] :
                              report.kind = "junit" /\ r.cases = ParsedCases(report)
    \/ \E test \in BurnIns, index \in 0..Repeats :
         /\ r.file = FeedSource(test, r.eff, index)
         /\ r.cases = BurnInCases(test) \/ (mixed /\ r.cases = {})

\* orchestrator/pipeline.py:559: every repeat a burn-in has fed is a run of its own
\* for the detective, as long as it was not pruned.
BurnInsCount ==
  \A w \in Feeder :
    LET f == feeder[w]
        green == { r \in LogicalRuns(db, f.stamp) :
                     r.eff = f.stamp /\ r.cases = BurnInCases(f.test) }
    IN f.pc = "idle" \/ f.stamp < pruned \/ mixed \/ Cardinality(green) >= f.done

\* detective/scan.py: when no scans overlapped and none died before its report, what
\* the reports say (the nightly ones only tell the changes) adds up to the verdicts,
\* and the last audit row describes them.
ReportsAddUp ==
  (~muddled /\ \A s \in Scanner : ~Midway(s)) =>
    /\ told = FlakyKeys(verdicts)
    /\ audit \in {None, [examined |-> 0, flaky |-> 0],
                  [examined |-> Cardinality(verdicts), flaky |-> Cardinality(told)]}

\* A test the detective counts failures of.
Failed(v) == v.fails >= 1

\* test_failure_lookup under the detective's key finds every run the detective counted a
\* failure of, unless the key, split at its last "::", is exactly the id of other rows
\* (a name with "::" in it can be taken apart in another place, as a burn-in does).
LookupFinds(all, key, bad) ==
  LET exact == MatchExact(all, key)
  IN exact = {} \/ bad \subseteq exact =>
       LookupFailure(all, key).failures >= Cardinality({ x.run : x \in bad })

\* is_flaky answers for the key; and for path::name, with a path the test's rows name if
\* any names one, unless that is the key of another test.
FlakyKnows(board, v, own) ==
  /\ IsFlaky(board, v.key).fails = v.fails
  /\ LET paths == { x.ident.path : x \in own } \ {None} IN paths = {} \/ v.path \in paths
  /\ v.path # None /\ Len(v.name) = 1 =>
       \/ IsFlaky(board, v.path \o v.name).fails >= v.fails
       \/ \E other \in board \ {v} : other.key = v.path \o v.name

\* module_failure_history under a path where the test failed lists it there, with all the
\* failures the detective counted, or refuses the path, or says that it leaves tests out
\* and lists as many as it can, none of them with fewer failures.
ModuleLists(all, since, bad) ==
  \A x \in { y \in bad : y.ident.path # None } :
    LET counted == Cardinality({ y \in bad : y.ident = x.ident })
    IN \A answer \in ModuleHistory(all, x.ident.path, since, 1) :
         \/ \E g \in answer.listed : g.ident = x.ident /\ g.failures >= counted
         \/ /\ answer.truncated /\ Cardinality(answer.listed) = MaxOffenders
            /\ \A g \in answer.listed : g.failures >= counted

\* detective/, history/queries.py: the three tools speak of the tests the detective
\* counts failures of, whatever was ingested twice, pruned, or fed back under another
\* path, and however often a report lists a test.
ToolsAgree ==
  (\A s \in Scanner : scan[s] = Idle) =>
  \A t \in { x \in Tunables : ValidateTunables(x) } :
    LET rows == ReadTestHistory(db, clock - t.window)
        all == HistoryRows(db)
        board == ScanVerdicts(db, clock, t)
    IN \A v \in { u \in board : Failed(u) } :
         LET own == { x \in rows : MakeTestKey(x.ident) = v.key }
             bad == { x \in own : x.status \in FailStatuses(t.includeErrors) }
         IN /\ LookupFinds(all, v.key, bad)
            /\ FlakyKnows(board, v, own)
            /\ ModuleLists(all, clock - t.window, bad)

\* The rows implement the book of executions, and the scans its board.
AsBoard(vs) ==
  [k \in { v.key : v \in vs } |->
     LET v == CHOOSE v \in vs : v.key = k
     IN [passes |-> v.passes, fails |-> v.fails, status |-> v.status]]

AsBook ==
  LET latest == { r \in db.runs : \A q \in db.runs :
                    q.file = r.file /\ q.eff = r.eff => q.id <= r.id }
  IN [e \in { <<r.file, r.eff>> : r \in latest } |->
        (CHOOSE r \in latest : <<r.file, r.eff>> = e).cases]

Book == INSTANCE HistoryBook WITH
  Windows <- { t.window : t \in { x \in Tunables : ValidateTunables(x) } },
  Thresholds <- { t.minFails : t \in { x \in Tunables : ValidateTunables(x) } },
  LastMoment <- MaxClock,
  TestOf <- MakeTestKey,
  book <- AsBook,
  pending <- [s \in Scanner |->
                IF scan[s].pc \in {"read", "prev"} THEN {AsBoard(scan[s].found)} ELSE {}],
  board <- AsBoard(verdicts)

ImplementsBook == Book!BookSpec

=============================================================================
