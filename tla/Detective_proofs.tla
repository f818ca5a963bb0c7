--------------------------- MODULE Detective_proofs ---------------------------
(***************************************************************************)
(* Proofs about the run history and the detective, for any files, reports, *)
(* tunables, gateway threads and bounds, and any interleaving and crash:   *)
(* what the reports of the scans say adds up to the verdicts, no run is    *)
(* kept without the cases of its report, and every repeat of a burn-in is  *)
(* a logical run of its own.                                               *)
(***************************************************************************)
EXTENDS Detective, FiniteSetTheorems, TLAPS

-----------------------------------------------------------------------------
(* The scans.                                                              *)

Nothing == [examined |-> 0, flaky |-> 0]
AuditOf(vs) == [examined |-> Cardinality(vs), flaky |-> Cardinality(FlakyKeys(vs))]

ScansTyped ==
  /\ DOMAIN scan = Scanner
  /\ \A s \in Scanner : /\ DOMAIN scan[s] = {"pc", "found", "prev"}
                        /\ scan[s].pc \in {"idle", "read", "prev", "replaced", "recorded"}

\* Between two scans the reports add up, and the last audit row describes the verdicts.
Settled ==
  told = FlakyKeys(verdicts) /\ audit \in {None, Nothing, AuditOf(verdicts)}

\* How far a scan has come, when nobody came in between.
Ordered(s) ==
  /\ Midway(s) => \A o \in Scanner \ {s} : ~Midway(o)
  /\ scan[s].pc = "prev" => scan[s].prev = FlakyKeys(verdicts) /\ Settled
  /\ scan[s].pc \in {"replaced", "recorded"} => verdicts = scan[s].found /\ told = scan[s].prev
  /\ scan[s].pc = "recorded" => audit \in {Nothing, AuditOf(scan[s].found)}

ScansOrdered ==
  ~muddled => /\ \A s \in Scanner : Ordered(s)
              /\ (\A s \in Scanner : ~Midway(s)) => Settled

\* A scan that is about to report has recorded its run.
Recorded ==
  (\E s \in Scanner : scan[s].pc = "recorded")
     => audit = [examined |-> audit.examined, flaky |-> audit.flaky]

ScanInv == ScansTyped /\ ScansOrdered /\ Recorded

\* What the scans rest on is only theirs to change.
LEMMA ScanFrame ==
  ASSUME ScanInv, UNCHANGED <<scan, verdicts, audit, told, muddled>>
  PROVE  ScanInv'
BY DEF ScanInv, ScansTyped, ScansOrdered, Recorded, Ordered, Settled, Midway

\* A scan that starts is not yet midway; one that finds nothing says so in the audit.
LEMMA ReadOrdered ==
  ASSUME ScanInv, NEW s \in Scanner, NEW t, ScanRead(s, t)
  PROVE  ScanInv'
<1>0. /\ scan[s].pc = "idle" /\ UNCHANGED <<verdicts, told, muddled>>
      /\ \/ audit' = Nothing /\ UNCHANGED scan
         \/ /\ \E found : scan' = [scan EXCEPT ![s] = [Idle EXCEPT !.pc = "read", !.found = found]]
            /\ UNCHANGED audit
  BY DEF ScanRead, Nothing
<1>1. CASE audit' = Nothing /\ UNCHANGED scan
  BY <1>0, <1>1 DEF ScanInv, ScansTyped, ScansOrdered, Recorded, Ordered, Settled, Midway, Nothing
<1>2. ASSUME NEW found, scan' = [scan EXCEPT ![s] = [Idle EXCEPT !.pc = "read", !.found = found]],
             UNCHANGED audit
      PROVE  ScanInv'
  <2>1. /\ DOMAIN scan' = Scanner /\ DOMAIN scan'[s] = {"pc", "found", "prev"}
        /\ scan'[s].pc = "read" /\ \A o \in Scanner : o # s => scan'[o] = scan[o]
    BY <1>2 DEF ScanInv, ScansTyped, Idle
  <2> QED
    BY <1>0, <1>2, <2>1 DEF ScanInv, ScansTyped, ScansOrdered, Recorded, Ordered, Settled, Midway
<1> QED
  BY <1>0, <1>1, <1>2

\* The scan that reads the old verdicts is the only one midway, or the reader is muddled.
LEMMA KeysOrdered ==
  ASSUME ScanInv, NEW s \in Scanner, ReadFlakyKeys(s)
  PROVE  ScanInv'
<1>1. /\ DOMAIN scan' = Scanner /\ DOMAIN scan'[s] = {"pc", "found", "prev"}
      /\ scan'[s].pc = "prev" /\ scan'[s].prev = FlakyKeys(verdicts)
      /\ \A o \in Scanner : o # s => scan'[o] = scan[o]
  BY DEF ReadFlakyKeys, ScanInv, ScansTyped
<1>2. /\ UNCHANGED <<verdicts, audit, told>> /\ scan[s].pc = "read"
      /\ ~muddled' => ~muddled /\ \A o \in Scanner \ {s} : ~Midway(o)
  BY DEF ReadFlakyKeys
<1> QED
  BY <1>1, <1>2 DEF ScanInv, ScansTyped, ScansOrdered, Recorded, Ordered, Settled, Midway

\* Replacing the verdicts, with the old flaky ones in hand.
LEMMA ReplaceOrdered ==
  ASSUME ScanInv, NEW s \in Scanner, ReplaceVerdicts(s)
  PROVE  ScanInv'
<1>1. /\ DOMAIN scan' = Scanner /\ DOMAIN scan'[s] = {"pc", "found", "prev"}
      /\ scan'[s].pc = "replaced" /\ scan'[s].prev = scan[s].prev
      /\ scan'[s].found = scan[s].found
      /\ \A o \in Scanner : o # s => scan'[o] = scan[o]
  BY DEF ReplaceVerdicts, ScanInv, ScansTyped
<1>2. /\ UNCHANGED <<audit, told, muddled>> /\ scan[s].pc = "prev" /\ verdicts' = scan[s].found
  BY DEF ReplaceVerdicts
<1> QED
  BY <1>1, <1>2 DEF ScanInv, ScansTyped, ScansOrdered, Recorded, Ordered, Settled, Midway

\* The audit row describes what was found.
LEMMA RecordOrdered ==
  ASSUME ScanInv, NEW s \in Scanner, RecordScanRun(s)
  PROVE  ScanInv'
<1>1. /\ DOMAIN scan' = Scanner /\ DOMAIN scan'[s] = {"pc", "found", "prev"}
      /\ scan'[s].pc = "recorded" /\ scan'[s].prev = scan[s].prev
      /\ scan'[s].found = scan[s].found
      /\ \A o \in Scanner : o # s => scan'[o] = scan[o]
  BY DEF RecordScanRun, ScanInv, ScansTyped
<1>2. /\ UNCHANGED <<verdicts, told, muddled>> /\ scan[s].pc = "replaced"
      /\ audit' = AuditOf(scan[s].found)
  BY DEF RecordScanRun, AuditOf
<1>3. audit' = [examined |-> audit'.examined, flaky |-> audit'.flaky]
  BY <1>2 DEF AuditOf
<1> QED
  BY <1>1, <1>2, <1>3 DEF ScanInv, ScansTyped, ScansOrdered, Recorded, Ordered, Settled, Midway

\* A report settles what it was about; an operator's, which tells everything, also ends a muddle.
LEMMA EmitOrdered ==
  ASSUME ScanInv, NEW s \in Scanner, EmitScan(s)
  PROVE  ScanInv'
<1>1. /\ DOMAIN scan' = Scanner /\ DOMAIN scan'[s] = {"pc", "found", "prev"}
      /\ scan'[s].pc = "idle"
      /\ \A o \in Scanner : o # s => scan'[o] = scan[o]
  BY DEF EmitScan, ScanInv, ScansTyped, Idle
<1>2. /\ UNCHANGED <<verdicts, audit>> /\ scan[s].pc = "recorded" /\ told' = Believed(s)
  BY DEF EmitScan
<1>3. ~muddled' => /\ told' = FlakyKeys(verdicts)
                   /\ audit \in {Nothing, AuditOf(verdicts)}
                   /\ \A o \in Scanner \ {s} : ~Midway(o)
  <2>1. CASE ~muddled
    <3>1. /\ verdicts = scan[s].found /\ told = scan[s].prev
          /\ audit \in {Nothing, AuditOf(scan[s].found)}
          /\ \A o \in Scanner \ {s} : ~Midway(o)
      BY <1>2, <2>1 DEF ScanInv, ScansOrdered, Ordered, Midway
    <3>2. told' = FlakyKeys(scan[s].found)
      BY <1>2, <3>1 DEF Believed
    <3> QED
      BY <3>1, <3>2
  <2>2. CASE muddled /\ ~muddled'
    <3>1. /\ s = Hand /\ verdicts = scan[s].found /\ ~Midway(Cron)
          /\ audit.flaky = Cardinality(FlakyKeys(verdicts))
          /\ audit.examined = Cardinality(verdicts)
      BY <2>2 DEF EmitScan
    <3>2. audit = AuditOf(verdicts)
      BY <1>2, <3>1 DEF ScanInv, Recorded, AuditOf
    <3> QED
      BY <1>2, <3>1, <3>2 DEF Believed, Scanner
  <2> QED
    BY <2>1, <2>2
<1> QED
  BY <1>1, <1>2, <1>3 DEF ScanInv, ScansTyped, ScansOrdered, Recorded, Ordered, Settled, Midway

\* A scan that dies before it replaced the verdicts leaves no trace.
LEMMA CrashOrdered ==
  ASSUME ScanInv, NEW s \in Scanner, CrashScan(s)
  PROVE  ScanInv'
<1>1. /\ DOMAIN scan' = Scanner /\ DOMAIN scan'[s] = {"pc", "found", "prev"}
      /\ scan'[s].pc = "idle"
      /\ \A o \in Scanner : o # s => scan'[o] = scan[o]
  BY DEF CrashScan, ScanInv, ScansTyped, Idle
<1>2. /\ UNCHANGED <<verdicts, audit, told>>
      /\ ~muddled' => ~muddled /\ scan[s].pc \notin {"replaced", "recorded"}
  BY DEF CrashScan
<1> QED
  BY <1>1, <1>2 DEF ScanInv, ScansTyped, ScansOrdered, Recorded, Ordered, Settled, Midway

\* The scans keep their order.
LEMMA ScanInductive ==
  ASSUME ScanInv, [Next]_vars
  PROVE  ScanInv'
<1> USE ScanFrame DEF scanVars
<1>1. ASSUME Tick \/ StartBatch \/ BatchFile \/ EndBatch \/ CrashBatch \/ CrashGateway PROVE ScanInv'
  BY <1>1 DEF Tick, StartBatch, BatchFile, EndBatch, CrashBatch, CrashGateway
<1>2. ASSUME NEW f, LeaveReport(f) \/ IngestOne(f) PROVE ScanInv'
  BY <1>2 DEF LeaveReport, IngestOne
<1>3. ASSUME NEW c, Prune(c) PROVE ScanInv'
  BY <1>3 DEF Prune
<1>4. ASSUME NEW w, BeginFeed(w) \/ FeedRun(w) \/ FeedCases(w) \/ FeedLocked(w) \/ EndFeed(w)
      PROVE  ScanInv'
  BY <1>4 DEF BeginFeed, FeedRun, FeedCases, FeedLocked, EndFeed, InsertRepeat
<1>5. ASSUME NEW t, InstallCron(t) \/ EditConfig(t) \/ ScanRefused(t) PROVE ScanInv'
  BY <1>5 DEF InstallCron, EditConfig, ScanRefused, vars
<1>6. ASSUME NEW t, HandScan(t) PROVE ScanInv'
  BY <1>6, ReadOrdered DEF HandScan, Scanner
<1>7. ASSUME CronScan PROVE ScanInv'
  BY <1>7, ReadOrdered DEF CronScan, Scanner
<1>8. ASSUME NEW s \in Scanner, ScanStep(s) \/ CrashScan(s) PROVE ScanInv'
  BY <1>8, KeysOrdered, ReplaceOrdered, RecordOrdered, EmitOrdered, CrashOrdered DEF ScanStep
<1>9. ASSUME UNCHANGED vars PROVE ScanInv'
  BY <1>9 DEF vars
<1> QED
  BY <1>1, <1>2, <1>3, <1>4, <1>5, <1>6, <1>7, <1>8, <1>9 DEF Next

\* No scan has run yet: no verdict, no audit row, nothing told.
LEMMA ScanInit ==
  ASSUME Init
  PROVE  ScanInv
<1>1. FlakyKeys({}) = {}
  BY DEF FlakyKeys
<1>2. \A s \in Scanner : scan[s] = Idle /\ ~Midway(s)
  BY DEF Init, Midway, Idle
<1>3. ScansTyped
  BY DEF Init, ScansTyped, Idle
<1> QED
  BY <1>1, <1>2, <1>3 DEF Init, ScanInv, ScansOrdered, Recorded, Ordered, Settled, Idle

\* What the reports tell, the nightly ones as changes and an operator's as a whole, adds up to the
\* verdicts, and the last audit row describes them.
THEOREM ScansAddUp == Spec => []ReportsAddUp
<1>1. Init => ScanInv
  BY ScanInit
<1>2. ScanInv /\ [Next]_vars => ScanInv'
  BY ScanInductive
<1>3. ScanInv => ReportsAddUp
  <2> SUFFICES ASSUME ScanInv, ~muddled, \A s \in Scanner : ~Midway(s)
               PROVE  /\ told = FlakyKeys(verdicts)
                      /\ audit \in {None, Nothing, [examined |-> Cardinality(verdicts),
                                                    flaky |-> Cardinality(told)]}
    BY DEF ReportsAddUp, Nothing
  <2> QED
    BY DEF ScanInv, ScansOrdered, Settled, AuditOf
<1> QED
  BY <1>1, <1>2, <1>3, PTL DEF Spec

-----------------------------------------------------------------------------
(* The history.                                                            *)

RunTyped(r, next) ==
  /\ DOMAIN r = {"id", "file", "eff", "cases"}
  /\ r.id \in Nat /\ r.id < next /\ r.eff \in 0..MaxClock

\* An id belongs to one run.
Distinct(d) == \A q, r \in d.runs : q.id = r.id => q = r

DbTyped(d) ==
  /\ DOMAIN d = {"next", "runs"} /\ d.next \in Nat
  /\ IsFiniteSet(d.runs) /\ \A r \in d.runs : RunTyped(r, d.next)

FeedTyped(f) ==
  /\ DOMAIN f = {"pc", "test", "done", "stamp", "run"}
  /\ f.pc # "idle" => f.test \in BurnIns
  /\ f.pc \in {"idle", "next", "cases"} /\ f.stamp \in 0..MaxClock
  /\ f.done \in 0..Repeats /\ (f.pc = "cases" => f.done < Repeats)

StoreTyped ==
  /\ DbTyped(db) /\ DbTyped(txn.db)
  /\ txn.by \in {"nobody", "cli", "gateway"} /\ (txn.by = "nobody" => txn = NoTxn)

ReportsTyped ==
  /\ DOMAIN disk = File /\ \A f \in File : disk[f] # None => Arrived(f, disk[f])
  /\ batch # None => \A i \in batch : i \in 1..Len(Files) /\ Arrived(Files[i], disk[Files[i]])

HistoryTyped ==
  /\ clock \in 0..MaxClock /\ pruned \in 0..MaxClock
  /\ StoreTyped /\ ReportsTyped
  /\ DOMAIN feeder = Feeder /\ \A w \in Feeder : FeedTyped(feeder[w])

\* The run of a feed that has yet to insert its case.
Working(id) == \E w \in Feeder : feeder[w].pc = "cases" /\ feeder[w].run = id

FromReport(r) ==
  r.file \in File /\ \E report \in Reports[r.file] :
                        report.kind = "junit" /\ r.cases = ParsedCases(report)

\* The pseudo source of a repeat of the test, at the moment its burn-in began.
Source(r, test) == \E index \in 0..Repeats : r.file = FeedSource(test, r.eff, index)
FromFeed(r) == \E test \in BurnIns : Source(r, test) /\ r.cases = BurnInCases(test)
Halved(r) == \E test \in BurnIns : Source(r, test) /\ r.cases = {}

DbWhole(d) == \A r \in d.runs : FromReport(r) \/ FromFeed(r) \/ (mixed /\ Halved(r))

\* The shared connection may hold the run rows of feeds that are under way.
ConnectionWhole ==
  \A r \in txn.db.runs :
    FromReport(r) \/ FromFeed(r) \/ (Halved(r) /\ (mixed \/ Working(r.id)))

RunsWhole ==
  DbWhole(db) /\ (IF txn.by = "gateway" THEN ConnectionWhole ELSE DbWhole(txn.db))

\* The repeat of a burn-in that began at `stamp` is a logical run of the database,
\* with its case, or with its case to come.
Fed(d, test, stamp, index) ==
  \E r \in LogicalRuns(d, stamp) :
    r.file = FeedSource(test, stamp, index) /\ r.eff = stamp /\ r.cases = BurnInCases(test)
BeingFed(d, test, stamp, index) ==
  \E r \in LogicalRuns(d, stamp) :
    /\ r.file = FeedSource(test, stamp, index) /\ r.eff = stamp
    /\ r.cases = BurnInCases(test) \/ Working(r.id)

FeedKept(f) ==
  f.pc # "idle" /\ f.stamp >= pruned =>
    /\ \A i \in 0..f.done - 1 :
         /\ Fed(db, f.test, f.stamp, i)
         /\ txn.by = "cli" => Fed(txn.db, f.test, f.stamp, i)
         /\ txn.by = "gateway" => BeingFed(txn.db, f.test, f.stamp, i)
    /\ f.pc = "cases" => txn.by = "gateway" /\ BeingFed(txn.db, f.test, f.stamp, f.done)

FeedsKept == ~mixed => \A w \in Feeder : FeedKept(feeder[w])

\* A run row is added under the next id.
LEMMA InsertedRun ==
  ASSUME NEW d, DbTyped(d), NEW file, NEW eff \in 0..MaxClock
  PROVE  LET z == InsertRun(d, file, eff)
             n == [id |-> d.next, file |-> file, eff |-> eff, cases |-> {}]
         IN  DbTyped(z) /\ z.next = d.next + 1 /\ z.runs = d.runs \cup {n}
<1> DEFINE z == InsertRun(d, file, eff)
           n == [id |-> d.next, file |-> file, eff |-> eff, cases |-> {}]
<1>1. z.next = d.next + 1 /\ z.runs = d.runs \cup {n} /\ DOMAIN z = {"next", "runs"}
  BY DEF InsertRun
<1>2. DOMAIN n = {"id", "file", "eff", "cases"} /\ n.id = d.next /\ n.eff = eff
  OBVIOUS
<1> HIDE DEF n, z
<1>3. IsFiniteSet(z.runs)
  BY <1>1, FS_AddElement DEF DbTyped
<1>4. ASSUME NEW r \in z.runs PROVE RunTyped(r, z.next)
  <2>1. CASE r \in d.runs
    BY <1>1, <2>1 DEF DbTyped, RunTyped
  <2>2. CASE r = n
    BY <1>1, <1>2, <2>2 DEF DbTyped, RunTyped
  <2> QED
    BY <1>1, <2>1, <2>2
<1>5. z.next \in Nat
  BY <1>1 DEF DbTyped
<1>6. DbTyped(z)
  BY <1>1, <1>3, <1>4, <1>5 DEF DbTyped
<1> QED
  BY <1>1, <1>6 DEF n, z

\* A run after the cases went to the run `id`.
Filled(r, id, cases) == IF r.id = id THEN [r EXCEPT !.cases = cases] ELSE r

\* The cases go to one run; the others stay.
LEMMA InsertedCases ==
  ASSUME NEW d, DbTyped(d), NEW id, NEW cases
  PROVE  LET z == InsertCases(d, id, cases)
         IN  /\ DbTyped(z) /\ z.next = d.next
             /\ z.runs = { Filled(r, id, cases) : r \in d.runs }
             /\ \A r \in d.runs :
                  LET q == Filled(r, id, cases)
                  IN  /\ q.id = r.id /\ q.file = r.file /\ q.eff = r.eff
                      /\ q.cases = IF r.id = id THEN cases ELSE r.cases
<1> DEFINE z == InsertCases(d, id, cases)
           f == [r \in d.runs |-> Filled(r, id, cases)]
<1>1. z.next = d.next /\ z.runs = { Filled(r, id, cases) : r \in d.runs } /\ DOMAIN z = DOMAIN d
  BY DEF InsertCases, Filled, DbTyped
<1>2. ASSUME NEW r \in d.runs
      PROVE  LET q == Filled(r, id, cases)
             IN  /\ q.id = r.id /\ q.file = r.file /\ q.eff = r.eff /\ DOMAIN q = DOMAIN r
                 /\ q.cases = IF r.id = id THEN cases ELSE r.cases
  <2>1. DOMAIN r = {"id", "file", "eff", "cases"}
    BY DEF DbTyped, RunTyped
  <2> QED
    BY <2>1 DEF Filled
<1> HIDE DEF z
<1>3. f \in Surjection(d.runs, z.runs)
  BY <1>1 DEF Surjection
<1> HIDE DEF f
<1>4. IsFiniteSet(z.runs)
  BY <1>3, FS_Surjection DEF DbTyped
<1>5. ASSUME NEW q \in z.runs PROVE RunTyped(q, z.next)
  BY <1>1, <1>2 DEF DbTyped, RunTyped
<1>6. DbTyped(z)
  BY <1>1, <1>4, <1>5 DEF DbTyped
<1> QED
  BY <1>1, <1>2, <1>6 DEF z

\* A file's ingest adds nothing, or one run with the cases of its report, and takes no run away.
LEMMA IngestedFile ==
  ASSUME NEW d, DbTyped(d), NEW f \in File, NEW copy, Arrived(f, copy)
  PROVE  LET z == IngestFile(d, f, copy)
         IN  /\ DbTyped(z) /\ d.next <= z.next
             /\ d.runs \subseteq z.runs
             /\ \A q \in z.runs : q \in d.runs \/ (FromReport(q) /\ q.id = d.next)
             /\ Distinct(d) => Distinct(z)
<1> DEFINE eff == RunTimestamp(copy)
           n == [id |-> d.next, file |-> f, eff |-> eff, cases |-> {}]
           w == InsertRun(d, f, eff)
           z == IngestFile(d, f, copy)
<1>1. copy.report.kind \in {"junit", "unbindable", "broken"} /\ eff \in 0..MaxClock
      /\ copy.report \in Reports[f]
  BY DetectiveAssumption DEF Arrived
<1> HIDE DEF eff
<1>2. DbTyped(w) /\ w.runs = d.runs \cup {n} /\ w.next = d.next + 1
  BY <1>1, InsertedRun
<1>3. n.id = d.next /\ n.file = f /\ \A r \in d.runs : r.id # d.next
  BY DEF DbTyped, RunTyped
<1> HIDE DEF w, n
<1>4. CASE copy.report.kind = "broken"
  BY <1>4 DEF IngestFile, DbTyped, Distinct
<1>5. CASE copy.report.kind = "unbindable"
  <2>1. z = [w EXCEPT !.runs = { r \in @ : r.id # d.next }]
    BY <1>5 DEF IngestFile, DeleteRun, w, eff
  <2> HIDE DEF z
  <2>2. z.runs = { r \in w.runs : r.id # d.next } /\ z.next = w.next /\ DOMAIN z = DOMAIN w
    BY <1>2, <2>1 DEF DbTyped
  <2>3. z.runs = d.runs
    BY <1>2, <1>3, <2>2
  <2>4. DbTyped(z)
    BY <1>2, <2>2, <2>3 DEF DbTyped, RunTyped
  <2>5. d.next <= z.next
    BY <1>2, <2>2 DEF DbTyped
  <2> QED
    BY <2>3, <2>4, <2>5 DEF z, Distinct
<1>6. CASE copy.report.kind = "junit"
  <2> DEFINE cases == ParsedCases(copy.report)
  <2>1. z = InsertCases(w, d.next, cases)
    BY <1>6 DEF IngestFile, w, eff
  <2> HIDE DEF z, cases
  <2>2. /\ DbTyped(z) /\ z.next = w.next /\ z.runs = { Filled(r, d.next, cases) : r \in w.runs }
        /\ \A r \in w.runs : LET q == Filled(r, d.next, cases)
                             IN  /\ q.id = r.id /\ q.file = r.file
                                 /\ q.cases = IF r.id = d.next THEN cases ELSE r.cases
    BY <1>2, <2>1, InsertedCases
  <2>3. \A r \in d.runs : Filled(r, d.next, cases) = r
    BY <1>3 DEF Filled
  <2>4. d.runs \subseteq z.runs
    BY <1>2, <2>2, <2>3
  <2>5. ASSUME NEW q \in z.runs PROVE q \in d.runs \/ (FromReport(q) /\ q.id = d.next)
    <3>1. PICK r \in w.runs : q = Filled(r, d.next, cases)
      BY <2>2
    <3>2. CASE r \in d.runs
      BY <2>3, <3>1, <3>2
    <3>3. CASE r = n
      <4>1. q.file = f /\ q.cases = cases /\ q.id = d.next
        BY <1>3, <2>2, <3>1, <3>3
      <4> QED
        BY <1>1, <1>6, <4>1 DEF FromReport, cases
    <3> QED
      BY <1>2, <3>2, <3>3
  <2>6. d.next <= z.next
    BY <1>2, <2>2 DEF DbTyped
  <2>7. ASSUME Distinct(d), NEW p \in z.runs, NEW q \in z.runs, p.id = q.id PROVE p = q
    <3>1. \A x \in z.runs : x \in d.runs \/ x = Filled(n, d.next, cases)
      BY <1>2, <2>2, <2>3
    <3>2. Filled(n, d.next, cases).id = d.next
      BY <1>2, <1>3, <2>2
    <3> QED
      BY <1>3, <2>7, <3>1, <3>2 DEF Distinct
  <2>8. Distinct(d) => Distinct(z)
    BY <2>7 DEF Distinct
  <2> QED
    BY <2>2, <2>4, <2>5, <2>6, <2>8 DEF z
<1> QED
  BY <1>1, <1>4, <1>5, <1>6

\* Prune keeps the rest.
LEMMA PrunedDb ==
  ASSUME NEW d, DbTyped(d), NEW cutoff
  PROVE  LET z == PruneBefore(d, cutoff)
         IN  DbTyped(z) /\ z.runs = { r \in d.runs : r.eff >= cutoff }
<1> DEFINE z == PruneBefore(d, cutoff)
<1>1. z.next = d.next /\ z.runs = { r \in d.runs : r.eff >= cutoff } /\ DOMAIN z = DOMAIN d
  BY DEF PruneBefore, DbTyped
<1> HIDE DEF z
<1>2. IsFiniteSet(z.runs)
  BY <1>1, FS_Subset DEF DbTyped
<1>3. DbTyped(z)
  BY <1>1, <1>2 DEF DbTyped, RunTyped
<1> QED
  BY <1>1, <1>3 DEF z

\* The database a writer works on: its connection's, or the committed one.
Base == IF txn = NoTxn THEN db ELSE txn.db

\* A repeat's row goes into the gateway's transaction.
LEMMA RepeatTyped ==
  ASSUME HistoryTyped, NEW w \in Feeder, NEW test \in BurnIns, NEW stamp \in 0..MaxClock,
         NEW done \in 0..Repeats,
         done < Repeats, InsertRepeat(w, test, stamp, done)
  PROVE  /\ HistoryTyped'
         /\ txn'.by = "gateway" /\ txn'.db.next = Base.next + 1
         /\ txn'.db.runs = Base.runs \cup {[id |-> Base.next, file |-> FeedSource(test, stamp, done),
                                            eff |-> stamp, cases |-> {}]}
         /\ feeder'[w].pc = "cases" /\ feeder'[w].done = done /\ feeder'[w].stamp = stamp
         /\ feeder'[w].run = Base.next /\ feeder'[w].test = test
         /\ \A v \in Feeder \ {w} : feeder'[v] = feeder[v]
<1> DEFINE z == InsertRun(Base, FeedSource(test, stamp, done), stamp)
<1>1. DbTyped(Base)
  BY DEF HistoryTyped, StoreTyped, Base
<1>2. /\ DbTyped(z) /\ z.next = Base.next + 1
      /\ z.runs = Base.runs \cup {[id |-> Base.next, file |-> FeedSource(test, stamp, done),
                                  eff |-> stamp, cases |-> {}]}
  BY <1>1, InsertedRun
<1>3. /\ txn' = [by |-> "gateway", db |-> z]
      /\ feeder' = [feeder EXCEPT ![w] = [pc |-> "cases", test |-> test, done |-> done,
                                         stamp |-> stamp, run |-> Base.next]]
      /\ UNCHANGED <<clock, disk, db, batch, pruned>>
  BY DEF InsertRepeat, Base
<1> HIDE DEF z
<1>4. /\ feeder'[w] = [pc |-> "cases", test |-> test, done |-> done, stamp |-> stamp, run |-> Base.next]
      /\ DOMAIN feeder' = Feeder /\ \A v \in Feeder \ {w} : feeder'[v] = feeder[v]
  BY <1>3 DEF HistoryTyped
<1>5. FeedTyped(feeder'[w])
  BY <1>4 DEF FeedTyped
<1>6. StoreTyped'
  BY <1>2, <1>3 DEF HistoryTyped, StoreTyped, DbTyped, RunTyped
<1>7. ReportsTyped'
  BY <1>3 DEF HistoryTyped, ReportsTyped, Arrived
<1>8. \A v \in Feeder : FeedTyped(feeder'[v])
  BY <1>4, <1>5 DEF HistoryTyped
<1>9. HistoryTyped'
  BY <1>3, <1>4, <1>6, <1>7, <1>8 DEF HistoryTyped, FeedTyped
<1> QED
  BY <1>2, <1>3, <1>4, <1>9

\* The cases go to the run of the feed, and the gateway's transaction is committed.
LEMMA CasesTyped ==
  ASSUME HistoryTyped, NEW w \in Feeder, FeedCases(w)
  PROVE  /\ HistoryTyped'
         /\ txn' = NoTxn /\ txn.by \in {"nobody", "gateway"}
         /\ db'.next = Base.next
         /\ db'.runs = { Filled(r, feeder[w].run, BurnInCases(feeder[w].test)) : r \in Base.runs }
         /\ \A r \in Base.runs :
              LET q == Filled(r, feeder[w].run, BurnInCases(feeder[w].test))
              IN  /\ q.id = r.id /\ q.file = r.file /\ q.eff = r.eff
                  /\ q.cases = IF r.id = feeder[w].run THEN BurnInCases(feeder[w].test) ELSE r.cases
         /\ feeder'[w].pc = "next" /\ feeder'[w].done = feeder[w].done + 1
         /\ feeder'[w].stamp = feeder[w].stamp /\ feeder'[w].test = feeder[w].test
         /\ \A v \in Feeder \ {w} : feeder'[v] = feeder[v]
<1> DEFINE z == InsertCases(Base, feeder[w].run, BurnInCases(feeder[w].test))
<1>1. DbTyped(Base)
  BY DEF HistoryTyped, StoreTyped, Base
<1>2. /\ DbTyped(z) /\ z.next = Base.next
      /\ z.runs = { Filled(r, feeder[w].run, BurnInCases(feeder[w].test)) : r \in Base.runs }
      /\ \A r \in Base.runs :
           LET q == Filled(r, feeder[w].run, BurnInCases(feeder[w].test))
           IN  /\ q.id = r.id /\ q.file = r.file /\ q.eff = r.eff
               /\ q.cases = IF r.id = feeder[w].run THEN BurnInCases(feeder[w].test) ELSE r.cases
  BY <1>1, InsertedCases
<1>3. /\ db' = z /\ txn' = NoTxn /\ feeder[w].pc = "cases"
      /\ feeder' = [feeder EXCEPT ![w].pc = "next", ![w].done = @ + 1, ![w].run = 0]
      /\ UNCHANGED <<clock, disk, batch, pruned>>
  BY DEF FeedCases, Base
<1> HIDE DEF z
<1>4. txn.by \in {"nobody", "gateway"}
  BY DEF FeedCases, Locked
<1>5. FeedTyped(feeder[w])
  BY DEF HistoryTyped
<1>6. /\ DOMAIN feeder' = Feeder /\ \A v \in Feeder \ {w} : feeder'[v] = feeder[v]
      /\ DOMAIN feeder'[w] = {"pc", "test", "done", "stamp", "run"}
      /\ feeder'[w].pc = "next" /\ feeder'[w].done = feeder[w].done + 1
      /\ feeder'[w].stamp = feeder[w].stamp /\ feeder'[w].test = feeder[w].test
  BY <1>3, <1>5 DEF HistoryTyped, FeedTyped
<1>7. FeedTyped(feeder'[w])
  BY <1>3, <1>5, <1>6, DetectiveAssumption DEF FeedTyped
<1>8. DbTyped(NoTxn.db) /\ NoTxn.by = "nobody"
  BY FS_EmptySet DEF NoTxn, EmptyDb, DbTyped
<1>9. StoreTyped'
  BY <1>2, <1>3, <1>8 DEF StoreTyped, DbTyped, RunTyped, NoTxn, EmptyDb
<1>10. ReportsTyped'
  BY <1>3 DEF HistoryTyped, ReportsTyped, Arrived
<1>11. \A v \in Feeder : FeedTyped(feeder'[v])
  BY <1>6, <1>7 DEF HistoryTyped
<1>12. HistoryTyped'
  BY <1>3, <1>6, <1>9, <1>10, <1>11 DEF HistoryTyped, FeedTyped
<1> QED
  BY <1>2, <1>3, <1>4, <1>6, <1>12

\* A file of a directory ingest goes into its transaction, or is skipped.
LEMMA BatchTyped ==
  ASSUME HistoryTyped, BatchFile
  PROVE  /\ HistoryTyped'
         /\ UNCHANGED <<clock, disk, db, feeder, mixed, pruned>>
         /\ \/ UNCHANGED txn
            \/ /\ txn.by \in {"nobody", "cli"} /\ txn'.by = "cli"
               /\ Base.next <= txn'.db.next /\ Base.runs \subseteq txn'.db.runs
               /\ \A q \in txn'.db.runs : q \in Base.runs \/ (FromReport(q) /\ q.id = Base.next)
               /\ Distinct(Base) => Distinct(txn'.db)
<1>1. PICK i \in batch :
        /\ batch' = batch \ {i}
        /\ \/ UNCHANGED txn
           \/ /\ txn.by \in {"nobody", "cli"}
              /\ txn' = [by |-> "cli", db |-> IngestFile(Base, Files[i], disk[Files[i]])]
  BY DEF BatchFile, Base
<1>2. batch # None /\ UNCHANGED <<clock, disk, exists, db, feeder, mixed, pruned>>
  BY DEF BatchFile
<1>3. i \in 1..Len(Files) /\ Arrived(Files[i], disk[Files[i]])
  BY <1>2 DEF HistoryTyped, ReportsTyped
<1>4. Files[i] \in File
  BY <1>3 DEF File
<1>5. ReportsTyped'
  BY <1>1, <1>2 DEF HistoryTyped, ReportsTyped, Arrived
<1>6. CASE UNCHANGED txn
  <2>1. HistoryTyped'
    BY <1>2, <1>5, <1>6 DEF HistoryTyped, StoreTyped, FeedTyped, DbTyped, RunTyped
  <2> QED
    BY <1>2, <1>6, <2>1
<1>7. CASE /\ txn.by \in {"nobody", "cli"}
           /\ txn' = [by |-> "cli", db |-> IngestFile(Base, Files[i], disk[Files[i]])]
  <2> DEFINE z == IngestFile(Base, Files[i], disk[Files[i]])
  <2>1. DbTyped(Base)
    BY DEF HistoryTyped, StoreTyped, Base
  <2>2. /\ DbTyped(z) /\ Base.next <= z.next /\ Base.runs \subseteq z.runs
        /\ \A q \in z.runs : q \in Base.runs \/ (FromReport(q) /\ q.id = Base.next)
        /\ Distinct(Base) => Distinct(z)
    BY <1>3, <1>4, <2>1, IngestedFile
  <2> HIDE DEF z
  <2>3. txn'.by = "cli" /\ txn'.db = z
    BY <1>7 DEF z
  <2>4. StoreTyped'
    BY <1>2, <2>2, <2>3 DEF HistoryTyped, StoreTyped, DbTyped, RunTyped
  <2>5. HistoryTyped'
    BY <1>2, <1>5, <2>4 DEF HistoryTyped, FeedTyped
  <2> QED
    BY <1>2, <1>7, <2>2, <2>3, <2>5
<1> QED
  BY <1>1, <1>6, <1>7

\* A single file is committed at once.
LEMMA IngestTyped ==
  ASSUME HistoryTyped, NEW f \in File, IngestOne(f)
  PROVE  /\ HistoryTyped'
         /\ txn = NoTxn /\ UNCHANGED <<txn, feeder, mixed, pruned>>
         /\ db.next <= db'.next /\ db.runs \subseteq db'.runs
         /\ \A q \in db'.runs : q \in db.runs \/ (FromReport(q) /\ q.id = db.next)
         /\ Distinct(db) => Distinct(db')
<1>1. /\ disk[f] # None /\ txn = NoTxn /\ UNCHANGED <<clock, disk, txn, batch, feeder, mixed, pruned>>
      /\ db' = db \/ db' = IngestFile(db, f, disk[f])
  BY DEF IngestOne
<1>2. DbTyped(db) /\ Arrived(f, disk[f])
  BY <1>1 DEF HistoryTyped, StoreTyped, ReportsTyped
<1>3. /\ DbTyped(db') /\ db.next <= db'.next /\ db.runs \subseteq db'.runs
      /\ \A q \in db'.runs : q \in db.runs \/ (FromReport(q) /\ q.id = db.next)
      /\ Distinct(db) => Distinct(db')
  <2>1. CASE db' = db
    BY <1>2, <2>1 DEF DbTyped, RunTyped, Distinct
  <2>2. CASE db' = IngestFile(db, f, disk[f])
    BY <1>2, <2>2, IngestedFile
  <2> QED
    BY <1>1, <2>1, <2>2
<1>4. StoreTyped'
  BY <1>1, <1>3 DEF HistoryTyped, StoreTyped, DbTyped, RunTyped
<1>5. HistoryTyped'
  BY <1>1, <1>4 DEF HistoryTyped, ReportsTyped, FeedTyped, Arrived
<1> QED
  BY <1>1, <1>3, <1>5

\* A transaction ends: what it holds is committed, or dropped.
LEMMA EndedTyped ==
  ASSUME StoreTyped, UNCHANGED txn \/ txn' = NoTxn, UNCHANGED db \/ db' = txn.db
  PROVE  StoreTyped'
<1>1. DbTyped(NoTxn.db) /\ NoTxn.by = "nobody"
  BY FS_EmptySet DEF NoTxn, EmptyDb, DbTyped
<1>2. DbTyped(db')
  BY DEF StoreTyped
<1>3. txn' \in {txn, NoTxn}
  OBVIOUS
<1> QED
  BY <1>1, <1>2, <1>3 DEF StoreTyped

\* The history keeps its shape.
LEMMA HistoryInductive ==
  ASSUME HistoryTyped, [Next]_vars
  PROVE  HistoryTyped'
<1> DEFINE Kept == UNCHANGED <<clock, disk, db, txn, batch, feeder, pruned>>
<1>1. ASSUME Kept PROVE HistoryTyped'
  BY <1>1 DEF HistoryTyped, StoreTyped, ReportsTyped, FeedTyped, DbTyped, RunTyped, Arrived
<1>2. ASSUME Tick PROVE HistoryTyped'
  <2>1. clock' \in 0..MaxClock /\ UNCHANGED <<disk, db, txn, batch, feeder, pruned>>
    BY <1>2, DetectiveAssumption DEF Tick, HistoryTyped
  <2> QED
    BY <2>1 DEF HistoryTyped, StoreTyped, ReportsTyped, FeedTyped, DbTyped, RunTyped, Arrived
<1>3. ASSUME NEW f \in File, LeaveReport(f) PROVE HistoryTyped'
  <2>1. PICK r \in Reports[f] :
          disk' = [disk EXCEPT ![f] = [report |-> r, mtime |-> clock,
                                       stamp |-> IF r.dated THEN clock ELSE None]]
    BY <1>3 DEF LeaveReport
  <2>2. UNCHANGED <<clock, db, txn, batch, feeder, pruned>>
    BY <1>3 DEF LeaveReport
  <2> DEFINE copy == [report |-> r, mtime |-> clock, stamp |-> IF r.dated THEN clock ELSE None]
  <2>3. Arrived(f, copy)
    BY DEF Arrived, RunTimestamp, HistoryTyped
  <2>4. DOMAIN disk' = File /\ disk'[f] = copy /\ \A g \in File \ {f} : disk'[g] = disk[g]
    BY <2>1 DEF HistoryTyped, ReportsTyped
  <2> HIDE DEF copy
  <2>5. \A g \in File : Arrived(g, disk[g]) => Arrived(g, disk'[g])
    BY <2>3, <2>4
  <2>6. \A i \in 1..Len(Files) : Files[i] \in File
    BY DEF File
  <2>7. \A g \in File : disk'[g] # None => Arrived(g, disk'[g])
    BY <2>3, <2>4 DEF HistoryTyped, ReportsTyped
  <2>8. batch # None => \A i \in batch : i \in 1..Len(Files) /\ Arrived(Files[i], disk'[Files[i]])
    BY <2>5, <2>6 DEF HistoryTyped, ReportsTyped
  <2>9. ReportsTyped'
    BY <2>2, <2>4, <2>7, <2>8 DEF ReportsTyped, Arrived
  <2> QED
    BY <2>2, <2>9 DEF HistoryTyped, StoreTyped, FeedTyped, DbTyped, RunTyped
<1>4. ASSUME NEW f \in File, IngestOne(f) PROVE HistoryTyped'
  BY <1>4, IngestTyped
<1>5. ASSUME StartBatch PROVE HistoryTyped'
  <2>1. /\ batch' = { i \in 1..Len(Files) : disk[Files[i]] # None }
        /\ UNCHANGED <<clock, disk, db, txn, feeder, pruned>>
    BY <1>5 DEF StartBatch
  <2>2. \A i \in 1..Len(Files) : Files[i] \in File
    BY DEF File
  <2>3. ReportsTyped'
    BY <2>1, <2>2 DEF HistoryTyped, ReportsTyped, Arrived
  <2> QED
    BY <2>1, <2>3 DEF HistoryTyped, StoreTyped, FeedTyped, DbTyped, RunTyped
<1>6. ASSUME BatchFile PROVE HistoryTyped'
  BY <1>6, BatchTyped
<1>7. ASSUME EndBatch \/ CrashBatch PROVE HistoryTyped'
  <2>1. /\ batch' = None /\ UNCHANGED <<clock, disk, feeder, pruned>>
        /\ UNCHANGED txn \/ txn' = NoTxn
        /\ UNCHANGED db \/ db' = txn.db
    BY <1>7 DEF EndBatch, CrashBatch, CommitOf
  <2>2. StoreTyped'
    BY <2>1, EndedTyped DEF HistoryTyped
  <2>3. ReportsTyped'
    BY <2>1 DEF HistoryTyped, ReportsTyped, Arrived
  <2> QED
    BY <2>1, <2>2, <2>3 DEF HistoryTyped, FeedTyped
<1>8. ASSUME NEW c \in 1..MaxClock, Prune(c) PROVE HistoryTyped'
  <2>1. DbTyped(db') /\ UNCHANGED <<clock, disk, txn, batch, feeder>>
    BY <1>8, PrunedDb DEF Prune, HistoryTyped, StoreTyped
  <2>2. pruned' \in 0..MaxClock
    BY <1>8 DEF Prune, HistoryTyped
  <2>3. StoreTyped'
    BY <2>1 DEF HistoryTyped, StoreTyped, DbTyped, RunTyped
  <2> QED
    BY <2>1, <2>2, <2>3 DEF HistoryTyped, ReportsTyped, FeedTyped, Arrived
<1>9. ASSUME NEW w \in Feeder, BeginFeed(w) PROVE HistoryTyped'
  BY <1>9, RepeatTyped, DetectiveAssumption DEF BeginFeed, HistoryTyped
<1>10. ASSUME NEW w \in Feeder, FeedRun(w) PROVE HistoryTyped'
  BY <1>10, RepeatTyped DEF FeedRun, HistoryTyped, FeedTyped
<1>11. ASSUME NEW w \in Feeder, FeedCases(w) PROVE HistoryTyped'
  BY <1>11, CasesTyped
<1>12. FeedTyped(NoFeed)
  BY DetectiveAssumption DEF FeedTyped, NoFeed
<1>13. ASSUME NEW w \in Feeder, FeedLocked(w) \/ EndFeed(w) PROVE HistoryTyped'
  <2>1. feeder' = [feeder EXCEPT ![w] = NoFeed] /\ UNCHANGED <<clock, disk, db, txn, batch, pruned>>
    BY <1>13 DEF FeedLocked, EndFeed
  <2>2. DOMAIN feeder' = Feeder /\ \A v \in Feeder : FeedTyped(feeder'[v])
    BY <1>12, <2>1 DEF HistoryTyped
  <2> QED
    BY <2>1, <2>2 DEF HistoryTyped, StoreTyped, ReportsTyped, FeedTyped, DbTyped, RunTyped, Arrived
<1>14. ASSUME CrashGateway PROVE HistoryTyped'
  <2>1. /\ feeder' = [w \in Feeder |-> NoFeed] /\ UNCHANGED <<clock, disk, db, batch, pruned>>
        /\ UNCHANGED txn \/ txn' = NoTxn
    BY <1>14 DEF CrashGateway
  <2>2. DOMAIN feeder' = Feeder /\ \A v \in Feeder : FeedTyped(feeder'[v])
    BY <1>12, <2>1
  <2>3. StoreTyped'
    BY <2>1, EndedTyped DEF HistoryTyped
  <2> QED
    BY <2>1, <2>2, <2>3 DEF HistoryTyped, ReportsTyped, FeedTyped, Arrived
<1>15. ASSUME NEW t, InstallCron(t) \/ EditConfig(t) \/ HandScan(t) \/ ScanRefused(t)
       PROVE  HistoryTyped'
  BY <1>1, <1>15 DEF InstallCron, EditConfig, HandScan, ScanRead, ScanRefused, historyVars, vars
<1>16. ASSUME CronScan PROVE HistoryTyped'
  BY <1>1, <1>16 DEF CronScan, ScanRead, historyVars
<1>17. ASSUME NEW s, ScanStep(s) \/ CrashScan(s) PROVE HistoryTyped'
  BY <1>1, <1>17 DEF ScanStep, ReadFlakyKeys, ReplaceVerdicts, RecordScanRun, EmitScan, CrashScan,
                     historyVars
<1>18. ASSUME UNCHANGED vars PROVE HistoryTyped'
  BY <1>1, <1>18 DEF vars, historyVars
<1> QED
  BY <1>2, <1>3, <1>4, <1>5, <1>6, <1>7, <1>8, <1>9, <1>10, <1>11, <1>13, <1>14, <1>15, <1>16,
     <1>17, <1>18 DEF Next

\* What update_section merges is the configuration of the tunables but for include_errors.
ConfTyped == \E t \in Tunables : conf = [t EXCEPT !.includeErrors = conf.includeErrors]

\* The configuration stays one an operator may have set.
LEMMA ConfInductive ==
  ASSUME ConfTyped, exists \in BOOLEAN, [Next]_vars
  PROVE  ConfTyped' /\ exists' \in BOOLEAN
<1>1. ASSUME NEW t \in Tunables, InstallCron(t) PROVE ConfTyped'
  <2>1. PICK u \in Tunables : conf = [u EXCEPT !.includeErrors = conf.includeErrors]
    BY DEF ConfTyped
  <2>2. u = [window |-> u.window, minFails |-> u.minFails, includeErrors |-> u.includeErrors]
    BY DetectiveAssumption
  <2>3. t = [window |-> t.window, minFails |-> t.minFails, includeErrors |-> t.includeErrors]
    BY DetectiveAssumption
  <2>4. conf = [window |-> u.window, minFails |-> u.minFails, includeErrors |-> conf.includeErrors]
    BY <2>1, <2>2
  <2>5. conf' = [window |-> t.window, minFails |-> t.minFails, includeErrors |-> conf.includeErrors]
    BY <1>1, <2>4 DEF InstallCron, Merged
  <2>6. conf' = [t EXCEPT !.includeErrors = conf'.includeErrors]
    BY <2>3, <2>5
  <2> QED
    BY <2>6 DEF ConfTyped
<1>2. ASSUME NEW t \in Tunables, EditConfig(t) PROVE ConfTyped'
  <2>1. t = [window |-> t.window, minFails |-> t.minFails, includeErrors |-> t.includeErrors]
    BY DetectiveAssumption
  <2>2. conf' = t
    BY <1>2 DEF EditConfig
  <2>3. conf' = [t EXCEPT !.includeErrors = conf'.includeErrors]
    BY <2>1, <2>2
  <2> QED
    BY <2>3 DEF ConfTyped
<1>3. UNCHANGED conf \/ \E t \in Tunables : InstallCron(t) \/ EditConfig(t)
  BY DEF Next, vars, scanVars, Tick, LeaveReport, IngestOne, StartBatch, BatchFile, EndBatch, CrashBatch,
         Prune, BeginFeed, FeedRun, FeedCases, FeedLocked, EndFeed, InsertRepeat, CrashGateway,
         HandScan, CronScan, ScanRead, ScanRefused, ScanStep, ReadFlakyKeys, ReplaceVerdicts,
         RecordScanRun, EmitScan, CrashScan
<1>4. ConfTyped'
  BY <1>1, <1>2, <1>3 DEF ConfTyped
<1>5. exists' = exists \/ exists' = TRUE
  BY DEF Next, vars, historyVars, Tick, LeaveReport, IngestOne, StartBatch, BatchFile, EndBatch,
         CrashBatch, Prune, BeginFeed, FeedRun, FeedCases, FeedLocked, EndFeed, InsertRepeat,
         CrashGateway, InstallCron, EditConfig, HandScan, CronScan, ScanRead, ScanRefused, ScanStep,
         ReadFlakyKeys, ReplaceVerdicts, RecordScanRun, EmitScan, CrashScan
<1>6. exists' \in BOOLEAN
  BY <1>5, Zenon
<1> QED
  BY <1>4, <1>6

\* The detective begins with an empty history.
LEMMA HistoryInit ==
  ASSUME Init
  PROVE  HistoryTyped
<1>1. DbTyped(EmptyDb) /\ NoTxn.db = EmptyDb /\ NoTxn.by = "nobody"
  BY FS_EmptySet DEF NoTxn, EmptyDb, DbTyped
<1>2. StoreTyped
  BY <1>1 DEF Init, StoreTyped
<1>3. ReportsTyped
  BY DetectiveAssumption DEF Init, ReportsTyped
<1>4. \A w \in Feeder : feeder[w] = NoFeed
  BY DEF Init
<1>5. FeedTyped(NoFeed)
  BY DetectiveAssumption DEF FeedTyped, NoFeed
<1> QED
  BY <1>2, <1>3, <1>4, <1>5, DetectiveAssumption DEF Init, HistoryTyped

\* Ids below the counter, moments within the clock's, transactions of a known writer, feeds within
\* their repeats, a configuration from the tunables and scans at a known step.
THEOREM DetectiveTyping == Spec => []DetectiveTypeOK
<1> DEFINE Typed == HistoryTyped /\ ConfTyped /\ exists \in BOOLEAN /\ ScanInv
<1>1. Init => Typed
  <2> SUFFICES ASSUME Init PROVE Typed
    OBVIOUS
  <2>1. FirstConfig = [window |-> FirstConfig.window, minFails |-> FirstConfig.minFails,
                       includeErrors |-> FirstConfig.includeErrors]
    BY DetectiveAssumption
  <2>2. FirstConfig = [FirstConfig EXCEPT !.includeErrors = FirstConfig.includeErrors]
    BY <2>1
  <2>3. ConfTyped
    BY <2>2, DetectiveAssumption DEF ConfTyped, Init
  <2>4. exists \in BOOLEAN
    BY Zenon DEF Init
  <2>5. ScanInv
    BY ScanInit
  <2> QED
    BY <2>3, <2>4, <2>5, HistoryInit
<1>2. Typed /\ [Next]_vars => Typed'
  BY HistoryInductive, ConfInductive, ScanInductive
<1>3. Typed => DetectiveTypeOK
  <2> SUFFICES ASSUME Typed PROVE DetectiveTypeOK
    OBVIOUS
  <2>1. clock \in 0..MaxClock /\ pruned \in 0..MaxClock
    BY DEF HistoryTyped
  <2>2. \A r \in db.runs : r.id < db.next /\ r.eff \in 0..MaxClock
    BY DEF HistoryTyped, StoreTyped, DbTyped, RunTyped
  <2>3. txn = NoTxn \/ txn.by \in {"cli", "gateway"}
    BY DEF HistoryTyped, StoreTyped
  <2>4. \A w \in Feeder : feeder[w].done \in 0..Repeats
    BY DEF HistoryTyped, FeedTyped
  <2>5. \A s \in Scanner : scan[s].pc \in {"idle", "read", "prev", "replaced", "recorded"}
    BY DEF ScanInv, ScansTyped
  <2> QED
    BY <2>1, <2>2, <2>3, <2>4, <2>5, Zenon DEF DetectiveTypeOK, ConfTyped
<1> QED
  BY <1>1, <1>2, <1>3, PTL DEF Spec

-----------------------------------------------------------------------------
(* Whole runs.                                                             *)

\* The id belongs to a burn-in of the test: it was given out, and a run that has it is a
\* repeat of the test.
Owned(d, id, test) ==
  id \in Nat /\ id < d.next /\ \A r \in d.runs : r.id = id => Source(r, test)

\* A feed that has yet to insert its case finds its own run, or none.
FeedsOwn ==
  \A w \in Feeder :
    feeder[w].pc = "cases" =>
      /\ txn.by # "gateway" => Owned(db, feeder[w].run, feeder[w].test)
      /\ txn.by # "nobody" => Owned(txn.db, feeder[w].run, feeder[w].test)

WholeInv == HistoryTyped /\ FeedsOwn /\ RunsWhole

\* What is added under later ids takes no id from a feed.
LEMMA OwnedGrows ==
  ASSUME NEW d, NEW z, d.next \in Nat, z.next \in Nat, d.next <= z.next,
         \A q \in z.runs : q \in d.runs \/ q.id = d.next, NEW id, NEW test, Owned(d, id, test)
  PROVE  Owned(z, id, test)
BY DEF Owned

\* The database a writer works on has the run of a feed as its own, and is whole but for the runs of
\* feeds under way.
LEMMA BaseWhole ==
  ASSUME WholeInv
  PROVE  /\ \A w \in Feeder : feeder[w].pc = "cases" => Owned(Base, feeder[w].run, feeder[w].test)
         /\ \A r \in Base.runs :
              FromReport(r) \/ FromFeed(r) \/ (Halved(r) /\ (mixed \/ Working(r.id)))
         /\ txn.by # "gateway" => DbWhole(Base)
         /\ DbTyped(Base)
<1>1. CASE txn.by = "nobody"
  BY <1>1 DEF WholeInv, HistoryTyped, StoreTyped, FeedsOwn, RunsWhole, DbWhole, Base
<1>2. CASE txn.by = "cli"
  <2>1. Base = txn.db
    BY <1>2 DEF Base, NoTxn
  <2> QED
    BY <1>2, <2>1 DEF WholeInv, HistoryTyped, StoreTyped, FeedsOwn, RunsWhole, DbWhole
<1>3. CASE txn.by = "gateway"
  <2>1. Base = txn.db
    BY <1>3 DEF Base, NoTxn
  <2> QED
    BY <1>3, <2>1 DEF WholeInv, HistoryTyped, StoreTyped, FeedsOwn, RunsWhole, ConnectionWhole
<1> QED
  BY <1>1, <1>2, <1>3 DEF WholeInv, HistoryTyped, StoreTyped

\* A repeat's row is the run of a feed that has yet to insert its case.
LEMMA RepeatWhole ==
  ASSUME WholeInv, NEW w \in Feeder, NEW test \in BurnIns, NEW stamp \in 0..MaxClock,
         NEW done \in 0..Repeats,
         done < Repeats, feeder[w].pc # "cases", InsertRepeat(w, test, stamp, done)
  PROVE  WholeInv'
<1> DEFINE n == [id |-> Base.next, file |-> FeedSource(test, stamp, done), eff |-> stamp, cases |-> {}]
<1>1. /\ HistoryTyped'
      /\ txn'.by = "gateway" /\ txn'.db.next = Base.next + 1 /\ txn'.db.runs = Base.runs \cup {n}
      /\ feeder'[w].pc = "cases" /\ feeder'[w].run = Base.next /\ feeder'[w].test = test
      /\ \A v \in Feeder \ {w} : feeder'[v] = feeder[v]
  BY RepeatTyped DEF WholeInv
<1>2. db' = db /\ mixed' = mixed /\ txn.by # "cli"
  BY DEF InsertRepeat, Locked
<1>3. n.id = Base.next /\ Source(n, test) /\ n.cases = {}
  BY DEF Source
<1> HIDE DEF n
<1>4. Base.next \in Nat /\ txn'.db.next \in Nat /\ \A r \in Base.runs : r.id # Base.next
  BY <1>1, BaseWhole DEF DbTyped, RunTyped
<1>5. FeedsOwn'
  <2> SUFFICES ASSUME NEW v \in Feeder, feeder'[v].pc = "cases"
               PROVE  Owned(txn'.db, feeder'[v].run, feeder'[v].test)
    BY <1>1 DEF FeedsOwn, Owned
  <2>1. CASE v = w
    BY <1>1, <1>3, <1>4, <2>1 DEF Owned
  <2>2. CASE v # w
    <3>1. Owned(Base, feeder'[v].run, feeder'[v].test)
      BY <1>1, <2>2, BaseWhole
    <3> QED
      BY <1>1, <1>3, <1>4, <3>1 DEF Owned
  <2> QED
    BY <2>1, <2>2
<1>6. \A id : Working(id) => Working(id)'
  BY <1>1 DEF Working
<1>7. \A r : r.id = Base.next => Working(r.id)'
  BY <1>1 DEF Working
<1>8. \A r \in txn'.db.runs :
        FromReport(r) \/ FromFeed(r) \/ (Halved(r) /\ (mixed' \/ Working(r.id)'))
  <2> SUFFICES ASSUME NEW r \in txn'.db.runs
               PROVE  FromReport(r) \/ FromFeed(r) \/ (Halved(r) /\ (mixed' \/ Working(r.id)'))
    OBVIOUS
  <2>1. CASE r \in Base.runs
    BY <1>2, <1>6, <2>1, BaseWhole
  <2>2. CASE r = n
    BY <1>3, <1>7, <2>2 DEF Halved
  <2> QED
    BY <1>1, <2>1, <2>2
<1>9. RunsWhole'
  BY <1>1, <1>2, <1>8 DEF WholeInv, RunsWhole, ConnectionWhole, DbWhole, FromReport, FromFeed, Halved,
                          Working
<1> QED
  BY <1>1, <1>5, <1>9 DEF WholeInv

\* The commit publishes the run of the feed with its case, and another feed's without: then one
\* thread has committed another's half-written run.
LEMMA CasesWhole ==
  ASSUME WholeInv, NEW w \in Feeder, FeedCases(w)
  PROVE  WholeInv'
<1>1. /\ HistoryTyped'
      /\ txn' = NoTxn /\ db'.next = Base.next
      /\ db'.runs = { Filled(r, feeder[w].run, BurnInCases(feeder[w].test)) : r \in Base.runs }
      /\ \A r \in Base.runs :
           LET q == Filled(r, feeder[w].run, BurnInCases(feeder[w].test))
           IN  /\ q.id = r.id /\ q.file = r.file /\ q.eff = r.eff
               /\ q.cases = IF r.id = feeder[w].run THEN BurnInCases(feeder[w].test) ELSE r.cases
      /\ feeder'[w].pc = "next" /\ \A v \in Feeder \ {w} : feeder'[v] = feeder[v]
  BY CasesTyped DEF WholeInv
<1>2. /\ feeder[w].pc = "cases" /\ (mixed => mixed')
      /\ \A v \in Feeder \ {w} : feeder[v].pc = "cases" => mixed'
  BY DEF FeedCases
<1>3. txn'.by = "nobody" /\ txn'.db.runs = {}
  BY <1>1 DEF NoTxn, EmptyDb
<1>4. FeedsOwn'
  <2> SUFFICES ASSUME NEW v \in Feeder, feeder'[v].pc = "cases"
               PROVE  Owned(db', feeder'[v].run, feeder'[v].test)
    BY <1>3 DEF FeedsOwn, Owned
  <2>1. Owned(Base, feeder'[v].run, feeder'[v].test)
    BY <1>1, BaseWhole
  <2> QED
    BY <1>1, <2>1 DEF Owned, Source
<1>5. ASSUME NEW q \in db'.runs
      PROVE  FromReport(q) \/ FromFeed(q) \/ (mixed' /\ Halved(q))
  <2>1. PICK r \in Base.runs : q = Filled(r, feeder[w].run, BurnInCases(feeder[w].test))
    BY <1>1
  <2>2. /\ q.id = r.id /\ q.file = r.file /\ q.eff = r.eff
        /\ q.cases = IF r.id = feeder[w].run THEN BurnInCases(feeder[w].test) ELSE r.cases
    BY <1>1, <2>1
  <2>3. CASE r.id = feeder[w].run
    <3>1. Source(r, feeder[w].test) /\ feeder[w].test \in BurnIns
      BY <1>2, <2>3, BaseWhole DEF Owned, WholeInv, HistoryTyped, FeedTyped
    <3> QED
      BY <2>2, <2>3, <3>1 DEF FromFeed, Source
  <2>4. CASE r.id # feeder[w].run
    <3>1. FromReport(r) \/ FromFeed(r) \/ (Halved(r) /\ (mixed \/ Working(r.id)))
      BY BaseWhole
    <3>2. Working(r.id) => mixed'
      BY <1>2, <2>4 DEF Working
    <3> QED
      BY <1>2, <2>2, <2>4, <3>1, <3>2 DEF FromReport, FromFeed, Halved, Source
  <2> QED
    BY <2>3, <2>4
<1>6. RunsWhole'
  BY <1>3, <1>5 DEF RunsWhole, DbWhole, FromReport, FromFeed, Halved
<1> QED
  BY <1>1, <1>4, <1>6 DEF WholeInv

\* Every run of the history is whole, and stays so.
LEMMA WholeInductive ==
  ASSUME WholeInv, [Next]_vars
  PROVE  WholeInv'
<1>0. HistoryTyped'
  BY HistoryInductive DEF WholeInv
<1>1. ASSUME UNCHANGED <<db, txn, feeder, mixed>> PROVE WholeInv'
  BY <1>0, <1>1 DEF WholeInv, FeedsOwn, RunsWhole, DbWhole, ConnectionWhole, Working, FromReport,
                    FromFeed, Halved
<1>2. ASSUME NEW f \in File, IngestOne(f) PROVE WholeInv'
  <2>1. /\ txn = NoTxn /\ txn.by = "nobody" /\ txn'.by = "nobody" /\ txn'.db.runs = {}
        /\ UNCHANGED <<feeder, mixed>>
        /\ db.next <= db'.next
        /\ \A q \in db'.runs : q \in db.runs \/ (FromReport(q) /\ q.id = db.next)
    BY <1>2, IngestTyped DEF WholeInv, NoTxn, EmptyDb
  <2>2. db.next \in Nat /\ db'.next \in Nat
    BY <1>0 DEF WholeInv, HistoryTyped, StoreTyped, DbTyped
  <2>3. \A id, test : Owned(db, id, test) => Owned(db', id, test)
    BY <2>1, <2>2, OwnedGrows
  <2>4. FeedsOwn'
    BY <2>1, <2>3 DEF WholeInv, FeedsOwn, Owned
  <2>5. RunsWhole'
    BY <2>1 DEF WholeInv, RunsWhole, DbWhole, FromReport, FromFeed, Halved
  <2> QED
    BY <1>0, <2>4, <2>5 DEF WholeInv
<1>3. ASSUME BatchFile PROVE WholeInv'
  <2>1. UNCHANGED <<db, feeder, mixed>>
    BY <1>3, BatchTyped DEF WholeInv
  <2>2. CASE UNCHANGED txn
    BY <1>1, <2>1, <2>2
  <2>3. CASE /\ txn.by \in {"nobody", "cli"} /\ txn'.by = "cli"
             /\ Base.next <= txn'.db.next /\ Base.runs \subseteq txn'.db.runs
             /\ \A q \in txn'.db.runs : q \in Base.runs \/ (FromReport(q) /\ q.id = Base.next)
    <3>1. Base.next \in Nat /\ txn'.db.next \in Nat
      BY <1>0, BaseWhole DEF HistoryTyped, StoreTyped, DbTyped
    <3>2. \A id, test : Owned(Base, id, test) => Owned(txn'.db, id, test)
      BY <2>3, <3>1, OwnedGrows
    <3>3. FeedsOwn'
      BY <2>1, <2>3, <3>2, BaseWhole DEF WholeInv, FeedsOwn, Owned
    <3>4. RunsWhole'
      BY <2>1, <2>3, BaseWhole DEF WholeInv, RunsWhole, DbWhole, FromReport, FromFeed, Halved
    <3> QED
      BY <1>0, <3>3, <3>4 DEF WholeInv
  <2> QED
    BY <1>3, <2>2, <2>3, BatchTyped DEF WholeInv
<1>4. ASSUME EndBatch \/ CrashBatch PROVE WholeInv'
  <2>1. /\ UNCHANGED <<feeder, mixed>>
        /\ \/ UNCHANGED <<db, txn>>
           \/ txn.by = "cli" /\ txn' = NoTxn /\ (UNCHANGED db \/ db' = txn.db)
    BY <1>4 DEF EndBatch, CrashBatch, CommitOf
  <2>2. CASE txn.by = "cli" /\ txn' = NoTxn /\ (UNCHANGED db \/ db' = txn.db)
    <3>1. txn'.by = "nobody" /\ txn'.db.runs = {}
      BY <2>2 DEF NoTxn, EmptyDb
    <3>2. FeedsOwn'
      BY <2>1, <2>2, <3>1 DEF WholeInv, FeedsOwn, Owned
    <3>3. RunsWhole'
      BY <2>1, <2>2, <3>1 DEF WholeInv, RunsWhole, DbWhole, FromReport, FromFeed, Halved
    <3> QED
      BY <1>0, <3>2, <3>3 DEF WholeInv
  <2> QED
    BY <1>1, <2>1, <2>2
<1>5. ASSUME NEW c \in 1..MaxClock, Prune(c) PROVE WholeInv'
  <2>1. /\ db'.runs \subseteq db.runs /\ db'.next = db.next /\ UNCHANGED <<txn, feeder, mixed>>
    BY <1>5 DEF Prune, PruneBefore, WholeInv, HistoryTyped, StoreTyped, DbTyped
  <2>2. FeedsOwn'
    BY <2>1 DEF WholeInv, FeedsOwn, Owned
  <2>3. RunsWhole'
    BY <2>1 DEF WholeInv, RunsWhole, DbWhole, ConnectionWhole, Working, FromReport, FromFeed, Halved
  <2> QED
    BY <1>0, <2>2, <2>3 DEF WholeInv
<1>6. ASSUME NEW w \in Feeder, BeginFeed(w) PROVE WholeInv'
  BY <1>6, RepeatWhole, DetectiveAssumption DEF BeginFeed, WholeInv, HistoryTyped
<1>7. ASSUME NEW w \in Feeder, FeedRun(w) PROVE WholeInv'
  BY <1>7, RepeatWhole DEF FeedRun, WholeInv, HistoryTyped, FeedTyped
<1>8. ASSUME NEW w \in Feeder, FeedCases(w) PROVE WholeInv'
  BY <1>8, CasesWhole
<1>9. ASSUME NEW w \in Feeder, FeedLocked(w) \/ EndFeed(w) PROVE WholeInv'
  <2>1. /\ feeder' = [feeder EXCEPT ![w] = NoFeed] /\ UNCHANGED <<db, txn, mixed>>
        /\ txn.by \notin {"nobody", "gateway"} \/ feeder[w].pc = "next"
    BY <1>9 DEF FeedLocked, EndFeed, Locked
  <2>2. feeder'[w].pc = "idle" /\ \A v \in Feeder \ {w} : feeder'[v] = feeder[v]
    BY <2>1 DEF WholeInv, HistoryTyped, NoFeed
  <2>3. FeedsOwn'
    BY <2>1, <2>2 DEF WholeInv, FeedsOwn, Owned
  <2>4. txn.by = "gateway" => \A id : Working(id) => Working(id)'
    BY <2>1, <2>2 DEF Working
  <2>5. RunsWhole'
    BY <2>1, <2>4 DEF WholeInv, RunsWhole, DbWhole, ConnectionWhole, FromReport, FromFeed, Halved
  <2> QED
    BY <1>0, <2>3, <2>5 DEF WholeInv
<1>10. ASSUME CrashGateway PROVE WholeInv'
  <2>1. /\ feeder' = [w \in Feeder |-> NoFeed] /\ UNCHANGED <<db, mixed>>
        /\ txn' = IF txn.by = "gateway" THEN NoTxn ELSE txn
    BY <1>10 DEF CrashGateway
  <2>2. txn'.by # "gateway" /\ (txn' = txn \/ txn'.db.runs = {})
    BY <2>1 DEF NoTxn, EmptyDb
  <2>3. FeedsOwn'
    BY <2>1 DEF FeedsOwn, NoFeed
  <2>4. RunsWhole'
    BY <2>1, <2>2 DEF WholeInv, RunsWhole, DbWhole, FromReport, FromFeed, Halved
  <2> QED
    BY <1>0, <2>3, <2>4 DEF WholeInv
<1>11. ASSUME Tick \/ StartBatch PROVE WholeInv'
  BY <1>1, <1>11 DEF Tick, StartBatch
<1>12. ASSUME NEW f, LeaveReport(f) PROVE WholeInv'
  BY <1>1, <1>12 DEF LeaveReport
<1>13. ASSUME NEW t, InstallCron(t) \/ EditConfig(t) \/ HandScan(t) \/ ScanRefused(t)
       PROVE  WholeInv'
  BY <1>1, <1>13 DEF InstallCron, EditConfig, HandScan, ScanRead, ScanRefused, historyVars, vars
<1>14. ASSUME CronScan PROVE WholeInv'
  BY <1>1, <1>14 DEF CronScan, ScanRead, historyVars
<1>15. ASSUME NEW s, ScanStep(s) \/ CrashScan(s) PROVE WholeInv'
  BY <1>1, <1>15 DEF ScanStep, ReadFlakyKeys, ReplaceVerdicts, RecordScanRun, EmitScan, CrashScan,
                     historyVars
<1>16. ASSUME UNCHANGED vars PROVE WholeInv'
  BY <1>1, <1>16 DEF vars, historyVars
<1> QED
  BY <1>2, <1>3, <1>4, <1>5, <1>6, <1>7, <1>8, <1>9, <1>10, <1>11, <1>12, <1>13, <1>14, <1>15,
     <1>16 DEF Next

\* An empty history is whole.
LEMMA WholeInit ==
  ASSUME Init
  PROVE  WholeInv
<1>1. db.runs = {} /\ txn.by = "nobody" /\ txn.db.runs = {}
  BY DEF Init, NoTxn, EmptyDb
<1>2. FeedsOwn
  BY DEF Init, FeedsOwn, NoFeed
<1>3. RunsWhole
  BY <1>1 DEF RunsWhole, DbWhole
<1> QED
  BY <1>2, <1>3, HistoryInit DEF WholeInv

\* A run carries the cases of its report, all of them, and a burn-in's its one case, whatever bad
\* file, locked database, crash or interleaving came before; only where one gateway thread has
\* committed another's transaction may a burn-in's run be without.
THEOREM RunsAreWhole == Spec => []WholeRuns
<1>1. Init => WholeInv
  BY WholeInit
<1>2. WholeInv /\ [Next]_vars => WholeInv'
  BY WholeInductive
<1>3. WholeInv => WholeRuns
  BY DEF WholeInv, RunsWhole, DbWhole, WholeRuns, FromReport, FromFeed, Halved, Source
<1> QED
  BY <1>1, <1>2, <1>3, PTL DEF Spec

-----------------------------------------------------------------------------
(* Burn-ins.                                                               *)

FeedInv == WholeInv /\ FeedsKept

\* Runs of files take nothing from a repeat.
LEMMA FedGrows ==
  ASSUME NEW d, NEW z, d.runs \subseteq z.runs, \A q \in z.runs : q \in d.runs \/ FromReport(q),
         NEW test \in BurnIns, NEW stamp \in 0..MaxClock, NEW i \in 0..Repeats, Fed(d, test, stamp, i)
  PROVE  Fed(z, test, stamp, i)
<1>1. PICK r \in LogicalRuns(d, stamp) :
        r.file = FeedSource(test, stamp, i) /\ r.eff = stamp /\ r.cases = BurnInCases(test)
  BY DEF Fed
<1>2. r.file \notin File
  BY <1>1, SourceAssumption
<1>3. r \in LogicalRuns(z, stamp)
  BY <1>2 DEF LogicalRuns, FromReport
<1> QED
  BY <1>1, <1>3 DEF Fed

\* A prune up to the moment of a burn-in, or before, keeps its repeats.
LEMMA FedPruned ==
  ASSUME NEW d, NEW cutoff \in Nat, NEW stamp \in Nat, cutoff <= stamp, NEW z,
         z.runs = { r \in d.runs : r.eff >= cutoff }, NEW test, NEW i, Fed(d, test, stamp, i)
  PROVE  Fed(z, test, stamp, i)
BY DEF Fed, LogicalRuns

\* What a feed has committed, or has under way, a writer of the gateway finds.
LEMMA BaseFed ==
  ASSUME FeedInv, ~mixed, txn.by # "cli", NEW w \in Feeder,
         feeder[w].pc # "idle", feeder[w].stamp >= pruned
  PROVE  /\ \A i \in 0..feeder[w].done - 1 : BeingFed(Base, feeder[w].test, feeder[w].stamp, i)
         /\ feeder[w].pc = "cases" => BeingFed(Base, feeder[w].test, feeder[w].stamp, feeder[w].done)
<1>1. FeedKept(feeder[w])
  BY DEF FeedInv, WholeInv, FeedsKept
<1>2. CASE txn.by = "nobody"
  <2>1. Base = db
    BY <1>2 DEF Base, FeedInv, WholeInv, HistoryTyped, StoreTyped
  <2> QED
    BY <1>1, <1>2, <2>1 DEF FeedKept, Fed, BeingFed
<1>3. CASE txn.by = "gateway"
  <2>1. Base = txn.db
    BY <1>3 DEF Base, NoTxn
  <2> QED
    BY <1>1, <1>3, <2>1 DEF FeedKept
<1> QED
  BY <1>2, <1>3 DEF FeedInv, WholeInv, HistoryTyped, StoreTyped

\* The row of a repeat takes the place of an earlier one of the same repeat only as a run under way.
LEMMA RepeatFeeds ==
  ASSUME HistoryTyped, NEW w \in Feeder, NEW test \in BurnIns, NEW stamp \in 0..MaxClock,
         NEW done \in 0..Repeats,
         done < Repeats, feeder[w].pc # "cases", InsertRepeat(w, test, stamp, done)
  PROVE  /\ BeingFed(txn.db, test, stamp, done)'
         /\ \A te, st, i : BeingFed(Base, te, st, i) => BeingFed(txn.db, te, st, i)'
<1> DEFINE n == [id |-> Base.next, file |-> FeedSource(test, stamp, done), eff |-> stamp, cases |-> {}]
<1>1. /\ txn'.db.runs = Base.runs \cup {n}
      /\ feeder'[w].pc = "cases" /\ feeder'[w].run = Base.next
      /\ \A v \in Feeder \ {w} : feeder'[v] = feeder[v]
  BY RepeatTyped
<1>2. n.id = Base.next /\ n.file = FeedSource(test, stamp, done) /\ n.eff = stamp
  OBVIOUS
<1> HIDE DEF n
<1>3. /\ Base.next \in Nat
      /\ \A r \in Base.runs : r.id \in Nat /\ r.id < Base.next
  BY DEF HistoryTyped, StoreTyped, DbTyped, RunTyped, Base
<1>4. n \in LogicalRuns(txn'.db, stamp)
  BY <1>1, <1>2, <1>3 DEF LogicalRuns
<1>5. \A id : Working(id) => Working(id)'
  BY <1>1 DEF Working
<1>6. \A id : id = Base.next => Working(id)'
  BY <1>1 DEF Working
<1>7. ASSUME NEW te, NEW st, NEW i, n.file = FeedSource(te, st, i), n.eff = st
      PROVE  BeingFed(txn.db, te, st, i)'
  BY <1>2, <1>4, <1>6, <1>7 DEF BeingFed
<1>8. ASSUME NEW te, NEW st, NEW i, BeingFed(Base, te, st, i)
      PROVE  BeingFed(txn.db, te, st, i)'
  <2>1. PICK r \in LogicalRuns(Base, st) :
          /\ r.file = FeedSource(te, st, i) /\ r.eff = st
          /\ r.cases = BurnInCases(te) \/ Working(r.id)
    BY <1>8 DEF BeingFed
  <2>2. CASE n.file = r.file /\ n.eff = r.eff
    BY <1>7, <2>1, <2>2
  <2>3. CASE ~(n.file = r.file /\ n.eff = r.eff)
    <3>1. r \in LogicalRuns(txn'.db, st)
      BY <1>1, <2>3 DEF LogicalRuns
    <3> QED
      BY <1>5, <2>1, <3>1 DEF BeingFed
  <2> QED
    BY <2>2, <2>3
<1> QED
  BY <1>2, <1>7, <1>8

\* The commit turns a repeat under way into one that is fed, unless it is another feed's.
LEMMA CasesFeed ==
  ASSUME WholeInv, NEW w \in Feeder, FeedCases(w), ~mixed', NEW te, NEW st, NEW i,
         BeingFed(Base, te, st, i)
  PROVE  Fed(db', te, st, i)
<1>1. /\ db'.runs = { Filled(r, feeder[w].run, BurnInCases(feeder[w].test)) : r \in Base.runs }
      /\ \A r \in Base.runs :
           LET q == Filled(r, feeder[w].run, BurnInCases(feeder[w].test))
           IN  /\ q.id = r.id /\ q.file = r.file /\ q.eff = r.eff
               /\ q.cases = IF r.id = feeder[w].run THEN BurnInCases(feeder[w].test) ELSE r.cases
  BY CasesTyped DEF WholeInv
<1>2. \A v \in Feeder \ {w} : feeder[v].pc # "cases"
  BY DEF FeedCases
<1>3. PICK r \in LogicalRuns(Base, st) :
        /\ r.file = FeedSource(te, st, i) /\ r.eff = st
        /\ r.cases = BurnInCases(te) \/ Working(r.id)
  BY DEF BeingFed
<1>4. PICK q \in db'.runs :
        /\ q.id = r.id /\ q.file = r.file /\ q.eff = r.eff
        /\ q.cases = IF r.id = feeder[w].run THEN BurnInCases(feeder[w].test) ELSE r.cases
  BY <1>1 DEF LogicalRuns
<1>5. q.cases = BurnInCases(te)
  <2>1. CASE r.id = feeder[w].run
    <3>1. Source(r, feeder[w].test)
      BY <2>1, BaseWhole DEF FeedCases, Owned, LogicalRuns
    <3>2. feeder[w].test = te
      BY <1>3, <3>1 DEF Source, FeedSource
    <3> QED
      BY <1>4, <2>1, <3>2
  <2>2. CASE r.id # feeder[w].run
    BY <1>2, <1>3, <1>4, <2>2 DEF Working
  <2> QED
    BY <2>1, <2>2
<1>6. \A p \in db'.runs : p.file = q.file /\ p.eff = q.eff => p.id <= q.id
  BY <1>1, <1>4 DEF LogicalRuns
<1>7. q \in LogicalRuns(db', st)
  BY <1>4, <1>6 DEF LogicalRuns
<1> QED
  BY <1>3, <1>4, <1>5, <1>7 DEF Fed

\* A repeat's row keeps what every feed has fed, and puts its own under way.
LEMMA RepeatKept ==
  ASSUME FeedInv, NEW w \in Feeder, NEW test \in BurnIns, NEW stamp \in 0..MaxClock,
         NEW done \in 0..Repeats,
         done < Repeats, feeder[w].pc # "cases", InsertRepeat(w, test, stamp, done),
         done = 0 \/ (feeder[w].pc # "idle" /\ test = feeder[w].test /\ stamp = feeder[w].stamp /\ done = feeder[w].done)
  PROVE  FeedInv'
<1>1. /\ HistoryTyped' /\ txn'.by = "gateway"
      /\ feeder'[w].pc = "cases" /\ feeder'[w].done = done /\ feeder'[w].stamp = stamp
      /\ feeder'[w].test = test
      /\ \A v \in Feeder \ {w} : feeder'[v] = feeder[v]
  BY RepeatTyped DEF FeedInv, WholeInv
<1>2. UNCHANGED <<db, mixed, pruned>> /\ txn.by # "cli"
  BY DEF InsertRepeat, Locked
<1>3. /\ BeingFed(txn.db, test, stamp, done)'
      /\ \A te, st, i : BeingFed(Base, te, st, i) => BeingFed(txn.db, te, st, i)'
  BY RepeatFeeds DEF FeedInv, WholeInv
<1>4. ASSUME ~mixed, NEW v \in Feeder, feeder'[v].stamp >= pruned, feeder'[v].pc # "idle"
      PROVE  FeedKept(feeder[v])'
  <2>1. \A u \in Feeder : FeedKept(feeder[u])
    BY <1>4 DEF FeedInv, WholeInv, FeedsKept
  <2>2. CASE v # w
    <3>1. /\ \A i \in 0..feeder[v].done - 1 : BeingFed(txn.db, feeder[v].test, feeder[v].stamp, i)'
          /\ feeder[v].pc = "cases" => BeingFed(txn.db, feeder[v].test, feeder[v].stamp, feeder[v].done)'
      BY <1>1, <1>2, <1>3, <1>4, <2>2, BaseFed
    <3>2. \A i \in 0..feeder[v].done - 1 : Fed(db, feeder[v].test, feeder[v].stamp, i)
      BY <1>1, <1>4, <2>1, <2>2 DEF FeedKept
    <3> QED
      BY <1>1, <1>2, <2>2, <3>1, <3>2 DEF FeedKept, Fed, BeingFed, Working
  <2>3. CASE v = w
    <3>1. ASSUME NEW i \in 0..done - 1
          PROVE  Fed(db, test, stamp, i) /\ BeingFed(txn.db, test, stamp, i)'
      <4>1. feeder[w].pc # "idle" /\ test = feeder[w].test /\ stamp = feeder[w].stamp /\ done = feeder[w].done
        BY <3>1
      <4> QED
        BY <1>1, <1>2, <1>3, <1>4, <2>1, <2>3, <4>1, BaseFed DEF FeedKept
    <3> QED
      BY <1>1, <1>2, <1>3, <2>3, <3>1 DEF FeedKept, Fed, BeingFed, Working
  <2> QED
    BY <2>2, <2>3
<1>5. FeedsKept'
  BY <1>2, <1>4 DEF FeedsKept, FeedKept
<1>6. WholeInv'
  BY RepeatWhole DEF FeedInv
<1> QED
  BY <1>5, <1>6 DEF FeedInv

\* The commit of a repeat.
LEMMA CasesKept ==
  ASSUME FeedInv, NEW w \in Feeder, FeedCases(w)
  PROVE  FeedInv'
<1>1. /\ HistoryTyped' /\ txn' = NoTxn /\ txn.by \in {"nobody", "gateway"}
      /\ feeder'[w].pc = "next" /\ feeder'[w].done = feeder[w].done + 1
      /\ feeder'[w].stamp = feeder[w].stamp /\ feeder'[w].test = feeder[w].test
      /\ \A v \in Feeder \ {w} : feeder'[v] = feeder[v]
  BY CasesTyped DEF FeedInv, WholeInv
<1>2. /\ feeder[w].pc = "cases" /\ UNCHANGED pruned /\ (mixed => mixed')
      /\ \A v \in Feeder \ {w} : feeder[v].pc = "cases" => mixed'
  BY DEF FeedCases
<1>3. txn'.by = "nobody"
  BY <1>1 DEF NoTxn
<1>4. ASSUME ~mixed', NEW v \in Feeder, feeder'[v].stamp >= pruned, feeder'[v].pc # "idle"
      PROVE  FeedKept(feeder[v])'
  <2>1. /\ feeder[v].pc # "idle" /\ feeder'[v].stamp = feeder[v].stamp
        /\ feeder'[v].test = feeder[v].test
    BY <1>1, <1>2, <1>4
  <2>2. /\ \A i \in 0..feeder[v].done - 1 : BeingFed(Base, feeder[v].test, feeder[v].stamp, i)
        /\ feeder[v].pc = "cases" => BeingFed(Base, feeder[v].test, feeder[v].stamp, feeder[v].done)
    BY <1>1, <1>2, <1>4, <2>1, BaseFed
  <2>3. /\ \A i \in 0..feeder[v].done - 1 : Fed(db', feeder[v].test, feeder[v].stamp, i)
        /\ feeder[v].pc = "cases" => Fed(db', feeder[v].test, feeder[v].stamp, feeder[v].done)
    BY <1>4, <2>2, CasesFeed DEF FeedInv
  <2>4. feeder[v].done \in 0..Repeats
    BY DEF FeedInv, WholeInv, HistoryTyped, FeedTyped
  <2>5. \A i \in 0..feeder'[v].done - 1 : Fed(db', feeder'[v].test, feeder'[v].stamp, i)
    BY <1>1, <1>2, <2>1, <2>3, <2>4
  <2>6. feeder'[v].pc # "cases"
    BY <1>1, <1>2, <1>4
  <2> QED
    BY <1>3, <2>5, <2>6 DEF FeedKept, Fed
<1>5. FeedsKept'
  BY <1>2, <1>4 DEF FeedsKept, FeedKept
<1>6. WholeInv'
  BY CasesWhole DEF FeedInv
<1> QED
  BY <1>5, <1>6 DEF FeedInv

\* What every feed has fed stays.
LEMMA FeedsInductive ==
  ASSUME FeedInv, [Next]_vars
  PROVE  FeedInv'
<1>0. WholeInv' /\ HistoryTyped'
  BY WholeInductive DEF FeedInv, WholeInv
<1>1. ASSUME UNCHANGED <<db, txn, feeder, mixed, pruned>> PROVE FeedInv'
  BY <1>0, <1>1 DEF FeedInv, FeedsKept, FeedKept, Fed, BeingFed, Working
<1>2. \A w \in Feeder : FeedTyped(feeder[w])
  BY DEF FeedInv, WholeInv, HistoryTyped
<1>3. ASSUME NEW f \in File, IngestOne(f) PROVE FeedInv'
  <2>1. /\ txn = NoTxn /\ txn' = NoTxn /\ txn.by = "nobody" /\ UNCHANGED <<feeder, mixed, pruned>>
        /\ db.runs \subseteq db'.runs
        /\ \A q \in db'.runs : q \in db.runs \/ FromReport(q)
    BY <1>3, IngestTyped DEF FeedInv, WholeInv, NoTxn
  <2>2. \A test \in BurnIns, stamp \in 0..MaxClock, i \in 0..Repeats :
          Fed(db, test, stamp, i) => Fed(db', test, stamp, i)
    BY <2>1, FedGrows
  <2>3. ASSUME ~mixed, NEW w \in Feeder, feeder[w].pc # "idle", feeder[w].stamp >= pruned
        PROVE  /\ feeder[w].pc # "cases"
               /\ \A i \in 0..feeder[w].done - 1 : Fed(db', feeder[w].test, feeder[w].stamp, i)
    <3>1. FeedKept(feeder[w])
      BY <2>3 DEF FeedInv, WholeInv, FeedsKept
    <3>2. FeedTyped(feeder[w])
      BY <1>2
    <3>3. ASSUME NEW i \in 0..feeder[w].done - 1 PROVE Fed(db', feeder[w].test, feeder[w].stamp, i)
      <4>1. i \in 0..Repeats /\ feeder[w].stamp \in 0..MaxClock /\ feeder[w].test \in BurnIns
        BY <2>3, <3>2, DetectiveAssumption DEF FeedTyped
      <4>2. Fed(db, feeder[w].test, feeder[w].stamp, i)
        BY <2>3, <3>1 DEF FeedKept
      <4> QED
        BY <2>2, <4>1, <4>2
    <3> QED
      BY <2>1, <2>3, <3>1, <3>3 DEF FeedKept
  <2>4. FeedsKept'
    BY <2>1, <2>3 DEF FeedsKept, FeedKept, Fed
  <2> QED
    BY <1>0, <2>4 DEF FeedInv, WholeInv
<1>4. ASSUME BatchFile PROVE FeedInv'
  <2>1. UNCHANGED <<db, feeder, mixed, pruned>>
    BY <1>4, BatchTyped DEF FeedInv, WholeInv
  <2>2. CASE UNCHANGED txn
    BY <1>1, <2>1, <2>2
  <2>3. CASE /\ txn.by \in {"nobody", "cli"} /\ txn'.by = "cli"
             /\ Base.runs \subseteq txn'.db.runs
             /\ \A q \in txn'.db.runs : q \in Base.runs \/ FromReport(q)
    <3>1. \A test \in BurnIns, stamp \in 0..MaxClock, i \in 0..Repeats :
            Fed(Base, test, stamp, i) => Fed(txn'.db, test, stamp, i)
      BY <2>3, FedGrows
    <3>2. Base = IF txn.by = "nobody" THEN db ELSE txn.db
      BY DEF FeedInv, WholeInv, HistoryTyped, StoreTyped, Base, NoTxn
    <3>3. ASSUME ~mixed, NEW w \in Feeder, feeder[w].pc # "idle", feeder[w].stamp >= pruned
          PROVE  /\ feeder[w].pc # "cases"
                 /\ \A i \in 0..feeder[w].done - 1 :
                      Fed(db, feeder[w].test, feeder[w].stamp, i) /\ Fed(txn'.db, feeder[w].test, feeder[w].stamp, i)
      <4>1. FeedKept(feeder[w])
        BY <3>3 DEF FeedInv, WholeInv, FeedsKept
      <4>2. /\ feeder[w].pc # "cases"
            /\ \A i \in 0..feeder[w].done - 1 :
                 Fed(db, feeder[w].test, feeder[w].stamp, i) /\ Fed(Base, feeder[w].test, feeder[w].stamp, i)
        BY <2>3, <3>2, <3>3, <4>1 DEF FeedKept
      <4>3. FeedTyped(feeder[w])
        BY <1>2
      <4>4. /\ feeder[w].stamp \in 0..MaxClock /\ feeder[w].test \in BurnIns
            /\ \A i \in 0..feeder[w].done - 1 : i \in 0..Repeats
        BY <3>3, <4>3, DetectiveAssumption DEF FeedTyped
      <4> QED
        BY <3>1, <4>2, <4>4
    <3>4. FeedsKept'
      BY <2>1, <2>3, <3>3 DEF FeedsKept, FeedKept, Fed
    <3> QED
      BY <1>0, <3>4 DEF FeedInv, WholeInv
  <2> QED
    BY <1>4, <2>2, <2>3, BatchTyped DEF FeedInv, WholeInv
<1>5. ASSUME EndBatch \/ CrashBatch PROVE FeedInv'
  <2>1. /\ UNCHANGED <<feeder, mixed, pruned>>
        /\ \/ UNCHANGED <<db, txn>>
           \/ txn.by = "cli" /\ txn' = NoTxn /\ (UNCHANGED db \/ db' = txn.db)
    BY <1>5 DEF EndBatch, CrashBatch, CommitOf
  <2>2. CASE txn.by = "cli" /\ txn' = NoTxn /\ (UNCHANGED db \/ db' = txn.db)
    <3>1. txn'.by = "nobody"
      BY <2>2 DEF NoTxn
    <3>2. FeedsKept'
      BY <2>1, <2>2, <3>1 DEF FeedInv, WholeInv, FeedsKept, FeedKept, Fed
    <3> QED
      BY <1>0, <3>2 DEF FeedInv, WholeInv
  <2> QED
    BY <1>1, <2>1, <2>2
<1>6. ASSUME NEW c \in 1..MaxClock, Prune(c) PROVE FeedInv'
  <2>1. /\ txn = NoTxn /\ txn.by = "nobody" /\ UNCHANGED <<txn, feeder, mixed>>
        /\ db' = PruneBefore(db, c) /\ pruned' = IF c > pruned THEN c ELSE pruned
    BY <1>6 DEF Prune, NoTxn
  <2>2. db'.runs = { r \in db.runs : r.eff >= c }
    BY <2>1, PrunedDb DEF FeedInv, WholeInv, HistoryTyped, StoreTyped
  <2>3. c <= pruned' /\ pruned <= pruned'
    BY <2>1 DEF FeedInv, WholeInv, HistoryTyped
  <2>4. ASSUME NEW stamp \in 0..MaxClock, stamp >= pruned', NEW test, NEW i,
               Fed(db, test, stamp, i)
        PROVE  Fed(db', test, stamp, i)
    <3>1. c \in Nat /\ stamp \in Nat /\ c <= stamp
      BY <1>0, <2>3, <2>4 DEF HistoryTyped
    <3> QED
      BY <2>2, <2>4, <3>1, FedPruned
  <2>5. ASSUME ~mixed, NEW w \in Feeder, feeder[w].pc # "idle", feeder[w].stamp >= pruned'
        PROVE  /\ feeder[w].pc # "cases"
               /\ \A i \in 0..feeder[w].done - 1 : Fed(db', feeder[w].test, feeder[w].stamp, i)
    <3>1. feeder[w].stamp >= pruned /\ feeder[w].stamp \in 0..MaxClock
      BY <1>0, <1>2, <2>3, <2>5 DEF FeedTyped, FeedInv, WholeInv, HistoryTyped
    <3>2. FeedKept(feeder[w])
      BY <2>5 DEF FeedInv, WholeInv, FeedsKept
    <3> QED
      BY <2>1, <2>4, <2>5, <3>1, <3>2 DEF FeedKept
  <2>6. FeedsKept'
    BY <2>1, <2>5 DEF FeedsKept, FeedKept, Fed
  <2> QED
    BY <1>0, <2>6 DEF FeedInv, WholeInv
<1>7. ASSUME NEW w \in Feeder, BeginFeed(w) PROVE FeedInv'
  <2>1. PICK test \in BurnIns : InsertRepeat(w, test, clock, 0)
    BY <1>7 DEF BeginFeed
  <2>2. clock \in 0..MaxClock /\ 0 \in 0..Repeats /\ 0 < Repeats /\ feeder[w].pc # "cases"
    BY <1>7, DetectiveAssumption DEF BeginFeed, FeedInv, WholeInv, HistoryTyped
  <2> QED
    BY <2>1, <2>2, RepeatKept
<1>8. ASSUME NEW w \in Feeder, FeedRun(w) PROVE FeedInv'
  BY <1>2, <1>8, RepeatKept DEF FeedRun, FeedTyped
<1>9. ASSUME NEW w \in Feeder, FeedCases(w) PROVE FeedInv'
  BY <1>9, CasesKept
<1>10. ASSUME NEW w \in Feeder, FeedLocked(w) \/ EndFeed(w) PROVE FeedInv'
  <2>1. /\ feeder' = [feeder EXCEPT ![w] = NoFeed] /\ UNCHANGED <<db, txn, mixed, pruned>>
        /\ txn.by \notin {"nobody", "gateway"} \/ feeder[w].pc = "next"
    BY <1>10 DEF FeedLocked, EndFeed, Locked
  <2>2. feeder'[w].pc = "idle" /\ \A v \in Feeder \ {w} : feeder'[v] = feeder[v]
    BY <2>1 DEF FeedInv, WholeInv, HistoryTyped, NoFeed
  <2>3. txn.by = "gateway" => \A id : Working(id) => Working(id)'
    BY <2>1, <2>2 DEF Working
  <2>4. txn.by = "gateway" =>
          \A d, test, stamp, i : BeingFed(d, test, stamp, i) => BeingFed(d, test, stamp, i)'
    BY <2>3 DEF BeingFed
  <2>5. ASSUME ~mixed, NEW v \in Feeder \ {w} PROVE FeedKept(feeder[v])'
    BY <2>1, <2>2, <2>4, <2>5 DEF FeedInv, WholeInv, FeedsKept, FeedKept, Fed, BeingFed, Working
  <2>6. FeedsKept'
    BY <2>1, <2>2, <2>5 DEF FeedsKept, FeedKept
  <2> QED
    BY <1>0, <2>6 DEF FeedInv, WholeInv
<1>11. ASSUME CrashGateway PROVE FeedInv'
  BY <1>0, <1>11 DEF CrashGateway, FeedInv, FeedsKept, FeedKept, NoFeed
<1>12. ASSUME Tick \/ StartBatch PROVE FeedInv'
  BY <1>1, <1>12 DEF Tick, StartBatch
<1>13. ASSUME NEW f, LeaveReport(f) PROVE FeedInv'
  BY <1>1, <1>13 DEF LeaveReport
<1>14. ASSUME NEW t, InstallCron(t) \/ EditConfig(t) \/ HandScan(t) \/ ScanRefused(t)
       PROVE  FeedInv'
  BY <1>1, <1>14 DEF InstallCron, EditConfig, HandScan, ScanRead, ScanRefused, historyVars, vars
<1>15. ASSUME CronScan PROVE FeedInv'
  BY <1>1, <1>15 DEF CronScan, ScanRead, historyVars
<1>16. ASSUME NEW s, ScanStep(s) \/ CrashScan(s) PROVE FeedInv'
  BY <1>1, <1>16 DEF ScanStep, ReadFlakyKeys, ReplaceVerdicts, RecordScanRun, EmitScan, CrashScan,
                     historyVars
<1>17. ASSUME UNCHANGED vars PROVE FeedInv'
  BY <1>1, <1>17 DEF vars, historyVars
<1> QED
  BY <1>3, <1>4, <1>5, <1>6, <1>7, <1>8, <1>9, <1>10, <1>11, <1>12, <1>13, <1>14, <1>15, <1>16,
     <1>17 DEF Next

\* Every repeat a burn-in has fed is a logical run of its own, one for each, until it is pruned or two
\* gateway threads have fed into one transaction.
THEOREM BurnInsAllCount == Spec => []BurnInsCount
<1>1. Init => FeedInv
  <2> SUFFICES ASSUME Init PROVE FeedInv
    OBVIOUS
  <2>1. \A w \in Feeder : feeder[w].pc = "idle"
    BY DEF Init, NoFeed
  <2> QED
    BY <2>1, WholeInit DEF FeedInv, FeedsKept, FeedKept
<1>2. FeedInv /\ [Next]_vars => FeedInv'
  BY FeedsInductive
<1>3. FeedInv => BurnInsCount
  <2> SUFFICES ASSUME FeedInv, NEW w \in Feeder, feeder[w].pc # "idle",
                      ~(feeder[w].stamp < pruned), ~mixed
               PROVE  Cardinality({ r \in LogicalRuns(db, feeder[w].stamp) :
                                      r.eff = feeder[w].stamp /\ r.cases = BurnInCases(feeder[w].test) })
                        >= feeder[w].done
    BY DEF BurnInsCount
  <2> DEFINE stamp == feeder[w].stamp
             test == feeder[w].test
             repeats == 0..feeder[w].done - 1
             green == { r \in LogicalRuns(db, stamp) : r.eff = stamp /\ r.cases = BurnInCases(feeder[w].test) }
             run == [i \in repeats |-> CHOOSE r \in green : r.file = FeedSource(test, stamp, i)]
  <2>1. stamp \in 0..MaxClock /\ feeder[w].done \in 0..Repeats /\ stamp >= pruned
    BY DEF FeedInv, WholeInv, HistoryTyped, FeedTyped
  <2>2. \A i \in repeats : \E r \in green : r.file = FeedSource(test, stamp, i)
    BY <2>1 DEF FeedInv, WholeInv, FeedsKept, FeedKept, Fed
  <2>3. IsFiniteSet(green)
    <3>1. green \subseteq db.runs
      BY DEF LogicalRuns
    <3> QED
      BY <3>1, FS_Subset DEF FeedInv, WholeInv, HistoryTyped, StoreTyped, DbTyped
  <2> HIDE DEF green
  <2>4. \A i \in repeats : run[i] \in green /\ run[i].file = FeedSource(test, stamp, i)
    BY <2>2
  <2> HIDE DEF run
  <2>5. \A i, j \in repeats : FeedSource(test, stamp, i) = FeedSource(test, stamp, j) => i = j
    BY DEF FeedSource
  <2>6. DOMAIN run = repeats /\ run = [i \in repeats |-> run[i]]
    BY DEF run
  <2>7. run \in Injection(repeats, green)
    <3>1. run \in [repeats -> green]
      BY <2>4, <2>6
    <3>2. \A i, j \in DOMAIN run : run[i] = run[j] => i = j
      BY <2>4, <2>5, <2>6
    <3> QED
      BY <3>1, <3>2 DEF Injection, IsInjective
  <2>8. Cardinality(repeats) <= Cardinality(green)
    BY <2>3, <2>7, FS_Injection
  <2>9. Cardinality(repeats) = feeder[w].done
    <3>1. 0 \in Int /\ feeder[w].done - 1 \in Int
      BY <2>1
    <3>2. Cardinality(repeats) = IF 0 > feeder[w].done - 1 THEN 0 ELSE feeder[w].done - 1 - 0 + 1
      BY <3>1, FS_Interval
    <3> QED
      BY <2>1, <3>2
  <2>10. Cardinality(green) \in Nat
    BY <2>3, FS_CardinalityType
  <2>11. Cardinality(green) >= feeder[w].done
    BY <2>1, <2>8, <2>9, <2>10
  <2> QED
    BY <2>11 DEF green
<1> QED
  BY <1>1, <1>2, <1>3, PTL DEF Spec

=============================================================================
