------------------------ MODULE DetectiveBook_proofs ------------------------
(***************************************************************************)
(* The rows of history.db, their transactions and the four-step scans       *)
(* implement the book of executions and its board (HistoryBook): every      *)
(* commit adds executions or, a prune, forgets those before a moment; a     *)
(* scan's counts over rows are the counts over executions, whatever was     *)
(* ingested twice; and what a scan publishes is what it had read.           *)
(***************************************************************************)
EXTENDS Detective_proofs, SequenceTheorems, WellFoundedInduction

------------------------------------------------------------------------------
(* The store: ids are distinct, and an open transaction starts from what is  *)
(* committed.                                                                *)

StoreDistinct ==
  /\ Distinct(db) /\ Distinct(txn.db)
  /\ txn.by # "nobody" => db.runs \subseteq txn.db.runs

BookInv == WholeInv /\ StoreDistinct /\ ConfTyped /\ exists \in BOOLEAN /\ ScanInv

\* The database a writer works on has what is committed, under distinct ids.
LEMMA BaseDistinct ==
  ASSUME HistoryTyped, StoreDistinct
  PROVE  Distinct(Base) /\ db.runs \subseteq Base.runs /\ DbTyped(Base)
<1>1. txn.by = "nobody" => txn = NoTxn
  BY DEF HistoryTyped, StoreTyped
<1> QED
  BY <1>1 DEF HistoryTyped, StoreTyped, StoreDistinct, Base

\* A row under the next id takes the id of no other.
LEMMA RepeatDistinct ==
  ASSUME HistoryTyped, StoreDistinct, NEW w \in Feeder, NEW test \in BurnIns,
         NEW stamp \in 0..MaxClock, NEW done \in 0..Repeats, done < Repeats, InsertRepeat(w, test, stamp, done)
  PROVE  StoreDistinct'
<1> DEFINE n == [id |-> Base.next, file |-> FeedSource(test, stamp, done), eff |-> stamp, cases |-> {}]
<1>1. txn'.db.runs = Base.runs \cup {n}
  BY RepeatTyped
<1>2. n.id = Base.next /\ \A r \in Base.runs : r.id # Base.next
  BY BaseDistinct DEF DbTyped, RunTyped
<1> HIDE DEF n
<1>3. Distinct(txn'.db)
  BY <1>1, <1>2, BaseDistinct DEF Distinct
<1>4. UNCHANGED db
  BY DEF InsertRepeat
<1> QED
  BY <1>1, <1>3, <1>4, BaseDistinct DEF StoreDistinct, Distinct

\* The cases leave a run its id.
LEMMA CasesDistinct ==
  ASSUME HistoryTyped, StoreDistinct, NEW w \in Feeder, FeedCases(w)
  PROVE  StoreDistinct'
<1>1. /\ txn' = NoTxn
      /\ db'.runs = { Filled(r, feeder[w].run, BurnInCases(feeder[w].test)) : r \in Base.runs }
      /\ \A r \in Base.runs : Filled(r, feeder[w].run, BurnInCases(feeder[w].test)).id = r.id
  BY CasesTyped
<1>2. txn'.by = "nobody" /\ txn'.db.runs = {}
  BY <1>1 DEF NoTxn, EmptyDb
<1>3. Distinct(db')
  BY <1>1, BaseDistinct DEF Distinct
<1> QED
  BY <1>2, <1>3 DEF StoreDistinct, Distinct

\* Every step keeps ids distinct and transactions on top of what is committed.
LEMMA DistinctInductive ==
  ASSUME HistoryTyped, StoreDistinct, [Next]_vars
  PROVE  StoreDistinct'
<1>1. ASSUME UNCHANGED <<db, txn>> PROVE StoreDistinct'
  BY <1>1 DEF StoreDistinct, Distinct
<1>2. NoTxn.by = "nobody" /\ NoTxn.db.runs = {}
  BY DEF NoTxn, EmptyDb
<1>3. ASSUME txn' = NoTxn, Distinct(db') PROVE StoreDistinct'
  BY <1>2, <1>3 DEF StoreDistinct, Distinct
<1>4. ASSUME NEW f \in File, IngestOne(f) PROVE StoreDistinct'
  BY <1>3, <1>4, IngestTyped DEF StoreDistinct
<1>5. ASSUME BatchFile PROVE StoreDistinct'
  <2>1. /\ UNCHANGED db
        /\ UNCHANGED txn \/ (/\ txn'.by = "cli" /\ Base.runs \subseteq txn'.db.runs
                             /\ Distinct(Base) => Distinct(txn'.db))
    BY <1>5, BatchTyped
  <2> QED
    BY <1>1, <2>1, BaseDistinct DEF StoreDistinct, Distinct
<1>6. ASSUME EndBatch \/ CrashBatch PROVE StoreDistinct'
  <2>1. UNCHANGED <<db, txn>> \/ (txn' = NoTxn /\ (UNCHANGED db \/ db' = txn.db))
    BY <1>6 DEF EndBatch, CrashBatch, CommitOf
  <2> QED
    BY <1>1, <1>3, <2>1 DEF StoreDistinct, Distinct
<1>7. ASSUME NEW c \in 1..MaxClock, Prune(c) PROVE StoreDistinct'
  <2>1. txn' = NoTxn /\ db'.runs \subseteq db.runs
    BY <1>7, PrunedDb DEF Prune, HistoryTyped, StoreTyped
  <2>2. Distinct(db')
    BY <2>1 DEF StoreDistinct, Distinct
  <2> QED
    BY <1>3, <2>1, <2>2
<1>8. ASSUME NEW w \in Feeder, BeginFeed(w) PROVE StoreDistinct'
  BY <1>8, RepeatDistinct, DetectiveAssumption DEF BeginFeed, HistoryTyped
<1>9. ASSUME NEW w \in Feeder, FeedRun(w) PROVE StoreDistinct'
  BY <1>9, RepeatDistinct DEF FeedRun, HistoryTyped, FeedTyped
<1>10. ASSUME NEW w \in Feeder, FeedCases(w) PROVE StoreDistinct'
  BY <1>10, CasesDistinct
<1>11. ASSUME CrashGateway PROVE StoreDistinct'
  BY <1>1, <1>3, <1>11 DEF CrashGateway, StoreDistinct, Distinct
<1>12. ASSUME NEW w \in Feeder, FeedLocked(w) \/ EndFeed(w) PROVE StoreDistinct'
  BY <1>1, <1>12 DEF FeedLocked, EndFeed
<1>13. ASSUME Tick \/ StartBatch PROVE StoreDistinct'
  BY <1>1, <1>13 DEF Tick, StartBatch
<1>14. ASSUME NEW f, LeaveReport(f) PROVE StoreDistinct'
  BY <1>1, <1>14 DEF LeaveReport
<1>15. ASSUME NEW t, InstallCron(t) \/ EditConfig(t) \/ HandScan(t) \/ ScanRefused(t)
       PROVE  StoreDistinct'
  BY <1>1, <1>15 DEF InstallCron, EditConfig, HandScan, ScanRead, ScanRefused, historyVars, vars
<1>16. ASSUME CronScan PROVE StoreDistinct'
  BY <1>1, <1>16 DEF CronScan, ScanRead, historyVars
<1>17. ASSUME NEW s, ScanStep(s) \/ CrashScan(s) PROVE StoreDistinct'
  BY <1>1, <1>17 DEF ScanStep, ReadFlakyKeys, ReplaceVerdicts, RecordScanRun, EmitScan, CrashScan,
                     historyVars
<1>18. ASSUME UNCHANGED vars PROVE StoreDistinct'
  BY <1>1, <1>18 DEF vars, historyVars
<1> QED
  BY <1>4, <1>5, <1>6, <1>7, <1>8, <1>9, <1>10, <1>11, <1>12, <1>13, <1>14, <1>15, <1>16, <1>17,
     <1>18 DEF Next

\* The invariant of the refinement holds.
LEMMA BookInvariance == Spec => []BookInv
<1>1. Init => BookInv
  <2> SUFFICES ASSUME Init PROVE BookInv
    OBVIOUS
  <2>1. db.runs = {} /\ txn.by = "nobody" /\ txn.db.runs = {}
    BY DEF Init, NoTxn, EmptyDb
  <2>2. WholeInv
    BY WholeInit
  <2>3. StoreDistinct
    BY <2>1 DEF StoreDistinct, Distinct
  <2>4. ConfTyped
    <3>1. FirstConfig = [window |-> FirstConfig.window, minFails |-> FirstConfig.minFails,
                         includeErrors |-> FirstConfig.includeErrors]
      BY DetectiveAssumption
    <3>2. FirstConfig = [FirstConfig EXCEPT !.includeErrors = FirstConfig.includeErrors]
      BY <3>1
    <3> QED
      BY <3>2, DetectiveAssumption DEF ConfTyped, Init
  <2>5. exists \in BOOLEAN
    BY Zenon DEF Init
  <2> QED
    BY <2>2, <2>3, <2>4, <2>5, ScanInit DEF BookInv
<1>2. BookInv /\ [Next]_vars => BookInv'
  BY WholeInductive, DistinctInductive, ConfInductive, ScanInductive DEF BookInv, WholeInv
<1> QED
  BY <1>1, <1>2, PTL DEF Spec

------------------------------------------------------------------------------
(* The book: an execution is a source and a moment, and its row is the one   *)
(* ingested last.                                                            *)

Execution(r) == <<r.file, r.eff>>

Latest(d) ==
  { r \in d.runs : \A q \in d.runs : q.file = r.file /\ q.eff = r.eff => q.id <= r.id }

BookOf(d) ==
  [e \in { <<r.file, r.eff>> : r \in Latest(d) } |->
     (CHOOSE r \in Latest(d) : <<r.file, r.eff>> = e).cases]

\* Naturals have a least among them.
LEMMA Least ==
  ASSUME NEW T \in SUBSET Nat, T # {}
  PROVE  \E n \in T : \A m \in T : n <= m
<1>1. PICK n \in T : \A m \in T : ~(<<m, n>> \in OpToRel(<, Nat))
  BY WFMin, NatLessThanWellFounded
<1>2. \A k, m \in Nat : k < m => <<k, m>> \in OpToRel(<, Nat)
  BY DEF OpToRel
<1>3. n \in Nat /\ \A m \in T : m \in Nat
  OBVIOUS
<1>4. \A m \in T : ~(m < n)
  BY ONLY <1>1, <1>2, <1>3
<1> QED
  BY <1>3, <1>4

\* Of finitely many rows one has the greatest id.
LEMMA LatestExists ==
  ASSUME NEW d, DbTyped(d), NEW r \in d.runs
  PROVE  \E q \in Latest(d) : q.file = r.file /\ q.eff = r.eff
<1> DEFINE Same == { q \in d.runs : q.file = r.file /\ q.eff = r.eff }
           Above == { d.next - q.id : q \in Same }
<1>1. d.next \in Nat /\ \A q \in d.runs : q.id \in Nat /\ q.id < d.next
  BY DEF DbTyped, RunTyped
<1>2. Above \subseteq Nat /\ Above # {}
  BY <1>1
<1>3. PICK n \in Above : \A m \in Above : n <= m
  BY <1>2, Least
<1>4. PICK q \in Same : n = d.next - q.id
  OBVIOUS
<1>5. \A p \in Same : p.id <= q.id
  <2> SUFFICES ASSUME NEW p \in Same PROVE p.id <= q.id
    OBVIOUS
  <2>1. n <= d.next - p.id
    BY <1>3
  <2> QED
    BY <1>1, <1>4, <2>1
<1> QED
  BY <1>4, <1>5 DEF Latest

\* The latest row of an execution is the only one.
LEMMA LatestUnique ==
  ASSUME NEW d, DbTyped(d), Distinct(d), NEW q \in Latest(d), NEW r \in Latest(d),
         q.file = r.file, q.eff = r.eff
  PROVE  q = r
<1>1. q.id \in Nat /\ r.id \in Nat /\ q.id <= r.id /\ r.id <= q.id
  BY DEF Latest, DbTyped, RunTyped
<1> QED
  BY <1>1 DEF Latest, Distinct

\* The book has an entry for every row, and says of an execution what its latest row says.
LEMMA BookEntries ==
  ASSUME NEW d, DbTyped(d), Distinct(d)
  PROVE  /\ DOMAIN BookOf(d) = { <<r.file, r.eff>> : r \in d.runs }
         /\ \A r \in Latest(d) : BookOf(d)[<<r.file, r.eff>>] = r.cases
         /\ BookOf(d) = [e \in DOMAIN BookOf(d) |-> BookOf(d)[e]]
<1>1. DOMAIN BookOf(d) = { <<r.file, r.eff>> : r \in Latest(d) }
  BY DEF BookOf
<1>2. DOMAIN BookOf(d) = { <<r.file, r.eff>> : r \in d.runs }
  <2>1. \A r \in d.runs : <<r.file, r.eff>> \in { <<q.file, q.eff>> : q \in Latest(d) }
    BY LatestExists
  <2>2. Latest(d) \subseteq d.runs
    BY DEF Latest
  <2> QED
    BY <1>1, <2>1, <2>2
<1>3. ASSUME NEW r \in Latest(d) PROVE BookOf(d)[<<r.file, r.eff>>] = r.cases
  <2> DEFINE q == CHOOSE q \in Latest(d) : <<q.file, q.eff>> = <<r.file, r.eff>>
  <2>1. q \in Latest(d) /\ <<q.file, q.eff>> = <<r.file, r.eff>>
    OBVIOUS
  <2>2. BookOf(d)[<<r.file, r.eff>>] = q.cases
    BY DEF BookOf
  <2> HIDE DEF q
  <2>3. q = r
    BY <2>1, LatestUnique
  <2> QED
    BY <2>2, <2>3
<1> QED
  BY <1>2, <1>3 DEF BookOf

\* AsBook is the book of the committed rows, before a step and after it.
LEMMA AsBookIs == AsBook = BookOf(db) /\ AsBook' = BookOf(db')
BY DEF AsBook, BookOf, Latest

\* Rows that stay, whatever their ids, keep their executions in the book.
LEMMA BookGrows ==
  ASSUME DbTyped(db), Distinct(db), DbTyped(db'), Distinct(db'),
         \A r \in db.runs : \E q \in db'.runs : q.file = r.file /\ q.eff = r.eff
  PROVE  DOMAIN AsBook \subseteq DOMAIN AsBook'
<1>1. DOMAIN AsBook = { <<r.file, r.eff>> : r \in db.runs }
  BY AsBookIs, BookEntries
<1>2. DOMAIN AsBook' = { <<r.file, r.eff>> : r \in db'.runs }
  BY AsBookIs, BookEntries
<1> QED
  BY <1>1, <1>2

\* Pruned rows are forgotten, and nothing else is.
LEMMA BookForgets ==
  ASSUME DbTyped(db), Distinct(db), DbTyped(db'), Distinct(db'), NEW c \in Int,
         db'.runs = { r \in db.runs : r.eff >= c }
  PROVE  AsBook' = [e \in { x \in DOMAIN AsBook : x[2] >= c } |-> AsBook[e]]
<1> DEFINE kept == { x \in DOMAIN AsBook : x[2] >= c }
<1>1. DOMAIN AsBook = { <<r.file, r.eff>> : r \in db.runs }
  BY AsBookIs, BookEntries
<1>2. DOMAIN AsBook' = { <<r.file, r.eff>> : r \in db'.runs }
  BY AsBookIs, BookEntries
<1>3. DOMAIN AsBook' = kept
  BY <1>1, <1>2
<1>4. ASSUME NEW e \in kept PROVE AsBook'[e] = AsBook[e]
  <2>1. PICK p \in db'.runs : e = <<p.file, p.eff>>
    BY <1>2, <1>3
  <2>2. PICK r \in Latest(db') : r.file = p.file /\ r.eff = p.eff
    BY LatestExists
  <2>3. r \in Latest(db)
    BY <2>2 DEF Latest
  <2>4. BookOf(db')[<<r.file, r.eff>>] = r.cases /\ BookOf(db)[<<r.file, r.eff>>] = r.cases
    BY <2>2, <2>3, BookEntries
  <2> QED
    BY <2>1, <2>2, <2>4, AsBookIs
<1>5. AsBook' = [e \in DOMAIN AsBook' |-> AsBook'[e]]
  BY AsBookIs, BookEntries
<1> QED
  BY <1>3, <1>4, <1>5

------------------------------------------------------------------------------
(* What a scan counts: rows of logical runs on the one side, outcomes of     *)
(* executions on the other.                                                  *)

\* The sets of the book and of the history are counted alike.
LEMMA SameCount == \A S : Book!Cardinality(S) = Cardinality(S)
BY DEF Cardinality, Book!Cardinality, IsFiniteSet, Book!IsFiniteSet

\* The images of the elements of a finite set are finitely many.
LEMMA FiniteImage ==
  ASSUME NEW S, IsFiniteSet(S), NEW f, DOMAIN f = S
  PROVE  IsFiniteSet({ f[x] : x \in S })
<1> DEFINE g == [x \in S |-> f[x]]
           T == { f[x] : x \in S }
<1>1. g \in Surjection(S, T)
  BY DEF Surjection
<1> HIDE DEF g
<1> QED
  BY <1>1, FS_Surjection

\* An identity made of texts, some of which may be absent.
WellNamed(i) ==
  /\ i.name \in Text
  /\ i.cls = None \/ i.cls \in Text
  /\ i.path = None \/ i.path \in Text

\* A burn-in's identity is one.
LEMMA BurnInNamed == \A test \in BurnIns : WellNamed(BurnInIdent(test))
<1> SUFFICES ASSUME NEW test \in BurnIns PROVE WellNamed(BurnInIdent(test))
  OBVIOUS
<1>1. /\ test \in Seq(STRING) /\ test # <<>>
      /\ HealedAt[test] = None \/ HealedAt[test] \in Text
  BY DetectiveAssumption DEF Text
<1>2. Len(test) \in Nat /\ Len(test) > 0 /\ test[Len(test)] \in STRING
  BY <1>1
<1>3. NameOf(test) \in Text
  BY <1>2 DEF NameOf, Text
<1>4. Len(test) > 1 => LeftOf(test) \in Text
  BY <1>1, <1>2 DEF LeftOf, Text
<1> QED
  BY <1>1, <1>3, <1>4 DEF BurnInIdent, WellNamed, Text

\* A run's cases are finitely many outcomes of identities.
LEMMA CasesFinite ==
  ASSUME WholeInv, NEW r \in db.runs
  PROVE  /\ IsFiniteSet(r.cases)
         /\ \A c \in r.cases : /\ c = [nr |-> c.nr, ident |-> c.ident, status |-> c.status]
                               /\ c.nr \in Nat /\ WellNamed(c.ident)
<1>1. CASE FromReport(r)
  <2>1. PICK report \in Reports[r.file] : r.cases = ParsedCases(report)
    BY <1>1 DEF FromReport
  <2> DEFINE els == report.els
             places == 1..Len(els)
             f == [n \in places |-> [nr |-> n, ident |-> els[n].ident,
                                     status |-> CaseStatus(els[n].tags)]]
  <2>2. els \in Seq([ident : Ident, tags : SUBSET {"error", "failure", "skipped"}])
    BY <1>1, DetectiveAssumption DEF FromReport
  <2>3. Len(els) \in Nat /\ DOMAIN els = places /\ \A n \in places : els[n].ident \in Ident
    <3> DEFINE Element == [ident : Ident, tags : SUBSET {"error", "failure", "skipped"}]
    <3>1. \A e \in Element : e.ident \in Ident
      OBVIOUS
    <3>2. els \in Seq(Element)
      BY <2>2
    <3> HIDE DEF Element, els
    <3>3. Len(els) \in Nat /\ DOMAIN els = places /\ \A n \in places : els[n] \in Element
      BY <3>2
    <3> QED
      BY <3>1, <3>3
  <2>4. r.cases = { f[n] : n \in places }
    BY <2>1, <2>3 DEF ParsedCases
  <2>5. \A i \in Ident : WellNamed(i)
    BY IdentAssumption DEF WellNamed
  <2>6. ASSUME NEW c \in r.cases
        PROVE  /\ c = [nr |-> c.nr, ident |-> c.ident, status |-> c.status]
               /\ c.nr \in Nat /\ WellNamed(c.ident)
    <3>1. PICK n \in places : c = f[n]
      BY <2>4
    <3>2. n \in Nat /\ els[n].ident \in Ident
      BY <2>3
    <3> QED
      BY <2>5, <3>1, <3>2
  <2>7. DOMAIN f = places
    OBVIOUS
  <2>8. IsFiniteSet(places)
    BY <2>3, FS_Interval
  <2> HIDE DEF f, places
  <2>9. IsFiniteSet(r.cases)
    BY <2>4, <2>7, <2>8, FiniteImage
  <2> QED
    BY <2>6, <2>9
<1>2. CASE FromFeed(r) \/ Halved(r)
  <2>1. PICK test \in BurnIns : r.cases \in {{}, BurnInCases(test)}
    BY <1>2 DEF FromFeed, Halved
  <2> DEFINE one == [nr |-> 1, ident |-> BurnInIdent(test), status |-> "passed"]
  <2>2. IsFiniteSet({one}) /\ IsFiniteSet({})
    BY FS_EmptySet, FS_Singleton
  <2>3. /\ one = [nr |-> one.nr, ident |-> one.ident, status |-> one.status]
        /\ one.nr \in Nat /\ WellNamed(one.ident)
    BY BurnInNamed
  <2>4. r.cases = {} \/ r.cases = {one}
    BY <2>1 DEF BurnInCases
  <2> HIDE DEF one
  <2> QED
    BY <2>2, <2>3, <2>4
<1> QED
  BY <1>1, <1>2 DEF WholeInv, RunsWhole, DbWhole

\* What a scan reads: the rows of the latest runs that are not skipped and not too old.
LEMMA RowsRead ==
  ASSUME NEW d, NEW cutoff
  PROVE  /\ \A x \in ReadTestHistory(d, cutoff) :
              \E r \in Latest(d) : \E c \in r.cases :
                r.eff >= cutoff /\ c.status # "skipped" /\ x = RowOf(r, c)
         /\ \A r \in Latest(d) : \A c \in r.cases :
              r.eff >= cutoff /\ c.status # "skipped" => RowOf(r, c) \in ReadTestHistory(d, cutoff)
BY DEF ReadTestHistory, LogicalRuns, Latest, RowOf

\* Those are finitely many.
LEMMA RowsFinite ==
  ASSUME WholeInv, NEW cutoff
  PROVE  IsFiniteSet(ReadTestHistory(db, cutoff))
<1> DEFINE runs == LogicalRuns(db, cutoff)
           counted(r) == { x \in r.cases : x.status # "skipped" }
           rowsOf == [r \in runs |-> { RowOf(r, c) : c \in counted(r) }]
<1>1. IsFiniteSet(runs) /\ runs \subseteq db.runs
  <2>1. runs \subseteq db.runs
    BY DEF LogicalRuns
  <2> QED
    BY <2>1, FS_Subset DEF WholeInv, HistoryTyped, StoreTyped, DbTyped
<1>2. ASSUME NEW r \in runs PROVE IsFiniteSet(rowsOf[r])
  <2> DEFINE f == [c \in counted(r) |-> RowOf(r, c)]
  <2>1. IsFiniteSet(counted(r))
    BY <1>1, CasesFinite, FS_Subset
  <2>2. rowsOf[r] = { f[c] : c \in counted(r) } /\ DOMAIN f = counted(r)
    OBVIOUS
  <2> HIDE DEF f, rowsOf, counted
  <2> QED
    BY <2>1, <2>2, FiniteImage
<1>3. ReadTestHistory(db, cutoff) = UNION { rowsOf[r] : r \in runs }
  BY DEF ReadTestHistory, RowOf
<1>4. DOMAIN rowsOf = runs
  OBVIOUS
<1> HIDE DEF rowsOf, runs
<1>5. IsFiniteSet({ rowsOf[r] : r \in runs })
  BY <1>1, <1>4, FiniteImage
<1> QED
  BY <1>2, <1>3, <1>5, FS_UNION

\* A row that a scan reads has its place in the order of rows.
LEMMA RowsTyped ==
  ASSUME WholeInv, NEW cutoff, NEW x \in ReadTestHistory(db, cutoff)
  PROVE  x.eff \in Nat /\ x.run \in Nat /\ x.nr \in Nat /\ x.eff >= cutoff
<1>1. PICK r \in Latest(db) : \E c \in r.cases : r.eff >= cutoff /\ x = RowOf(r, c)
  BY RowsRead
<1>2. PICK c \in r.cases : x = RowOf(r, c)
  BY <1>1
<1>3. r \in db.runs /\ x.eff = r.eff /\ x.run = r.id /\ x.nr = c.nr
  BY <1>2 DEF Latest, RowOf
<1>4. c.nr \in Nat
  BY <1>3, CasesFinite
<1>5. r.eff \in Nat /\ r.id \in Nat
  BY <1>3, DetectiveAssumption DEF WholeInv, HistoryTyped, StoreTyped, DbTyped, RunTyped
<1> QED
  BY <1>1, <1>3, <1>4, <1>5

\* Of rows there are, one comes first.
LEMMA FirstRow ==
  ASSUME NEW P, P # {}, \A x \in P : x.eff \in Nat /\ x.run \in Nat /\ x.nr \in Nat
  PROVE  FirstOf(P) \in P
<1> DEFINE moments == { x.eff : x \in P }
<1>1. moments \in SUBSET Nat /\ moments # {}
  OBVIOUS
<1>2. PICK e \in moments : \A o \in moments : e <= o
  BY <1>1, Least
<1> DEFINE runs == { x.run : x \in { y \in P : y.eff = e } }
<1>3. runs \in SUBSET Nat /\ runs # {}
  OBVIOUS
<1>4. PICK n \in runs : \A o \in runs : n <= o
  BY <1>3, Least
<1> DEFINE places == { x.nr : x \in { y \in P : y.eff = e /\ y.run = n } }
<1>5. places \in SUBSET Nat /\ places # {}
  OBVIOUS
<1>6. PICK m \in places : \A o \in places : m <= o
  BY <1>5, Least
<1>7. PICK x \in P : x.eff = e /\ x.run = n /\ x.nr = m
  OBVIOUS
<1>8. ASSUME NEW y \in P PROVE ~Earlier(y, x)
  <2>1. e <= y.eff /\ (y.eff = e => n <= y.run) /\ (y.eff = e /\ y.run = n => m <= y.nr)
    BY <1>2, <1>4, <1>6
  <2>2. /\ y.eff \in Nat /\ y.run \in Nat /\ y.nr \in Nat
        /\ x.eff \in Nat /\ x.run \in Nat /\ x.nr \in Nat
    OBVIOUS
  <2> QED
    BY <1>7, <2>1, <2>2 DEF Earlier
<1> QED
  BY <1>8 DEF FirstOf

\* The executions of a window.
Window(cutoff) == { e \in DOMAIN AsBook : e[2] >= cutoff }

\* A test's rows, and its outcomes, that have one of the counted statuses.
CountedRows(cutoff, k, S) ==
  { x \in ReadTestHistory(db, cutoff) : MakeTestKey(x.ident) = k /\ x.status \in S }
CountedOutcomes(cutoff, k, S) ==
  { o \in Book!Outcomes(Window(cutoff), k) : o[2].status \in S }

\* As many rows of a test have one of the counted statuses as outcomes of executions have.
LEMMA CountsAgree ==
  ASSUME BookInv, NEW cutoff \in Int, NEW k, NEW F, "skipped" \notin F
  PROVE  /\ IsFiniteSet(CountedRows(cutoff, k, F))
         /\ Cardinality(CountedOutcomes(cutoff, k, F)) = Cardinality(CountedRows(cutoff, k, F))
         /\ CountedRows(cutoff, k, F) # {} <=> CountedOutcomes(cutoff, k, F) # {}
<1> DEFINE rows == ReadTestHistory(db, cutoff)
           R == { x \in rows : MakeTestKey(x.ident) = k /\ x.status \in F }
           W == Window(cutoff)
           O == { o \in Book!Outcomes(W, k) : o[2].status \in F }
           run(id) == CHOOSE r \in db.runs : r.id = id
           f == [x \in R |-> 
                        <<Execution(run(x.run)),
                          [nr |-> x.nr, ident |-> x.ident, status |-> x.status]>>]
<1>1. DbTyped(db) /\ Distinct(db)
  BY DEF BookInv, WholeInv, HistoryTyped, StoreTyped, StoreDistinct
<1>2. Latest(db) \subseteq db.runs
  BY DEF Latest
<1>0. DOMAIN AsBook = { <<r.file, r.eff>> : r \in db.runs }
  BY <1>1, AsBookIs, BookEntries
<1>3. \A r \in Latest(db) : Execution(r) \in DOMAIN AsBook /\ AsBook[Execution(r)] = r.cases
  <2>1. \A r \in Latest(db) : BookOf(db)[<<r.file, r.eff>>] = r.cases
    BY <1>1, BookEntries
  <2> QED
    BY <1>0, <1>2, <2>1, AsBookIs DEF Execution
<1>4. \A r \in db.runs : run(r.id) = r
  BY <1>1 DEF Distinct
<1> HIDE DEF run
<1>5. \A r \in db.runs : \A c \in r.cases : c = [nr |-> c.nr, ident |-> c.ident, status |-> c.status]
  BY CasesFinite DEF BookInv
<1>6. ASSUME NEW x \in R
      PROVE  \E r \in Latest(db) : \E c \in r.cases :
               /\ r.eff >= cutoff /\ MakeTestKey(c.ident) = k /\ c.status \in F
               /\ x = RowOf(r, c) /\ f[x] = <<Execution(r), c>>
  <2>a. PICK r \in Latest(db) : \E c \in r.cases : r.eff >= cutoff /\ x = RowOf(r, c)
    BY RowsRead
  <2>1. PICK c \in r.cases : r.eff >= cutoff /\ x = RowOf(r, c)
    BY <2>a
  <2>2. x.nr = c.nr /\ x.ident = c.ident /\ x.status = c.status /\ x.run = r.id
    BY <2>1 DEF RowOf
  <2>3. run(x.run) = r /\ [nr |-> x.nr, ident |-> x.ident, status |-> x.status] = c
    BY <1>2, <1>4, <1>5, <2>1, <2>2
  <2>4. f[x] = <<Execution(run(x.run)), [nr |-> x.nr, ident |-> x.ident, status |-> x.status]>>
    OBVIOUS
  <2>5. f[x] = <<Execution(r), c>>
    BY <2>3, <2>4
  <2> QED
    BY <2>1, <2>2, <2>5
<1>7. ASSUME NEW r \in Latest(db), NEW c \in r.cases, r.eff >= cutoff, MakeTestKey(c.ident) = k,
             c.status \in F
      PROVE  <<Execution(r), c>> \in O
  <2>1. Execution(r) \in W /\ Execution(r)[2] = r.eff
    BY <1>3, <1>7 DEF Execution, Window
  <2>2. c \in AsBook[Execution(r)] /\ c \in UNION { AsBook[x] : x \in W }
    BY <1>3, <2>1
  <2> HIDE DEF W
  <2> QED
    BY <1>7, <2>1, <2>2 DEF Book!Outcomes
<1>8. ASSUME NEW o \in O
      PROVE  \E r \in Latest(db) : \E c \in r.cases :
               /\ o = <<Execution(r), c>> /\ RowOf(r, c) \in R /\ f[RowOf(r, c)] = o
  <2>1. /\ o = <<o[1], o[2]>> /\ o[1] \in W /\ o[2] \in AsBook[o[1]]
        /\ MakeTestKey(o[2].ident) = k /\ o[2].status \in F
    BY DEF Book!Outcomes
  <2>2. PICK p \in db.runs : o[1] = <<p.file, p.eff>>
    BY <1>0, <2>1 DEF Window
  <2>3. PICK r \in Latest(db) : o[1] = Execution(r)
    BY <1>1, <2>2, LatestExists DEF Execution
  <2>4. o[2] \in r.cases /\ r.eff >= cutoff
    BY <1>3, <2>1, <2>3 DEF Window, Execution
  <2>5. RowOf(r, o[2]) \in rows
    BY <2>1, <2>4, RowsRead
  <2>6. RowOf(r, o[2]) \in R
    BY <2>1, <2>5 DEF RowOf
  <2>7. f[RowOf(r, o[2])] = <<Execution(r), o[2]>>
    BY <1>2, <1>4, <1>5, <2>4, <2>6 DEF RowOf
  <2> QED
    BY <2>1, <2>3, <2>4, <2>6, <2>7
<1>9. ASSUME NEW x \in R, NEW y \in R, f[x] = f[y] PROVE x = y
  <2>a. PICK r \in Latest(db) : \E c \in r.cases : x = RowOf(r, c) /\ f[x] = <<Execution(r), c>>
    BY <1>6
  <2>1. PICK c \in r.cases : x = RowOf(r, c) /\ f[x] = <<Execution(r), c>>
    BY <2>a
  <2>b. PICK q \in Latest(db) : \E e \in q.cases : y = RowOf(q, e) /\ f[y] = <<Execution(q), e>>
    BY <1>6
  <2>2. PICK e \in q.cases : y = RowOf(q, e) /\ f[y] = <<Execution(q), e>>
    BY <2>b
  <2>3. Execution(r) = Execution(q) /\ c = e
    BY <1>9, <2>1, <2>2
  <2>4. r = q
    BY <1>1, <2>3, LatestUnique DEF Execution
  <2> QED
    BY <2>1, <2>2, <2>3, <2>4
<1>10. DOMAIN f = R /\ f = [x \in R |-> f[x]]
  OBVIOUS
<1>11. IsFiniteSet(R)
  BY RowsFinite, FS_Subset DEF BookInv
<1> HIDE DEF f, R, O
<1>12. f \in [R -> O]
  <2>1. \A x \in R : f[x] \in O
    BY <1>6, <1>7
  <2> QED
    BY <1>10, <2>1
<1>13. f \in Bijection(R, O)
  BY <1>8, <1>9, <1>10, <1>12 DEF Bijection, Injection, Surjection, IsInjective
<1>14. Cardinality(O) = Cardinality(R)
  BY <1>11, <1>13, FS_Bijection DEF ExistsBijection
<1>15. R # {} <=> O # {}
  BY <1>6, <1>7, <1>8
<1> QED
  BY <1>11, <1>14, <1>15 DEF R, O, CountedRows, CountedOutcomes

\* The verdicts a scan keeps, told test by test, are the classification of its window.
LEMMA ScanSeesBook ==
  ASSUME BookInv, NEW now \in Int, NEW t, t.window \in Int, t.minFails \in Int
  PROVE  LET vs == ScanVerdicts(db, now, t)
         IN  /\ AsBoard(vs) = Book!Classification(Window(now - t.window),
                                                 FailStatuses(t.includeErrors), t.minFails)
             /\ vs # {} => DOMAIN AsBoard(vs) # {}
<1> DEFINE cutoff == now - t.window
           F == FailStatuses(t.includeErrors)
           rows == ReadTestHistory(db, cutoff)
           W == Window(cutoff)
           keys == { MakeTestKey(x.ident) : x \in rows }
           R(k, S) == CountedRows(cutoff, k, S)
           O(k, S) == CountedOutcomes(cutoff, k, S)
           V(k) == VerdictOf({ x \in rows : MakeTestKey(x.ident) = k }, t)
           passes(k) == Cardinality(R(k, {"passed"}))
           fails(k) == Cardinality(R(k, F))
           entry(k) == [passes |-> passes(k), fails |-> fails(k),
                        status |-> VerdictStatus(passes(k), fails(k), t.minFails)]
           vs == ScanVerdicts(db, now, t)
           seen == Book!Classification(W, F, t.minFails)
           tests == { k \in keys : passes(k) + fails(k) > 0 }
<1>0. cutoff \in Int /\ "skipped" \notin F
  BY DEF FailStatuses
<1>a. ASSUME NEW k, NEW S, "skipped" \notin S
      PROVE  /\ IsFiniteSet(R(k, S)) /\ Cardinality(O(k, S)) = Cardinality(R(k, S))
             /\ R(k, S) # {} <=> O(k, S) # {}
  BY <1>0, <1>a, CountsAgree
<1>b. ASSUME NEW k, NEW S
      PROVE  R(k, S) = { x \in rows : MakeTestKey(x.ident) = k /\ x.status \in S }
  BY DEF CountedRows
<1>c. ASSUME NEW k, NEW S
      PROVE  O(k, S) = { o \in Book!Outcomes(W, k) : o[2].status \in S }
  BY DEF CountedOutcomes
<1> HIDE DEF R, O
<1>1. ASSUME NEW k
      PROVE  /\ V(k).passes = passes(k) /\ V(k).fails = fails(k)
             /\ V(k).status = VerdictStatus(passes(k), fails(k), t.minFails)
             /\ k \in keys => V(k).key = k
  <2> DEFINE group == { x \in rows : MakeTestKey(x.ident) = k }
             one == FirstOf(group)
  <2>1. /\ { x \in group : x.status = "passed" } = R(k, {"passed"})
        /\ { x \in group : x.status \in F } = R(k, F)
    BY <1>b
  <2>2. k \in keys => MakeTestKey(one.ident) = k
    <3>1. k \in keys => group # {}
      OBVIOUS
    <3>2. k \in keys => one \in group
      <4>1. \A x \in group : x.eff \in Nat /\ x.run \in Nat /\ x.nr \in Nat
        BY <1>0, RowsTyped DEF BookInv
      <4> HIDE DEF group
      <4> QED
        BY <3>1, <4>1, FirstRow
    <3> HIDE DEF one
    <3> QED
      BY <3>2
  <2> HIDE DEF rows, R, one
  <2>3. /\ V(k).passes = Cardinality({ x \in group : x.status = "passed" })
        /\ V(k).fails = Cardinality({ x \in group : x.status \in F })
        /\ V(k).status = VerdictStatus(Cardinality({ x \in group : x.status = "passed" }),
                                       Cardinality({ x \in group : x.status \in F }), t.minFails)
        /\ V(k).key = MakeTestKey(one.ident)
    BY DEF VerdictOf, one
  <2> QED
    BY <2>1, <2>2, <2>3
<1>2. ASSUME NEW k
      PROVE  /\ passes(k) \in Nat /\ (passes(k) > 0 <=> R(k, {"passed"}) # {})
             /\ fails(k) \in Nat /\ (fails(k) > 0 <=> R(k, F) # {})
  <2>1. IsFiniteSet(R(k, {"passed"})) /\ IsFiniteSet(R(k, F))
    BY <1>0, <1>a
  <2> HIDE DEF R
  <2>2. passes(k) \in Nat /\ fails(k) \in Nat
    BY <2>1, FS_CardinalityType
  <2>3. (passes(k) = 0 <=> R(k, {"passed"}) = {}) /\ (fails(k) = 0 <=> R(k, F) = {})
    BY <2>1, FS_EmptySet
  <2> QED
    BY <2>2, <2>3
<1>3. ASSUME NEW k
      PROVE  /\ Book!Cardinality({ o \in Book!Outcomes(W, k) : o[2].status = "passed" }) = passes(k)
             /\ Book!Cardinality({ o \in Book!Outcomes(W, k) : o[2].status \in F }) = fails(k)
  <2> HIDE DEF W, F
  <2>1. { o \in Book!Outcomes(W, k) : o[2].status = "passed" } = O(k, {"passed"})
    BY <1>c
  <2>2. { o \in Book!Outcomes(W, k) : o[2].status \in F } = O(k, F)
    BY <1>c
  <2>3. Cardinality(O(k, {"passed"})) = passes(k) /\ Cardinality(O(k, F)) = fails(k)
    BY <1>0, <1>a
  <2> QED
    BY <2>1, <2>2, <2>3, SameCount
<1>4. ASSUME NEW k PROVE k \in DOMAIN seen <=> k \in tests
  <2> DEFINE S == F \cup {"passed"}
  <2>1. k \in DOMAIN seen <=> \E e \in W : \E c \in AsBook[e] :
                                c.status \in S /\ MakeTestKey(c.ident) = k
    BY DEF Book!Classification
  <2>2. k \in DOMAIN seen <=> O(k, S) # {}
    <3> HIDE DEF W, S, seen
    <3>1. ASSUME NEW e \in W, NEW c \in AsBook[e], c.status \in S, MakeTestKey(c.ident) = k
          PROVE  <<e, c>> \in O(k, S)
      <4>1. c \in UNION { AsBook[x] : x \in W }
        OBVIOUS
      <4> QED
        BY <1>c, <3>1, <4>1 DEF Book!Outcomes
    <3>2. ASSUME NEW o \in O(k, S)
          PROVE  /\ o[1] \in W /\ o[2] \in AsBook[o[1]] /\ o[2].status \in S
                 /\ MakeTestKey(o[2].ident) = k
      BY <1>c DEF Book!Outcomes
    <3> QED
      BY <2>1, <3>1, <3>2
  <2>3. "skipped" \notin S
    BY <1>0
  <2>4. R(k, S) # {} <=> R(k, {"passed"}) # {} \/ R(k, F) # {}
    BY <1>b
  <2>5. R(k, S) # {} => k \in keys
    BY <1>b
  <2>6. /\ passes(k) \in Nat /\ (passes(k) > 0 <=> R(k, {"passed"}) # {})
        /\ fails(k) \in Nat /\ (fails(k) > 0 <=> R(k, F) # {})
    BY <1>2
  <2> HIDE DEF passes, fails, keys, seen, F, S
  <2>7. passes(k) + fails(k) > 0 <=> (passes(k) > 0 \/ fails(k) > 0)
    BY <2>6
  <2>8. passes(k) + fails(k) > 0 <=> R(k, S) # {}
    BY <2>4, <2>6, <2>7
  <2>9. R(k, S) # {} <=> O(k, S) # {}
    BY <1>a, <2>3
  <2> QED
    BY <2>2, <2>5, <2>8, <2>9
<1>5. vs = { V(k) : k \in tests }
  <2>1. vs = { v \in { V(k) : k \in keys } : v.passes + v.fails > 0 }
    BY DEF ScanVerdicts, ComputeVerdicts
  <2> HIDE DEF vs, V, passes, fails, keys
  <2> QED
    BY <1>1, <2>1
<1>6. \A k \in tests : V(k).key = k
  BY <1>1
<1> HIDE DEF V, passes, fails, keys, tests
<1>7. { v.key : v \in { V(k) : k \in tests } } = tests
  BY <1>6
<1>8. ASSUME NEW k \in tests
      PROVE  [passes |-> (CHOOSE v \in { V(j) : j \in tests } : v.key = k).passes,
              fails |-> (CHOOSE v \in { V(j) : j \in tests } : v.key = k).fails,
              status |-> (CHOOSE v \in { V(j) : j \in tests } : v.key = k).status] = entry(k)
  <2> DEFINE v == CHOOSE v \in { V(j) : j \in tests } : v.key = k
  <2>1. v \in { V(j) : j \in tests } /\ v.key = k
    BY <1>6
  <2> HIDE DEF v
  <2>2. v = V(k)
    BY <1>6, <2>1
  <2>3. v.passes = passes(k) /\ v.fails = fails(k)
        /\ v.status = VerdictStatus(passes(k), fails(k), t.minFails)
    BY <1>1, <2>2
  <2> QED
    BY <2>3 DEF v
<1>9. AsBoard(vs) = [k \in tests |-> entry(k)]
  <2> HIDE DEF vs, entry
  <2> QED
    BY <1>5, <1>7, <1>8 DEF AsBoard
<1>10. ASSUME NEW k \in DOMAIN seen PROVE seen[k] = entry(k)
  <2>1. seen[k] = Book!Tally(W, k, F, t.minFails)
    BY DEF Book!Classification
  <2>2. Book!Tally(W, k, F, t.minFails)
          = [passes |-> passes(k), fails |-> fails(k),
             status |-> CASE fails(k) < t.minFails -> "stable"
                          [] fails(k) >= t.minFails /\ passes(k) = 0 -> "consistently_failing"
                          [] fails(k) >= t.minFails /\ passes(k) > 0 -> "flaky"]
    <3> HIDE DEF W, F
    <3> QED
      BY <1>3 DEF Book!Tally
  <2>3. passes(k) \in Nat /\ fails(k) \in Nat
    BY <1>2
  <2> QED
    BY <2>1, <2>2, <2>3 DEF VerdictStatus
<1>11. seen = [k \in DOMAIN seen |-> seen[k]]
  BY DEF Book!Classification
<1>12. DOMAIN seen = tests
  BY <1>4
<1> HIDE DEF seen, entry, vs
<1>13. AsBoard(vs) = seen
  BY <1>9, <1>10, <1>11, <1>12
<1>14. vs # {} => DOMAIN AsBoard(vs) # {}
  BY <1>5, <1>9
<1> QED
  BY <1>13, <1>14 DEF seen, vs

------------------------------------------------------------------------------
(* The steps.                                                                *)

PendingOf(sc) ==
  [s \in Scanner |-> IF sc[s].pc \in {"read", "prev"} THEN {AsBoard(sc[s].found)} ELSE {}]

\* What changes neither the rows, nor the verdicts, nor what is about to be published, is a
\* stutter of the book.
LEMMA Stutters ==
  ASSUME db' = db, verdicts' = verdicts, PendingOf(scan') = PendingOf(scan)
  PROVE  UNCHANGED Book!bookVars
<1>1. UNCHANGED <<AsBook, AsBoard(verdicts)>>
  BY DEF AsBook, AsBoard
<1> QED
  BY <1>1 DEF Book!bookVars, PendingOf

\* Rows that stay while others come are a write of executions.
LEMMA Writes ==
  ASSUME BookInv, BookInv', UNCHANGED <<scan, verdicts>>,
         \A r \in db.runs : \E q \in db'.runs : q.file = r.file /\ q.eff = r.eff
  PROVE  Book!Write
<1>1. DbTyped(db) /\ Distinct(db) /\ DbTyped(db') /\ Distinct(db')
  BY DEF BookInv, WholeInv, HistoryTyped, StoreTyped, StoreDistinct
<1>2. DOMAIN AsBook \subseteq DOMAIN AsBook'
  BY <1>1, BookGrows
<1> QED
  BY <1>2 DEF Book!Write, AsBoard

\* A prune forgets what is before its cutoff.
LEMMA Forgets ==
  ASSUME BookInv, BookInv', NEW c \in 1..MaxClock, Prune(c)
  PROVE  Book!Forget
<1>1. DbTyped(db) /\ Distinct(db) /\ DbTyped(db') /\ Distinct(db')
  BY DEF BookInv, WholeInv, HistoryTyped, StoreTyped, StoreDistinct
<1>2. db'.runs = { r \in db.runs : r.eff >= c } /\ UNCHANGED <<scan, verdicts>>
  BY <1>1, PrunedDb DEF Prune, scanVars
<1>3. c \in Int /\ c \in 0..MaxClock + 1
  BY DetectiveAssumption
<1>4. AsBook' = [e \in { x \in DOMAIN AsBook : x[2] >= c } |-> AsBook[e]]
  BY <1>1, <1>2, <1>3, BookForgets
<1> QED
  BY <1>2, <1>3, <1>4 DEF Book!Forget, AsBoard

\* A scan's read looks at the window of its moment, or finds nothing there.
LEMMA Looks ==
  ASSUME BookInv, NEW s \in Scanner, NEW t, NEW u \in Tunables, ValidateTunables(t),
         t.window = u.window, t.minFails = u.minFails, ScanRead(s, t)
  PROVE  Book!Look(s) \/ UNCHANGED Book!bookVars
<1> DEFINE found == ScanVerdicts(db, clock, t)
           F == FailStatuses(t.includeErrors)
           seen == Book!Classification(Window(clock - t.window), F, t.minFails)
<1>1. t.window \in Int /\ t.minFails \in Int /\ clock \in 0..MaxClock /\ MaxClock \in Nat
  BY DetectiveAssumption DEF BookInv, WholeInv, HistoryTyped
<1>2. scan[s].pc = "idle" /\ UNCHANGED <<db, verdicts>>
  BY DEF ScanRead, historyVars
<1>3. CASE found = {}
  <2>1. UNCHANGED scan
    BY <1>3 DEF ScanRead
  <2> QED
    BY <1>2, <2>1, Stutters
<1>4. CASE found # {}
  <2>1. scan' = [scan EXCEPT ![s] = [Idle EXCEPT !.pc = "read", !.found = found]]
    BY <1>4 DEF ScanRead
  <2>2. AsBoard(found) = seen /\ DOMAIN seen # {}
    BY <1>1, <1>4, ScanSeesBook
  <2> HIDE DEF found
  <2>3. /\ scan'[s].pc = "read" /\ scan'[s].found = found
        /\ \A o \in Scanner \ {s} : scan'[o] = scan[o]
    BY <2>1 DEF BookInv, ScanInv, ScansTyped, Idle
  <2>4. PendingOf(scan)[s] = {}
    BY <1>2 DEF PendingOf
  <2>5. PendingOf(scan') = [PendingOf(scan) EXCEPT ![s] = {seen}]
    <3>1. PendingOf(scan')[s] = {seen}
      BY <2>2, <2>3 DEF PendingOf
    <3>2. \A o \in Scanner \ {s} : PendingOf(scan')[o] = PendingOf(scan)[o]
      BY <2>3 DEF PendingOf
    <3>3. PendingOf(scan') = [o \in Scanner |-> PendingOf(scan')[o]]
      BY DEF PendingOf
    <3>4. PendingOf(scan) = [o \in Scanner |-> PendingOf(scan)[o]]
      BY DEF PendingOf
    <3> HIDE DEF seen
    <3> QED
      BY <3>1, <3>2, <3>3, <3>4
  <2>6. UNCHANGED <<AsBook, AsBoard(verdicts)>>
    BY <1>2 DEF AsBook, AsBoard
  <2>7. /\ t.window \in { x.window : x \in { y \in Tunables : ValidateTunables(y) } }
        /\ t.minFails \in { x.minFails : x \in { y \in Tunables : ValidateTunables(y) } }
    BY DEF ValidateTunables
  <2>8. F \in {{"failed"}, {"failed", "error"}}
    BY DEF FailStatuses
  <2>9. seen = Book!Classification({ e \in DOMAIN AsBook : e[2] >= clock - t.window }, F, t.minFails)
    BY DEF Window
  <2> HIDE DEF seen, F
  <2> QED
    <3> DEFINE view(now, w, m, failing) ==
                 Book!Classification({ e \in DOMAIN AsBook : e[2] >= now - w }, failing, m)
    <3>1. PICK now \in 0..MaxClock,
               w \in { x.window : x \in { y \in Tunables : ValidateTunables(y) } },
               m \in { x.minFails : x \in { y \in Tunables : ValidateTunables(y) } },
               failing \in {{"failed"}, {"failed", "error"}} : seen = view(now, w, m, failing)
      BY <1>1, <2>7, <2>8, <2>9
    <3>2. /\ DOMAIN view(now, w, m, failing) # {}
          /\ PendingOf(scan') = [PendingOf(scan) EXCEPT ![s] = {view(now, w, m, failing)}]
      BY <2>2, <2>5, <3>1
    <3> HIDE DEF view
    <3>3. Book!Look(s)
      <4>1. PendingOf(scan)[s] = {} /\ UNCHANGED <<AsBook, AsBoard(verdicts)>>
        BY <2>4, <2>6
      <4>2. \E n \in 0..MaxClock,
               w2 \in { x.window : x \in { y \in Tunables : ValidateTunables(y) } },
               m2 \in { x.minFails : x \in { y \in Tunables : ValidateTunables(y) } },
               f2 \in {{"failed"}, {"failed", "error"}} :
              /\ DOMAIN view(n, w2, m2, f2) # {}
              /\ PendingOf(scan') = [PendingOf(scan) EXCEPT ![s] = {view(n, w2, m2, f2)}]
        BY <3>2
      <4> QED
        BY <4>1, <4>2 DEF Book!Look, PendingOf, view
    <3> QED
      BY <3>3
<1> QED
  BY <1>3, <1>4

\* What a scan read it publishes, all of it, at once, or not at all.
LEMMA Publishes ==
  ASSUME BookInv, NEW s \in Scanner, ScanStep(s) \/ CrashScan(s)
  PROVE  Book!Publish(s) \/ Book!Abandon(s) \/ UNCHANGED Book!bookVars
<1> DEFINE Emptied == [PendingOf(scan) EXCEPT ![s] = {}]
<1>1. PendingOf(scan) = [o \in Scanner |-> PendingOf(scan)[o]]
      /\ PendingOf(scan') = [o \in Scanner |-> PendingOf(scan')[o]]
  BY DEF PendingOf
<1>2. DOMAIN scan = Scanner /\ DOMAIN scan[s] = {"pc", "found", "prev"}
  BY DEF BookInv, ScanInv, ScansTyped
<1>3. ASSUME \A o \in Scanner \ {s} : scan'[o] = scan[o],
             scan'[s].pc \notin {"read", "prev"}
      PROVE  PendingOf(scan') = Emptied
  <2>1. PendingOf(scan')[s] = {} /\ \A o \in Scanner \ {s} : PendingOf(scan')[o] = PendingOf(scan)[o]
    BY <1>3 DEF PendingOf
  <2> QED
    BY <1>1, <2>1
<1>4. ASSUME \A o \in Scanner \ {s} : scan'[o] = scan[o],
             \/ /\ scan[s].pc \notin {"read", "prev"} /\ scan'[s].pc \notin {"read", "prev"}
             \/ /\ scan[s].pc \in {"read", "prev"} /\ scan'[s].pc \in {"read", "prev"}
                /\ scan'[s].found = scan[s].found
      PROVE  PendingOf(scan') = PendingOf(scan)
  <2>1. PendingOf(scan')[s] = PendingOf(scan)[s]
        /\ \A o \in Scanner \ {s} : PendingOf(scan')[o] = PendingOf(scan)[o]
    BY <1>4 DEF PendingOf
  <2> QED
    BY <1>1, <2>1
<1>5. CASE ReadFlakyKeys(s)
  <2>1. /\ scan[s].pc = "read" /\ scan'[s].pc = "prev" /\ scan'[s].found = scan[s].found
        /\ \A o \in Scanner \ {s} : scan'[o] = scan[o]
        /\ UNCHANGED <<db, verdicts>>
    BY <1>2, <1>5 DEF ReadFlakyKeys, historyVars
  <2> QED
    BY <1>4, <2>1, Stutters
<1>6. CASE ReplaceVerdicts(s)
  <2>1. /\ scan[s].pc = "prev" /\ scan'[s].pc = "replaced" /\ verdicts' = scan[s].found
        /\ \A o \in Scanner \ {s} : scan'[o] = scan[o]
        /\ UNCHANGED db
    BY <1>2, <1>6 DEF ReplaceVerdicts, historyVars
  <2>2. AsBoard(verdicts') \in PendingOf(scan)[s]
    BY <2>1 DEF PendingOf
  <2>3. PendingOf(scan') = Emptied
    BY <1>3, <2>1
  <2>4. UNCHANGED AsBook
    BY <2>1 DEF AsBook
  <2> QED
    BY <2>2, <2>3, <2>4 DEF Book!Publish, PendingOf, AsBoard
<1>7. CASE RecordScanRun(s) \/ EmitScan(s)
  <2>1. /\ scan[s].pc \in {"replaced", "recorded"} /\ scan'[s].pc \in {"recorded", "idle"}
        /\ \A o \in Scanner \ {s} : scan'[o] = scan[o]
        /\ UNCHANGED <<db, verdicts>>
    BY <1>2, <1>7 DEF RecordScanRun, EmitScan, Idle, historyVars
  <2> QED
    BY <1>4, <2>1, Stutters
<1>8. CASE CrashScan(s)
  <2>1. /\ scan'[s].pc = "idle" /\ \A o \in Scanner \ {s} : scan'[o] = scan[o]
        /\ UNCHANGED <<db, verdicts>>
    BY <1>2, <1>8 DEF CrashScan, Idle, historyVars
  <2>2. PendingOf(scan') = Emptied
    BY <1>3, <2>1
  <2>3. UNCHANGED <<AsBook, AsBoard(verdicts)>>
    BY <2>1 DEF AsBook, AsBoard
  <2> QED
    BY <2>2, <2>3 DEF Book!Abandon, PendingOf
<1> QED
  BY <1>5, <1>6, <1>7, <1>8 DEF ScanStep

\* Every step of the history and the scans is a step of the book, or none.
LEMMA StepsImplement ==
  ASSUME BookInv, BookInv', [Next]_vars
  PROVE  [Book!BookNext]_(Book!bookVars)
<1>1. ASSUME UNCHANGED <<db, scan, verdicts>> PROVE UNCHANGED Book!bookVars
  BY <1>1, Stutters
<1>2. ASSUME UNCHANGED <<scan, verdicts>>,
             \A r \in db.runs : \E q \in db'.runs : q.file = r.file /\ q.eff = r.eff
      PROVE  Book!BookNext
  BY <1>2, Writes DEF Book!BookNext
<1>3. HistoryTyped /\ StoreDistinct
  BY DEF BookInv, WholeInv
<1>4. ASSUME NEW f \in File, IngestOne(f) PROVE Book!BookNext
  <2>1. db.runs \subseteq db'.runs /\ UNCHANGED <<scan, verdicts>>
    BY <1>3, <1>4, IngestTyped DEF IngestOne, scanVars
  <2> QED
    BY <1>2, <2>1
<1>5. ASSUME EndBatch PROVE [Book!BookNext]_(Book!bookVars)
  <2>1. /\ UNCHANGED <<scan, verdicts>>
        /\ UNCHANGED db \/ (txn.by = "cli" /\ db' = txn.db)
    BY <1>5 DEF EndBatch, CommitOf, scanVars
  <2>2. CASE UNCHANGED db
    BY <1>1, <2>1, <2>2
  <2>3. CASE txn.by = "cli" /\ db' = txn.db
    <3>1. db.runs \subseteq db'.runs
      BY <1>3, <2>3 DEF StoreDistinct
    <3> QED
      BY <1>2, <2>1, <3>1
  <2> QED
    BY <2>1, <2>2, <2>3
<1>6. ASSUME NEW w \in Feeder, FeedCases(w) PROVE Book!BookNext
  <2>1. /\ db'.runs = { Filled(r, feeder[w].run, BurnInCases(feeder[w].test)) : r \in Base.runs }
        /\ \A r \in Base.runs :
             LET q == Filled(r, feeder[w].run, BurnInCases(feeder[w].test))
             IN  q.file = r.file /\ q.eff = r.eff
    BY <1>3, <1>6, CasesTyped
  <2>2. \A r \in db.runs : \E q \in db'.runs : q.file = r.file /\ q.eff = r.eff
    BY <1>3, <2>1, BaseDistinct
  <2>3. UNCHANGED <<scan, verdicts>>
    BY <1>6 DEF FeedCases, scanVars
  <2> QED
    BY <1>2, <2>2, <2>3
<1>7. ASSUME NEW c \in 1..MaxClock, Prune(c) PROVE Book!BookNext
  BY <1>7, Forgets DEF Book!BookNext
<1>8. ASSUME NEW s \in Scanner, Book!Look(s) \/ Book!Publish(s) \/ Book!Abandon(s) PROVE Book!BookNext
  BY <1>8 DEF Book!BookNext
<1>9. ASSUME NEW t \in Tunables, HandScan(t) PROVE [Book!BookNext]_(Book!bookVars)
  <2>1. ScanRead(Hand, t) /\ ValidateTunables(t) /\ Hand \in Scanner
    BY <1>9 DEF HandScan, ScanRead, Scanner
  <2> QED
    BY <1>8, <2>1, Looks
<1>10. ASSUME CronScan PROVE [Book!BookNext]_(Book!bookVars)
  <2>1. ScanRead(Cron, conf) /\ ValidateTunables(conf) /\ Cron \in Scanner
    BY <1>10 DEF CronScan, ScanRead, Scanner
  <2>2. PICK u \in Tunables : conf = [u EXCEPT !.includeErrors = conf.includeErrors]
    BY DEF BookInv, ConfTyped
  <2>3. u = [window |-> u.window, minFails |-> u.minFails, includeErrors |-> u.includeErrors]
    BY DetectiveAssumption
  <2>4. conf.window = u.window /\ conf.minFails = u.minFails
    BY <2>2, <2>3
  <2> QED
    BY <1>8, <2>1, <2>4, Looks
<1>11. ASSUME NEW s \in Scanner, ScanStep(s) \/ CrashScan(s) PROVE [Book!BookNext]_(Book!bookVars)
  BY <1>8, <1>11, Publishes
<1>12. ASSUME Tick \/ StartBatch \/ BatchFile \/ CrashBatch \/ CrashGateway
       PROVE  UNCHANGED Book!bookVars
  BY <1>1, <1>12 DEF Tick, StartBatch, BatchFile, CrashBatch, CrashGateway, scanVars
<1>13. ASSUME NEW f, LeaveReport(f) PROVE UNCHANGED Book!bookVars
  BY <1>1, <1>13 DEF LeaveReport, scanVars
<1>14. ASSUME NEW w \in Feeder, BeginFeed(w) \/ FeedRun(w) \/ FeedLocked(w) \/ EndFeed(w)
       PROVE  UNCHANGED Book!bookVars
  BY <1>1, <1>14 DEF BeginFeed, FeedRun, InsertRepeat, FeedLocked, EndFeed, scanVars
<1>15. ASSUME NEW t, InstallCron(t) \/ EditConfig(t) \/ ScanRefused(t)
       PROVE  UNCHANGED Book!bookVars
  BY <1>1, <1>15 DEF InstallCron, EditConfig, ScanRefused, historyVars, vars, scanVars
<1>16. ASSUME UNCHANGED vars PROVE UNCHANGED Book!bookVars
  BY <1>1, <1>16 DEF vars, historyVars, scanVars
<1> QED
  BY <1>4, <1>5, <1>6, <1>7, <1>9, <1>10, <1>11, <1>12, <1>13, <1>14, <1>15, <1>16 DEF Next

\* The run history and the detective implement the book of executions and its board, for any
\* reports, threads, settings and interleavings: executions are added or pruned and never lost, an
\* execution counts once however often its report was ingested, and a board is always the whole
\* classification of one moment's window.
THEOREM HistoryIsABook == Spec => ImplementsBook
<1>1. Init => Book!BookInit
  <2> SUFFICES ASSUME Init PROVE Book!BookInit
    OBVIOUS
  <2>1. AsBook = <<>>
    <3>1. Latest(db) = {}
      BY DEF Init, EmptyDb, Latest
    <3>2. AsBook = [e \in {} |-> (CHOOSE r \in Latest(db) : <<r.file, r.eff>> = e).cases]
      BY <3>1, AsBookIs DEF BookOf
    <3> QED
      BY <3>2
  <2>2. AsBoard(verdicts) = <<>>
    BY DEF Init, AsBoard
  <2>3. PendingOf(scan) = [s \in Scanner |-> {}]
    BY DEF Init, Idle, PendingOf
  <2> QED
    BY <2>1, <2>2, <2>3 DEF Book!BookInit, PendingOf
<1>2. BookInv /\ BookInv' /\ [Next]_vars => [Book!BookNext]_(Book!bookVars)
  BY StepsImplement
<1> QED
  BY <1>1, <1>2, BookInvariance, PTL DEF Spec, ImplementsBook, Book!BookSpec

------------------------------------------------------------------------------
(* The tools.                                                                *)

\* A text behind another keeps its last part; one of a single part is the name of the whole.
LEMMA Joined ==
  ASSUME NEW S, NEW p \in Seq(S), NEW q \in Seq(S), q # <<>>
  PROVE  /\ (p \o q)[Len(p \o q)] = q[Len(q)]
         /\ Len(q) = 1 => NameOf(p \o q) = q /\ LeftOf(p \o q) = p
<1>1. Len(q) \in Nat /\ Len(q) >= 1 /\ Len(p) \in Nat
  OBVIOUS
<1>2. /\ p \o q \in Seq(S) /\ Len(p \o q) = Len(p) + Len(q)
      /\ \A i \in 1..Len(p) + Len(q) :
           (p \o q)[i] = IF i <= Len(p) THEN p[i] ELSE q[i - Len(p)]
  BY <1>1, ConcatProperties
<1>3. (p \o q)[Len(p) + Len(q)] = q[Len(q)]
  <2>1. Len(p) + Len(q) \in 1..Len(p) + Len(q) /\ ~(Len(p) + Len(q) <= Len(p))
        /\ Len(p) + Len(q) - Len(p) = Len(q)
    BY <1>1
  <2> QED
    BY <1>2, <2>1
<1>4. ASSUME Len(q) = 1 PROVE NameOf(p \o q) = q
  <2>1. NameOf(p \o q) = <<q[1]>>
    BY <1>2, <1>3, <1>4 DEF NameOf
  <2> QED
    BY <1>1, <1>4, <2>1
<1>5. ASSUME Len(q) = 1 PROVE LeftOf(p \o q) = p
  <2> DEFINE left == SubSeq(p \o q, 1, Len(p))
  <2>1. LeftOf(p \o q) = left
    BY <1>1, <1>2, <1>5 DEF LeftOf
  <2>2. \A i \in 1..Len(p) : (p \o q)[i] = p[i] /\ p[i] \in S
    BY <1>1, <1>2
  <2>3. /\ left \in Seq(S) /\ Len(left) = Len(p)
        /\ \A i \in 1..Len(p) : left[i] = (p \o q)[i]
    BY <1>1, <2>2
  <2> HIDE DEF left
  <2>4. left = p
    BY <2>2, <2>3, SeqEqual
  <2> QED
    BY <2>1, <2>4
<1> QED
  BY <1>2, <1>3, <1>4, <1>5

\* A key ends in the last part of the name.
LEMMA KeyEnds ==
  ASSUME NEW i, WellNamed(i)
  PROVE  MakeTestKey(i)[Len(MakeTestKey(i))] = i.name[Len(i.name)]
<1> DEFINE Part == STRING \cup {""}
<1>1. \A text \in Text : text \in Seq(Part) /\ text # <<>>
  BY SeqMonotonic DEF Text
<1>2. Empty \in Seq(Part)
  BY DEF Empty
<1> HIDE DEF Part
<1>3. Namespace(i) = Empty \/ (Namespace(i) \in {i.cls, i.path} /\ Namespace(i) # None)
  BY DEF Namespace
<1>4. Namespace(i) \in Seq(Part)
  BY <1>1, <1>2, <1>3 DEF WellNamed
<1>5. i.name \in Seq(Part) /\ i.name # <<>>
  BY <1>1 DEF WellNamed
<1> QED
  BY <1>4, <1>5, Joined DEF MakeTestKey

\* The history has finitely many rows, of identities, and a scan reads some of them.
LEMMA HistoryFinite ==
  ASSUME WholeInv
  PROVE  /\ IsFiniteSet(HistoryRows(db))
         /\ \A x \in HistoryRows(db) : WellNamed(x.ident)
         /\ \A cutoff : ReadTestHistory(db, cutoff) \subseteq HistoryRows(db)
<1> DEFINE rowsOf == [r \in db.runs |-> { RowOf(r, c) : c \in r.cases }]
<1>1. IsFiniteSet(db.runs)
  BY DEF WholeInv, HistoryTyped, StoreTyped, DbTyped
<1>2. ASSUME NEW r \in db.runs PROVE IsFiniteSet(rowsOf[r])
  <2> DEFINE f == [c \in r.cases |-> RowOf(r, c)]
  <2>1. rowsOf[r] = { f[c] : c \in r.cases } /\ DOMAIN f = r.cases
    OBVIOUS
  <2> HIDE DEF f, rowsOf
  <2> QED
    BY <2>1, CasesFinite, FiniteImage
<1>3. HistoryRows(db) = UNION { rowsOf[r] : r \in db.runs }
  BY DEF HistoryRows
<1>4. DOMAIN rowsOf = db.runs
  OBVIOUS
<1> HIDE DEF rowsOf
<1>5. IsFiniteSet({ rowsOf[r] : r \in db.runs })
  BY <1>1, <1>4, FiniteImage
<1>6. IsFiniteSet(HistoryRows(db))
  BY <1>2, <1>3, <1>5, FS_UNION
<1>7. ASSUME NEW x \in HistoryRows(db) PROVE WellNamed(x.ident)
  <2>1. PICK r \in db.runs : \E c \in r.cases : x = RowOf(r, c)
    BY DEF HistoryRows
  <2> QED
    BY <2>1, CasesFinite DEF RowOf
<1>8. \A cutoff : ReadTestHistory(db, cutoff) \subseteq HistoryRows(db)
  BY DEF ReadTestHistory, HistoryRows, LogicalRuns
<1> QED
  BY <1>6, <1>7, <1>8

\* Failing rows of a key are found under it.
LEMMA KeyFindsRuns ==
  ASSUME WholeInv, NEW key, NEW bad, bad \subseteq HistoryRows(db),
         \A x \in bad : MakeTestKey(x.ident) = key /\ x.status \in Failing
  PROVE  LookupFinds(HistoryRows(db), key, bad)
<1> DEFINE all == HistoryRows(db)
           exact == MatchExact(all, key)
           used == IF exact # {} THEN exact ELSE { x \in all : Mentions(x.ident, key[Len(key)]) }
           found == { x \in used : x.status \in Failing }
           runs == { x.run : x \in found }
           runOf == [x \in found |-> x.run]
<1> SUFFICES ASSUME exact = {} \/ bad \subseteq exact
             PROVE  LookupFailure(all, key).failures >= Cardinality({ x.run : x \in bad })
  BY DEF LookupFinds
<1>1. LookupFailure(all, key).failures = Cardinality(runs)
  BY DEF LookupFailure
<1>2. ASSUME NEW x \in bad PROVE x \in found
  <2>1. CASE exact = {}
    <3>1. WellNamed(x.ident) /\ MakeTestKey(x.ident) = key
      BY HistoryFinite
    <3>2. key[Len(key)] = x.ident.name[Len(x.ident.name)]
      BY <3>1, KeyEnds
    <3>3. Len(x.ident.name) \in DOMAIN x.ident.name /\ x.ident.name # None
      BY <3>1, IdentAssumption DEF WellNamed, Text
    <3>4. Mentions(x.ident, key[Len(key)])
      BY <3>2, <3>3 DEF Mentions
    <3> QED
      BY <2>1, <3>4
  <2>2. CASE exact # {} /\ bad \subseteq exact
    BY <2>2
  <2> QED
    BY <2>1, <2>2
<1>3. found \subseteq all
  BY DEF MatchExact
<1>4. DOMAIN runOf = found /\ runs = { runOf[x] : x \in found }
  OBVIOUS
<1>5. { x.run : x \in bad } \in SUBSET runs
  BY <1>2
<1> HIDE DEF found, runOf, runs, all
<1>6. IsFiniteSet(found)
  BY <1>3, HistoryFinite, FS_Subset DEF all
<1>7. IsFiniteSet(runs)
  BY <1>4, <1>6, FiniteImage
<1>8. Cardinality({ x.run : x \in bad }) <= Cardinality(runs)
  BY <1>5, <1>7, FS_Subset
<1>9. Cardinality(runs) \in Nat /\ Cardinality({ x.run : x \in bad }) \in Nat
  BY <1>5, <1>7, FS_Subset, FS_CardinalityType
<1> QED
  BY <1>1, <1>8, <1>9

\* Among verdicts with bounded failures one has the most.
LEMMA MostFails ==
  ASSUME NEW S, S # {}, NEW b \in Nat, \A v \in S : v.fails \in Nat /\ v.fails <= b
  PROVE  \E v \in S : \A o \in S : o.fails <= v.fails
<1> DEFINE short == { b - v.fails : v \in S }
<1>1. short \in SUBSET Nat /\ short # {}
  OBVIOUS
<1>2. PICK n \in short : \A m \in short : n <= m
  BY <1>1, Least
<1>3. PICK v \in S : n = b - v.fails
  OBVIOUS
<1>4. ASSUME NEW o \in S PROVE o.fails <= v.fails
  <2>1. n <= b - o.fails
    BY <1>2
  <2> QED
    BY <1>3, <2>1
<1> QED
  BY <1>4

\* is_flaky tells of a test it resolves to with the most failures.
LEMMA FlakyTells ==
  ASSUME NEW board, NEW b \in Nat, \A v \in board : v.fails \in Nat /\ v.fails <= b,
         NEW id, NEW v \in ResolveVerdicts(board, id)
  PROVE  /\ IsFlaky(board, id).fails >= v.fails
         /\ ResolveVerdicts(board, id) = {v} => IsFlaky(board, id).fails = v.fails
<1> DEFINE found == ResolveVerdicts(board, id)
           worst == CHOOSE u \in found : \A o \in found : o.fails <= u.fails
<1>1. found \subseteq board /\ found # {} /\ v \in found
  BY DEF ResolveVerdicts
<1>2. IsFlaky(board, id).fails = worst.fails
  BY <1>1 DEF IsFlaky
<1> HIDE DEF found
<1>3. \E u \in found : \A o \in found : o.fails <= u.fails
  BY <1>1, MostFails
<1>4. worst \in found /\ \A o \in found : o.fails <= worst.fails
  BY <1>3
<1> HIDE DEF worst
<1>5. v.fails <= worst.fails /\ worst.fails \in Nat /\ v.fails \in Nat
  BY <1>1, <1>4
<1> QED
  BY <1>2, <1>4, <1>5 DEF found

\* The verdicts of a scan, each of the rows that have its key: their failures are counted, and their
\* path is one the rows name, if any names one.
LEMMA BoardOfRows ==
  ASSUME WholeInv, NEW now \in Int, NEW t, t.window \in Int
  PROVE  LET rows == ReadTestHistory(db, now - t.window)
             board == ScanVerdicts(db, now, t)
         IN  /\ IsFiniteSet(rows)
             /\ \A v \in board :
                  LET own == { x \in rows : MakeTestKey(x.ident) = v.key }
                      paths == { x.ident.path : x \in own } \ {None}
                  IN  /\ v = VerdictOf(own, t)
                      /\ v.fails \in Nat /\ v.fails <= Cardinality(rows)
                      /\ v.name \in Text
                      /\ IF paths = {} THEN v.path = None
                         ELSE v.path \in paths /\ v.path \in Text
<1> DEFINE cutoff == now - t.window
           rows == ReadTestHistory(db, cutoff)
           F == FailStatuses(t.includeErrors)
           group(k) == { x \in rows : MakeTestKey(x.ident) = k }
           bad(k) == { x \in group(k) : x.status \in F }
           V(k) == VerdictOf(group(k), t)
           keys == { MakeTestKey(x.ident) : x \in rows }
           board == ScanVerdicts(db, now, t)
<1>1. IsFiniteSet(rows)
  BY RowsFinite
<1>2. cutoff \in Int
  OBVIOUS
<1>3. \A x \in rows : x.eff \in Nat /\ x.run \in Nat /\ x.nr \in Nat
  BY RowsTyped
<1>4. \A x \in rows : WellNamed(x.ident)
  BY HistoryFinite
<1> HIDE DEF rows
<1>5. \A v \in board : \E k \in keys : v = V(k)
  BY DEF ScanVerdicts, ComputeVerdicts, rows
<1>6. ASSUME NEW k \in keys
      PROVE  LET paths == { x.ident.path : x \in group(k) } \ {None}
             IN  /\ V(k).key = k /\ V(k).name \in Text
                 /\ V(k).fails \in Nat /\ V(k).fails <= Cardinality(rows)
                 /\ IF paths = {} THEN V(k).path = None
                    ELSE V(k).path \in paths /\ V(k).path \in Text
  <2> DEFINE paths == { x.ident.path : x \in group(k) } \ {None}
             placed == { x \in group(k) : x.ident.path # None }
  <2>1. group(k) # {} /\ group(k) \subseteq rows
    OBVIOUS
  <2>2. FirstOf(group(k)) \in group(k)
    <3> HIDE DEF group
    <3> QED
      BY <1>3, <2>1, FirstRow
  <2>3. /\ V(k).key = MakeTestKey(FirstOf(group(k)).ident)
        /\ V(k).name = FirstOf(group(k)).ident.name
        /\ V(k).fails = Cardinality(bad(k))
        /\ V(k).path = BackfilledPath(group(k))
    BY DEF VerdictOf
  <2>4. V(k).key = k
    BY <2>2, <2>3
  <2>5. V(k).name \in Text
    BY <1>4, <2>2, <2>3 DEF WellNamed
  <2>6. Cardinality(bad(k)) \in Nat /\ Cardinality(bad(k)) <= Cardinality(rows)
    <3>1. bad(k) \in SUBSET rows
      OBVIOUS
    <3> HIDE DEF bad
    <3> QED
      BY <1>1, <3>1, FS_Subset, FS_CardinalityType
  <2>7. CASE placed = {}
    <3>1. paths = {}
      BY <2>7
    <3>2. V(k).path = None
      BY <2>3, <2>7 DEF BackfilledPath
    <3> QED
      BY <2>3, <2>4, <2>5, <2>6, <3>1, <3>2
  <2>8. CASE placed # {}
    <3>1. FirstOf(placed) \in placed
      <4>1. \A x \in placed : x.eff \in Nat /\ x.run \in Nat /\ x.nr \in Nat
        BY <1>3
      <4> HIDE DEF placed
      <4> QED
        BY <2>8, <4>1, FirstRow
    <3>2. V(k).path = FirstOf(placed).ident.path
      BY <2>3, <2>8 DEF BackfilledPath
    <3>3. FirstOf(placed).ident.path \in paths /\ WellNamed(FirstOf(placed).ident)
      BY <1>4, <3>1
    <3>4. FirstOf(placed).ident.path \in Text
      BY <3>3 DEF WellNamed
    <3>5. paths # {} /\ V(k).path \in paths /\ V(k).path \in Text
      BY <3>2, <3>3, <3>4
    <3> HIDE DEF paths, V, bad
    <3> QED
      BY <2>3, <2>4, <2>5, <2>6, <3>5 DEF paths
  <2> QED
    BY <2>7, <2>8
<1>7. ASSUME NEW v \in board
      PROVE  LET own == { x \in rows : MakeTestKey(x.ident) = v.key }
                 paths == { x.ident.path : x \in own } \ {None}
             IN  /\ v = VerdictOf(own, t)
                 /\ v.fails \in Nat /\ v.fails <= Cardinality(rows)
                 /\ v.name \in Text
                 /\ IF paths = {} THEN v.path = None
                    ELSE v.path \in paths /\ v.path \in Text
  <2>1. PICK k \in keys : v = V(k)
    BY <1>5
  <2>2. v.key = k
    BY <1>6, <2>1
  <2>3. { x \in rows : MakeTestKey(x.ident) = v.key } = group(k)
    BY <2>2
  <2>4. v = VerdictOf(group(k), t)
    BY <2>1
  <2> HIDE DEF V
  <2> QED
    BY <1>6, <2>1, <2>3, <2>4
<1> QED
  BY <1>1, <1>7 DEF rows

\* is_flaky knows a test by its key, and by path::name unless that is another test's key.
LEMMA IdKnowsTest ==
  ASSUME WholeInv, NEW now \in Int, NEW t, t.window \in Int, NEW v \in ScanVerdicts(db, now, t)
  PROVE  LET rows == ReadTestHistory(db, now - t.window)
             own == { x \in rows : MakeTestKey(x.ident) = v.key }
         IN  FlakyKnows(ScanVerdicts(db, now, t), v, own)
<1> DEFINE rows == ReadTestHistory(db, now - t.window)
           board == ScanVerdicts(db, now, t)
           rowsOf(k) == { x \in rows : MakeTestKey(x.ident) = k }
           own == rowsOf(v.key)
           paths == { x.ident.path : x \in own } \ {None}
           b == Cardinality(rows)
           id == v.path \o v.name
<1>1. /\ IsFiniteSet(rows)
      /\ \A u \in board : u = VerdictOf(rowsOf(u.key), t) /\ u.fails \in Nat /\ u.fails <= b
      /\ v.name \in Text
      /\ IF paths = {} THEN v.path = None ELSE v.path \in paths /\ v.path \in Text
  BY BoardOfRows
<1>2. b \in Nat
  BY <1>1, FS_CardinalityType
<1>3. \A u \in board : u.key = v.key => u = v
  BY <1>1
<1>4. v \in board
  OBVIOUS
<1> HIDE DEF rowsOf, rows, board, paths, b
<1>5. ASSUME NEW key, { u \in board : u.key = key } = {v}
      PROVE  IsFlaky(board, key).fails = v.fails
  <2>1. ResolveVerdicts(board, key) = {v}
    BY <1>5 DEF ResolveVerdicts
  <2> QED
    BY <1>1, <1>2, <2>1, FlakyTells
<1>6. IsFlaky(board, v.key).fails = v.fails
  <2>1. { u \in board : u.key = v.key } = {v}
    BY <1>3, <1>4
  <2> QED
    BY <1>5, <2>1
<1>7. paths = {} \/ v.path \in paths
  BY <1>1
<1>8. ASSUME v.path # None, Len(v.name) = 1, \A other \in board \ {v} : other.key # id
      PROVE  IsFlaky(board, id).fails >= v.fails
  <2>1. v.path \in Seq(STRING) /\ v.name \in Seq(STRING) /\ v.name # <<>>
    BY <1>1, <1>8 DEF Text
  <2>2. NameOf(id) = v.name /\ LeftOf(id) = v.path
    BY <1>8, <2>1, Joined
  <2> HIDE DEF id
  <2>3. v \in ResolveVerdicts(board, id)
    <3>1. Resolves(id, v)
      BY <2>2 DEF Resolves
    <3>2. { u \in board : u.key = id } \in {{}, {v}}
      BY <1>8
    <3> QED
      BY <1>4, <3>1, <3>2 DEF ResolveVerdicts
  <2> QED
    BY <1>1, <1>2, <2>3, FlakyTells
<1> QED
  BY <1>6, <1>7, <1>8 DEF FlakyKnows, board, paths, rowsOf, rows

\* A failing test of a place is listed there with all its failures, or the answer is full of tests
\* that failed no less, and says so.
LEMMA PlaceListsTest ==
  ASSUME WholeInv, NEW since, NEW bad, bad \subseteq HistoryRows(db),
         \A x \in bad : x.status \in Failing /\ x.eff >= since
  PROVE  ModuleLists(HistoryRows(db), since, bad)
<1> SUFFICES ASSUME NEW x \in bad, x.ident.path # None,
                    NEW answer \in ModuleHistory(HistoryRows(db), x.ident.path, since, 1)
             PROVE  LET counted == Cardinality({ y \in bad : y.ident = x.ident })
                    IN  \/ \E g \in answer.listed : g.ident = x.ident /\ g.failures >= counted
                        \/ /\ answer.truncated /\ Cardinality(answer.listed) = MaxOffenders
                           /\ \A g \in answer.listed : g.failures >= counted
  BY DEF ModuleLists
<1> DEFINE all == HistoryRows(db)
           prefix == x.ident.path
           there == { y \in all :
                        y.eff >= since /\ (y.ident.path = prefix \/ <<prefix, y.ident.path>> \in Beneath) }
           group(i) == { y \in there : y.ident = i }
           failed(i) == { y \in group(i) : y.status \in Failing }
           entry(i) == [ident |-> i, failures |-> Cardinality(failed(i)),
                        total |-> Cardinality(group(i))]
           idents == { i \in { y.ident : y \in there } : Cardinality(failed(i)) >= 1 }
           groups == Offenders(all, prefix, since, 1)
           mine == { y \in bad : y.ident = x.ident }
           counted == Cardinality(mine)
           g0 == entry(x.ident)
<1>1. groups = { entry(i) : i \in idents }
  BY DEF Offenders
<1>2. IsFiniteSet(there)
  <2>1. there \in SUBSET all
    OBVIOUS
  <2> QED
    BY <2>1, HistoryFinite, FS_Subset
<1>3. mine \in SUBSET failed(x.ident) /\ x \in mine /\ x \in there
  OBVIOUS
<1> HIDE DEF all, there
<1>4. ASSUME NEW i PROVE IsFiniteSet(failed(i)) /\ Cardinality(failed(i)) \in Nat
  <2>1. failed(i) \in SUBSET there
    OBVIOUS
  <2> HIDE DEF failed
  <2> QED
    BY <1>2, <2>1, FS_Subset, FS_CardinalityType
<1>5. counted \in Nat /\ counted >= 1 /\ Cardinality(failed(x.ident)) >= counted
  <2>1. IsFiniteSet(mine) /\ counted <= Cardinality(failed(x.ident))
    <3> HIDE DEF failed, mine
    <3> QED
      BY <1>3, <1>4, FS_Subset
  <2>2. counted \in Nat /\ counted # 0
    <3> HIDE DEF mine
    <3> QED
      BY <1>3, <2>1, FS_CardinalityType, FS_EmptySet
  <2>3. Cardinality(failed(x.ident)) \in Nat
    BY <1>4
  <2> HIDE DEF failed, counted
  <2> QED
    BY <2>1, <2>2, <2>3
<1>6. x.ident \in idents
  <2>1. Cardinality(failed(x.ident)) >= 1
    <3>1. Cardinality(failed(x.ident)) \in Nat
      BY <1>4
    <3> HIDE DEF failed, counted
    <3> QED
      BY <1>5, <3>1
  <2> QED
    BY <1>3, <2>1
<1>7. IsFiniteSet(groups)
  <2> DEFINE identOf == [y \in there |-> y.ident]
             names == { identOf[y] : y \in there }
             entryOf == [i \in idents |-> entry(i)]
  <2>1. IsFiniteSet(names)
    <3>1. DOMAIN identOf = there
      OBVIOUS
    <3> HIDE DEF identOf
    <3> QED
      BY <1>2, <3>1, FiniteImage
  <2>2. idents \in SUBSET names
    OBVIOUS
  <2>3. IsFiniteSet(idents)
    <3> HIDE DEF names, idents
    <3> QED
      BY <2>1, <2>2, FS_Subset
  <2>4. groups = { entryOf[i] : i \in idents } /\ DOMAIN entryOf = idents
    BY <1>1
  <2> HIDE DEF entryOf, idents, groups
  <2> QED
    BY <2>3, <2>4, FiniteImage
<1>8. g0 \in groups /\ g0.ident = x.ident /\ g0.failures = Cardinality(failed(x.ident))
  BY <1>1, <1>6
<1>9. ASSUME NEW g \in groups PROVE g.failures \in Nat
  <2>1. PICK i \in idents : g = entry(i)
    BY <1>1
  <2>2. g.failures = Cardinality(failed(i))
    BY <2>1
  <2> HIDE DEF failed, entry
  <2> QED
    BY <1>4, <2>2
<1> HIDE DEF groups, entry, failed, idents
<1> DEFINE n == Cardinality(groups)
           most == IF n <= MaxOffenders THEN n ELSE MaxOffenders
<1>10. PICK top \in SUBSET groups :
         /\ Cardinality(top) = most /\ \A g \in top, h \in groups \ top : ~Worse(h, g)
         /\ answer = [listed |-> top, total |-> n, truncated |-> n > MaxOffenders]
  BY DEF ModuleHistory, all, groups
<1>11. answer.listed = top /\ answer.truncated = (n > MaxOffenders)
  BY <1>10
<1>12. CASE g0 \in top
  BY <1>5, <1>8, <1>11, <1>12
<1>13. CASE g0 \notin top
  <2>1. n \in Nat /\ MaxOffenders \in Nat
    BY <1>7, FS_CardinalityType, IdentAssumption
  <2>2. top # groups
    BY <1>8, <1>13
  <2>3. Cardinality(top) # n
    BY <1>7, <2>2, FS_Subset
  <2>4. n > MaxOffenders /\ Cardinality(top) = MaxOffenders
    <3> HIDE DEF n
    <3> QED
      BY <1>10, <2>1, <2>3
  <2>5. ASSUME NEW g \in top PROVE g.failures >= counted
    <3>1. ~(g0.failures > g.failures)
      BY <1>8, <1>10, <1>13 DEF Worse
    <3>2. g.failures \in Nat /\ g0.failures \in Nat
      BY <1>8, <1>9
    <3> HIDE DEF g0, counted
    <3> QED
      BY <1>5, <1>8, <3>1, <3>2
  <2> QED
    BY <1>11, <2>4, <2>5
<1> QED
  BY <1>12, <1>13

\* The three tools speak of the tests the detective counts failures of in every state, for all
\* reports, tunables, burn-ins and interleavings, with a history in which a test has several paths
\* and a report lists a test several times.
THEOREM ToolsAlwaysAgree == Spec => []ToolsAgree
<1>1. BookInv => ToolsAgree
  <2> SUFFICES ASSUME BookInv, NEW t \in Tunables,
                      NEW v \in ScanVerdicts(db, clock, t), Failed(v)
               PROVE  LET rows == ReadTestHistory(db, clock - t.window)
                          own == { x \in rows : MakeTestKey(x.ident) = v.key }
                          bad == { x \in own : x.status \in FailStatuses(t.includeErrors) }
                      IN  /\ LookupFinds(HistoryRows(db), v.key, bad)
                          /\ FlakyKnows(ScanVerdicts(db, clock, t), v, own)
                          /\ ModuleLists(HistoryRows(db), clock - t.window, bad)
    BY DEF ToolsAgree
  <2> DEFINE cutoff == clock - t.window
             own == { x \in ReadTestHistory(db, cutoff) : MakeTestKey(x.ident) = v.key }
             bad == { x \in own : x.status \in FailStatuses(t.includeErrors) }
  <2>1. WholeInv /\ clock \in Int /\ t.window \in Int
    BY DetectiveAssumption DEF BookInv, WholeInv, HistoryTyped
  <2>2. /\ bad \subseteq HistoryRows(db)
        /\ \A x \in bad : /\ MakeTestKey(x.ident) = v.key /\ x.status \in Failing
                          /\ x.eff >= cutoff
    BY <2>1, HistoryFinite, RowsTyped DEF FailStatuses, Failing
  <2>3. FlakyKnows(ScanVerdicts(db, clock, t), v, own)
    BY <2>1, IdKnowsTest
  <2> HIDE DEF bad
  <2>4. LookupFinds(HistoryRows(db), v.key, bad)
    BY <2>1, <2>2, KeyFindsRuns
  <2>5. ModuleLists(HistoryRows(db), cutoff, bad)
    BY <2>1, <2>2, PlaceListsTest
  <2> QED
    BY <2>3, <2>4, <2>5 DEF bad
<1> QED
  BY <1>1, BookInvariance, PTL

=============================================================================
