---------------------------- MODULE TestHistory ----------------------------
(***************************************************************************)
(* The run history (history.db) as data: what the JUnit parser makes of a   *)
(* report file, the rows an ingest adds or takes back, what prune deletes,  *)
(* and what the three readers see: the detective's windowed read and        *)
(* classification, is_flaky, and the two history tools.                     *)
(*                                                                          *)
(* A database is [next, runs]: `next` is the AUTOINCREMENT counter, a run   *)
(* carries its test_cases rows (the index test_cases_fts follows them by    *)
(* triggers, so it is never a state of its own).  Ids grow with time, so    *)
(* "ORDER BY ingested_at DESC, id DESC" is the order of ids.                *)
(***************************************************************************)
EXTENDS Integers, Sequences, FiniteSets, FiniteSetsExt

CONSTANTS Ident,         \* test identities as reported: [cls, name, path], all but the name may be None
          None,          \* an absent value
          Beneath,       \* pairs <<p, q>> of different paths: q begins with p
          Climbing,      \* the paths with ".." in them
          MaxOffenders   \* the tests module_failure_history lists

\* A class, a name, a path, a key or a test id is a text: the sequence of the parts that
\* "::" separates in it, so that a join is a concatenation.  No part begins or ends with
\* a blank or a colon.
Text == Seq(STRING) \ {<<>>}
Empty == <<"">>

ASSUME IdentAssumption ==
  /\ \A i \in Ident : /\ i = [cls |-> i.cls, name |-> i.name, path |-> i.path]
                       /\ i.name \in Text
                       /\ \A part \in {i.cls, i.path} : part = None \/ part \in Text \ {Empty}
  /\ None \notin Text /\ MaxOffenders \in Nat

\* rsplit("::", 1): what is left of the last separator, and the name to its right.
LeftOf(id) == SubSeq(id, 1, Len(id) - 1)
NameOf(id) == <<id[Len(id)]>>

------------------------------------------------------------------------------
(* Parsing: a report lists its test cases, each [ident, tags], the tags being *)
(* its <error>, <failure> and <skipped> children.  A case without a name is   *)
(* called <unknown>, so one report may well list an identity twice.           *)

CaseStatus(tags) ==
  CASE "error" \in tags -> "error"
    [] "error" \notin tags /\ "failure" \in tags -> "failed"
    [] tags = {"skipped"} -> "skipped"
    [] OTHER -> "passed"

ParsedCases(report) ==
  { [nr |-> n, ident |-> report.els[n].ident, status |-> CaseStatus(report.els[n].tags)] :
      n \in DOMAIN report.els }

\* The suite's own timestamp, else the modification time of the file.
RunTimestamp(copy) == IF copy.stamp # None THEN copy.stamp ELSE copy.mtime

------------------------------------------------------------------------------
(* Rows.                                                                      *)

EmptyDb == [next |-> 1, runs |-> {}]

\* Mutant: the counter stays at the id it has given out.
InsertRunStaleNext(d, file, eff) ==
  [next |-> d.next,
   runs |-> d.runs \cup {[id |-> d.next, file |-> file, eff |-> eff, cases |-> {}]}]

InsertRun(d, file, eff) ==
  [next |-> d.next + 1,
   runs |-> d.runs \cup {[id |-> d.next, file |-> file, eff |-> eff, cases |-> {}]}]

InsertCases(d, id, cases) ==
  [d EXCEPT !.runs = { IF r.id = id THEN [r EXCEPT !.cases = cases] ELSE r : r \in @ }]

DeleteRun(d, id) == [d EXCEPT !.runs = { r \in @ : r.id # id }]

\* Mutant: the run row of a failed insert stays.
IngestKeepsOrphan(d, file, copy) ==
  LET withRun == InsertRun(d, file, RunTimestamp(copy))
  IN CASE copy.report.kind = "broken" -> d
       [] copy.report.kind = "unbindable" -> withRun
       [] OTHER -> InsertCases(withRun, d.next, ParsedCases(copy.report))

\* A report that cannot be parsed adds nothing; one whose cases cannot be bound
\* takes its run row back.
IngestFile(d, file, copy) ==
  LET withRun == InsertRun(d, file, RunTimestamp(copy))
  IN CASE copy.report.kind = "broken" -> d
       [] copy.report.kind = "unbindable" -> DeleteRun(withRun, d.next)
       [] OTHER -> InsertCases(withRun, d.next, ParsedCases(copy.report))

PruneBefore(d, cutoff) == [d EXCEPT !.runs = { r \in @ : r.eff >= cutoff }]

------------------------------------------------------------------------------
(* The detective's read: one logical run per (source_file, effective time),  *)
(* the one ingested last; skipped cases left out.                            *)

\* Mutant: a report ingested twice counts twice.
EveryRun(d, cutoff) == { r \in d.runs : r.eff >= cutoff }

LogicalRuns(d, cutoff) ==
  { r \in d.runs :
      /\ r.eff >= cutoff
      /\ \A q \in d.runs : q.file = r.file /\ q.eff = r.eff => q.id <= r.id }

\* The row of a case, joined to its run.
RowOf(r, c) == [nr |-> c.nr, ident |-> c.ident, status |-> c.status, eff |-> r.eff, run |-> r.id]

ReadTestHistory(d, cutoff) ==
  UNION { { RowOf(r, c) : c \in { x \in r.cases : x.status # "skipped" } } :
          r \in LogicalRuns(d, cutoff) }

------------------------------------------------------------------------------
(* Classification.                                                            *)

\* Without a classname, or with an empty one, the file is the namespace.
Namespace(i) ==
  CASE i.cls \notin {None, Empty} -> i.cls
    [] i.cls \in {None, Empty} /\ i.path # None -> i.path
    [] i.cls \in {None, Empty} /\ i.path = None -> Empty

\* namespace::name.
MakeTestKey(i) == Namespace(i) \o i.name

FailStatuses(includeErrors) ==
  IF includeErrors THEN {"failed", "error"} ELSE {"failed"}

ValidateTunables(t) == t.window >= 1 /\ t.minFails >= 1

VerdictStatus(passes, fails, minFails) ==
  CASE fails >= minFails /\ passes >= 1 -> "flaky"
    [] fails >= minFails /\ passes = 0 -> "consistently_failing"
    [] OTHER -> "stable"

\* The order of the rows a scan reads.
Earlier(x, y) ==
  \/ x.eff < y.eff
  \/ x.eff = y.eff /\ x.run < y.run
  \/ x.eff = y.eff /\ x.run = y.run /\ x.nr < y.nr

FirstOf(rows) == CHOOSE x \in rows : \A y \in rows : ~Earlier(y, x)

\* Mutant: the path of the first row, present or not.
PathOfFirstRow(rows) == FirstOf(rows).ident.path

\* The first path seen in row order; a test that never carried one has none.
BackfilledPath(rows) ==
  LET placed == { x \in rows : x.ident.path # None }
  IN IF placed = {} THEN None
     ELSE FirstOf(placed).ident.path

VerdictOf(rows, t) ==
  LET bad == { x \in rows : x.status \in FailStatuses(t.includeErrors) }
      passes == Cardinality({ x \in rows : x.status = "passed" })
      fails == Cardinality(bad)
      first == FirstOf(rows).ident
  IN [key |-> MakeTestKey(first), cls |-> first.cls, name |-> first.name,
      path |-> BackfilledPath(rows), passes |-> passes, fails |-> fails,
      lastFailure |-> IF bad = {} THEN None ELSE Max({ x.eff : x \in bad }),
      status |-> VerdictStatus(passes, fails, t.minFails)]

ComputeVerdicts(rows, t) ==
  { VerdictOf({ x \in rows : MakeTestKey(x.ident) = k }, t) :
      k \in { MakeTestKey(x.ident) : x \in rows } }

\* What a scan at time `now` keeps: a test with no counted run has no verdict.
ScanVerdicts(d, now, t) ==
  { v \in ComputeVerdicts(ReadTestHistory(d, now - t.window), t) :
      v.passes + v.fails > 0 }

FlakyKeys(verdicts) == { v.key : v \in { w \in verdicts : w.status = "flaky" } }

------------------------------------------------------------------------------
(* What a test id resolves to: left::right is a name and its class or path,   *)
(* an id without a separator is a name.                                       *)

Resolves(id, test) ==
  /\ test.name = NameOf(id)
  /\ Len(id) = 1 \/ LeftOf(id) \in {test.cls, test.path}

\* is_flaky tries the id as a key first.
ResolveVerdicts(verdicts, id) ==
  LET exact == { v \in verdicts : v.key = id }
  IN IF exact # {} THEN exact ELSE { v \in verdicts : Resolves(id, v) }

\* What the tool answers: the test with the most failures of those it resolves to.
IsFlaky(verdicts, id) ==
  LET candidates == ResolveVerdicts(verdicts, id)
      worst == CHOOSE v \in candidates : \A o \in candidates : o.fails <= v.fails
  IN IF candidates = {} THEN [status |-> "unknown", fails |-> 0]
     ELSE [status |-> worst.status, fails |-> worst.fails]

------------------------------------------------------------------------------
(* The two tools over the whole history: no logical runs, errors are         *)
(* failures.  test_failure_lookup tries the exact id and, only when that      *)
(* matches nothing, its name as a full-text (or LIKE) query: here that finds  *)
(* the tests whose name or class has it for a part.                           *)

Failing == {"failed", "error"}

HistoryRows(d) == UNION { { RowOf(r, c) : c \in r.cases } : r \in d.runs }

MatchExact(rows, id) == { x \in rows : Resolves(id, x.ident) }

Mentions(test, word) ==
  \E part \in {test.name, test.cls} \ {None} : \E n \in DOMAIN part : part[n] = word

LookupFailure(rows, id) ==
  LET exact == MatchExact(rows, id)
      used == IF exact # {} THEN exact ELSE { x \in rows : Mentions(x.ident, id[Len(id)]) }
      bad == { x \in used : x.status \in Failing }
  IN [matched |-> Cardinality({ <<x.ident.cls, x.ident.name>> : x \in used }),
      total |-> Cardinality({ x.run : x \in used }),
      failures |-> Cardinality({ x.run : x \in bad }),
      last |-> IF bad = {} THEN None ELSE Max({ x.eff : x \in bad })]

\* The tests whose path begins with `prefix`, each with its failures.
Offenders(rows, prefix, since, minFailures) ==
  LET there == { x \in rows :
                   x.eff >= since /\ (x.ident.path = prefix \/ <<prefix, x.ident.path>> \in Beneath) }
      group(i) == { x \in there : x.ident = i }
      failures(i) == Cardinality({ x \in group(i) : x.status \in Failing })
  IN { [ident |-> i, failures |-> failures(i), total |-> Cardinality(group(i))] :
         i \in { j \in { x.ident : x \in there } : failures(j) >= minFailures } }

\* ORDER BY failure_count DESC, total_runs DESC; then by name, here in any order.
Worse(g, h) == g.failures > h.failures \/ (g.failures = h.failures /\ g.total > h.total)

\* module_failure_history: what it may answer.  A path with ".." is refused; of more than
\* MaxOffenders tests the worst are listed, and the answer says that there are others.
ModuleHistory(rows, prefix, since, minFailures) ==
  LET groups == Offenders(rows, prefix, since, minFailures)
      most == IF Cardinality(groups) <= MaxOffenders THEN Cardinality(groups) ELSE MaxOffenders
  IN IF prefix \in Climbing THEN {}
     ELSE { [listed |-> top, total |-> Cardinality(groups),
             truncated |-> Cardinality(groups) > MaxOffenders] :
              top \in { s \in SUBSET groups :
                          /\ Cardinality(s) = most
                          /\ \A g \in s, h \in groups \ s : ~Worse(h, g) } }

=============================================================================
