------------------------------ MODULE Diagnosis ------------------------------
(***************************************************************************)
(* How the healer turns a failure into a patch: the trace parser           *)
(* (healer/flaky_healer/trace.py), the ordered diagnosis rules             *)
(* (diagnose.py), the three fix strategies (strategies/) and the patch     *)
(* engine (patchops.py), as pure operators.                                *)
(*                                                                         *)
(* A trace is the sequence of its events in reading order, each a record   *)
(* with a "kind".  An element id is [shape, n]: ids of one shape differ    *)
(* only in the hex and decimal runs shapes.py folds away.  A selector is   *)
(* [form, id]; only form "id" is a standalone #id.  A message is one of a  *)
(* few strings, told apart by the markers the rules look for, and so is a  *)
(* line of a call log ("resolved": the locator resolved).  A line of       *)
(* the spec file is a record of what the strategies' patterns find on it.  *)
(***************************************************************************)
EXTENDS Integers, Sequences, SequencesExt, FiniteSetsExt

CONSTANTS MaxActions,     \* trace.MAX_ACTIONS
          MaxLogLines,    \* trace.MAX_CALL_LOG_LINES
          MaxDomKeys,     \* trace.MAX_DOM_KEYS
          Factor,         \* bump_timeout.FACTOR
          CapMs,          \* bump_timeout.CAP_MS
          AssertMs,       \* the enlarged assertion budget of await_state
          Threshold       \* diagnose.CONFIDENCE_THRESHOLD, in percent

ASSUME DiagnosisAssumption ==
  /\ {MaxActions, MaxLogLines, MaxDomKeys, Factor} \subseteq Nat \ {0}
  /\ {CapMs, AssertMs} \subseteq Nat
  /\ Threshold \in 0..100

None == "none"
NoSelector == [form |-> None, id |-> [shape |-> None, n |-> 0]]
NonActionClasses == {"Test", "Tracing", "LocalUtils"}

(***************************************************************************)
(* The trace.  A "before" opens an action once per call id; "after" events *)
(* of a known id set its error, the last one with an error winning; "log"  *)
(* and "after" lines add up to one bounded log.                            *)
(***************************************************************************)
IsOpening(tr, i) ==
  /\ tr[i].kind = "before" /\ tr[i].class \notin NonActionClasses /\ tr[i].call # None
  /\ \A j \in 1..(i - 1) : ~ /\ tr[j].kind = "before" /\ tr[j].call = tr[i].call
                             /\ tr[j].class \notin NonActionClasses

Actions(tr) ==
  LET opening == {i \in DOMAIN tr : IsOpening(tr, i)}
  IN  {i \in opening : Cardinality({j \in opening : j < i}) < MaxActions}

Errors(tr, i) ==
  {j \in (i + 1)..Len(tr) : tr[j].kind = "after" /\ tr[j].call = tr[i].call
                            /\ tr[j].error # None}

CallLog(tr, i) ==
  LET late == SelectSeq(SubSeq(tr, i + 1, Len(tr)),
                        LAMBDA e : e.kind \in {"log", "after"} /\ e.call = tr[i].call)
      lines == FlattenSeq([k \in DOMAIN late |-> late[k].lines])
  IN  SubSeq(lines, 1, Min({MaxLogLines, Len(lines)}))

(***************************************************************************)
(* The elements of all snapshots in document order; each id keeps the      *)
(* data-testid it had where it was first seen.                             *)
(***************************************************************************)
Places(tr) ==
  UNION {{<<i, j>> : j \in DOMAIN tr[i].elements} :
           i \in {i \in DOMAIN tr : tr[i].kind = "frame-snapshot"}}
Precedes(p, q) == p[1] < q[1] \/ (p[1] = q[1] /\ p[2] < q[2])
ElementAt(tr, p) == tr[p[1]].elements[p[2]]

FirstPlaces(tr) ==
  {p \in Places(tr) :
     \A q \in Places(tr) : Precedes(q, p) => ElementAt(tr, q).id # ElementAt(tr, p).id}

DomIds(tr) ==
  LET seen == FirstPlaces(tr)
  IN  {ElementAt(tr, p) :
         p \in {p \in seen : Cardinality({q \in seen : Precedes(q, p)}) < MaxDomKeys}}

\* Mutant: an ambiguous shape takes one of the candidates.
AnyTestidOfShape(tr, selector) ==
  LET dom == DomIds(tr)
      like == {e.testid : e \in {e \in dom : /\ e.id.shape = selector.id.shape
                                             /\ e.testid # None}}
  IN  IF selector.form # "id" \/ like = {} THEN None ELSE CHOOSE t \in like : TRUE

(***************************************************************************)
(* The proof that a failing selector's target carries a test id: the id    *)
(* itself, or else the one test id of all the ids of its shape.            *)
(***************************************************************************)
TestidOnTarget(tr, selector) ==
  LET dom == DomIds(tr)
      exact == {e \in dom : e.id = selector.id}
      like == {e.testid : e \in {e \in dom : /\ e.id.shape = selector.id.shape
                                             /\ e.testid # None}}
  IN  CASE selector.form # "id" -> None
        [] selector.form = "id" /\ exact # {} -> (CHOOSE e \in exact : TRUE).testid
        [] selector.form = "id" /\ exact = {} /\ Cardinality(like) = 1 ->
             CHOOSE t \in like : TRUE
        [] OTHER -> None

(***************************************************************************)
(* What the rules read of a trace.  The failing action is the last one, in *)
(* the order they began, that carries an error.                            *)
(***************************************************************************)
Summary(tr) ==
  LET failed == {i \in Actions(tr) : Errors(tr, i) # {}}
      last == Max(failed)
      err == tr[Max(Errors(tr, last))]
      first == {tr[j].message : j \in {j \in DOMAIN tr :
                  /\ tr[j].kind = "error" /\ tr[j].message # ""
                  /\ \A k \in 1..(j - 1) : tr[k].kind # "error" \/ tr[k].message = ""}}
      tested == IF first = {} THEN "" ELSE CHOOSE x \in first : TRUE
      pending == \E j \in DOMAIN tr : tr[j].kind = "network" /\ tr[j].pending
      base == [trace |-> TRUE, action |-> None, selector |-> NoSelector, timeout |-> 0,
               error |-> None, message |-> "", test |-> tested, timedOut |-> FALSE,
               log |-> {}, resolved |-> FALSE, testid |-> None, pending |-> pending]
      log == Range(CallLog(tr, last))
  IN  IF failed = {} THEN base
      ELSE [base EXCEPT !.action = tr[last].api, !.selector = tr[last].selector,
              !.timeout = tr[last].timeout, !.error = err.error, !.message = err.message,
              !.timedOut = err.timedOut, !.log = log, !.resolved = "resolved" \in log,
              !.testid = TestidOnTarget(tr, tr[last].selector)]

NoTrace == [trace |-> FALSE, action |-> None, selector |-> NoSelector, timeout |-> 0,
            error |-> None, message |-> "", test |-> "", timedOut |-> FALSE,
            log |-> {}, resolved |-> FALSE, testid |-> None, pending |-> FALSE]

(***************************************************************************)
(* The signature of a failure; the relaxed key drops the two shapes.  The  *)
(* parts of a trace without a failed action or an error event say nothing. *)
(***************************************************************************)
PartsOfTrace(t) ==
  [error |-> t.error, action |-> t.action, selector |-> <<t.selector.form, t.selector.id.shape>>,
   message |-> IF t.message # "" THEN t.message ELSE t.test]
RelaxedKey(parts) == <<parts.error, parts.action>>
IsDegenerate(parts) ==
  /\ parts.error = None /\ parts.action = None /\ parts.selector[1] = None
  /\ parts.message = ""

(***************************************************************************)
(* The rules, first match wins.  x is the CI log excerpt: its marker, the  *)
(* selector it names and whether it shows a timeout.                       *)
(***************************************************************************)
Causes == {"timeout", "fragile_selector", "race_condition", "environment", "data",
           "infra", "unknown"}
StrategyForCause == [c \in Causes |->
  CASE c = "timeout" -> "bump_timeout"
    [] c = "fragile_selector" -> "testid_selector"
    [] c = "race_condition" -> "await_state"
    [] OTHER -> None]
MakeDiagnosis(cause, confidence, selector) ==
  [cause |-> cause, confidence |-> confidence, selector |-> selector,
   recommended |-> StrategyForCause[cause], stage |-> "heuristic"]

Heuristic(t, x) ==
  LET text == {t.message, t.test, x.message} \cup t.log
      selector == IF t.selector # NoSelector THEN t.selector ELSE x.selector
      rules == <<
        [holds |-> "refused" \in text, cause |-> "environment", confidence |-> 80],
        [holds |-> "crashed" \in text, cause |-> "infra", confidence |-> 75],
        [holds |-> t.timedOut /\ selector # NoSelector /\ ~t.resolved /\ t.testid # None,
         cause |-> "fragile_selector", confidence |-> 85],
        [holds |-> t.timedOut /\ t.pending, cause |-> "race_condition", confidence |-> 80],
        [holds |-> t.timedOut, cause |-> "timeout", confidence |-> 75],
        [holds |-> ~t.trace /\ x.message = "timeout", cause |-> "timeout", confidence |-> 60],
        [holds |-> t.trace /\ t.error # None /\ t.action = "expect",
         cause |-> "data", confidence |-> 50],
        [holds |-> TRUE, cause |-> "unknown", confidence |-> 30]>>
      rule == rules[Min({k \in DOMAIN rules : rules[k].holds})]
  IN  MakeDiagnosis(rule.cause, rule.confidence, selector)

(***************************************************************************)
(* The model is asked only below the threshold; an answer without a known  *)
(* cause keeps the heuristic, and its strategy is the one of its cause.    *)
(***************************************************************************)
Diagnose(t, x, answer) ==
  LET first == Heuristic(t, x)
  IN  IF first.confidence >= Threshold \/ answer.cause \notin Causes THEN first
      ELSE [MakeDiagnosis(answer.cause, Min({100, Max({0, answer.confidence})}),
                      IF answer.selector = NoSelector THEN first.selector
                      ELSE answer.selector) EXCEPT !.stage = "llm"]

(***************************************************************************)
(* Patch operations: change one field of the first line equal to the       *)
(* anchor, or insert a line before it.  Applying is all or nothing.        *)
(***************************************************************************)
AnchorAt(src, op) == {i \in DOMAIN src : src[i] = op.anchor}
ApplyOp(src, op) ==
  LET i == Min(AnchorAt(src, op))
  IN  IF op.op = "replace" THEN [src EXCEPT ![i] = op.new]
      ELSE SubSeq(src, 1, i - 1) \o <<op.new>> \o SubSeq(src, i, Len(src))

Applied(src, ops) ==
  LET step[k \in 0..Len(ops)] ==
        IF k = 0 THEN [ok |-> TRUE, src |-> src]
        ELSE IF ~step[k - 1].ok \/ AnchorAt(step[k - 1].src, ops[k]) = {}
             THEN [ok |-> FALSE, src |-> src]
             ELSE [ok |-> TRUE, src |-> ApplyOp(step[k - 1].src, ops[k])]
  IN  step[Len(ops)]

(***************************************************************************)
(* The strategies.  Each plans from the source the session has read.       *)
(***************************************************************************)
Bumped(value) == Min({value * Factor, CapMs})
BumpOn(line, field) ==
  IF Bumped(line[field]) > line[field]
  THEN <<[op |-> "replace", anchor |-> line,
          new |-> [line EXCEPT ![field] = Bumped(line[field])]]>>
  ELSE <<>>
SelectorFor(t, d) == IF t.selector # NoSelector THEN t.selector ELSE d.selector

PlanBump(src, d, t) ==
  LET sel == SelectorFor(t, d)
      named == {i \in DOMAIN src : /\ sel # NoSelector /\ src[i].selector = sel
                                   /\ src[i].timeout > 0}
      same == {i \in DOMAIN src : t.timeout > 0 /\ src[i].timeout = t.timeout}
      whole == {i \in DOMAIN src : src[i].testTimeout > 0}
  IN  CASE named # {} -> BumpOn(src[Min(named)], "timeout")
        [] named = {} /\ same # {} -> BumpOn(src[Min(same)], "timeout")
        [] named = {} /\ same = {} /\ whole # {} -> BumpOn(src[Min(whole)], "testTimeout")
        [] OTHER -> <<>>

ByTestid(line, testid) ==
  [line EXCEPT !.selector = [form |-> "testid", id |-> [shape |-> testid, n |-> 0]]]

\* The n-th smallest of some numbers.
Nth(at, n) == CHOOSE i \in at : Cardinality({j \in at : j < i}) = n - 1

PlanTestid(src, d, t) ==
  IF ~t.trace \/ t.testid \in {None, "unsafe"} \/ t.selector = NoSelector THEN <<>>
  ELSE LET hits == {i \in DOMAIN src : src[i].selector = t.selector}
           line(k) == src[Nth(hits, k)]
       IN  [k \in 1..Cardinality(hits) |->
              [op |-> "replace", anchor |-> line(k), new |-> ByTestid(line(k), t.testid)]]

\* The line where the statement around line i starts, or none.
StatementAnchor(src, i) ==
  LET ends == {j \in 1..(i - 1) : src[j].ends}
      first == IF ends = {} THEN 1 ELSE Max(ends) + 1
  IN  IF src[i].starts THEN {i} ELSE {first} \cap {j \in 1..i : src[j].starts}

PlanAwait(src, d, t) ==
  LET sel == SelectorFor(t, d)
      named == {i \in DOMAIN src : src[i].selector = sel}
      asserts == {i \in named : src[i].expect}
      at == Min(IF asserts # {} THEN asserts ELSE named)
      anchor == StatementAnchor(src, at)
      waits == {i \in DOMAIN src : src[i].waits}
  IN  CASE sel = NoSelector \/ named = {} -> <<>>
        [] sel # NoSelector /\ named # {} /\ src[at].expect /\ src[at].timeout > 0 ->
             IF AssertMs > src[at].timeout
             THEN <<[op |-> "replace", anchor |-> src[at],
                     new |-> [src[at] EXCEPT !.timeout = AssertMs]]>>
             ELSE <<>>
        [] OTHER ->
             IF anchor = {} \/ (waits \cap ((Min(anchor) - 1)..at)) # {} THEN <<>>
             ELSE <<[op |-> "insert_before", anchor |-> src[Min(anchor)],
                     new |-> [selector |-> sel, timeout |-> 0, testTimeout |-> 0, expect |-> FALSE,
                              starts |-> TRUE, ends |-> TRUE, waits |-> TRUE]]>>

(***************************************************************************)
(* The registry, in registration order, and the choice among it: the       *)
(* recommended strategy first, the first with a patch wins.                *)
(***************************************************************************)
Registry == <<"await_state", "bump_timeout", "testid_selector">>
Plan(name, src, d, t) ==
  CASE name = "bump_timeout" -> PlanBump(src, d, t)
    [] name = "testid_selector" -> PlanTestid(src, d, t)
    [] name = "await_state" -> PlanAwait(src, d, t)
    [] OTHER -> <<>>
Applies(name, d, t) ==
  /\ d.recommended = name \/ StrategyForCause[d.cause] = name
  /\ name = "testid_selector" => t.trace /\ t.testid # None
Candidates(d, t) ==
  LET fits == SelectSeq(Registry, LAMBDA n : Applies(n, d, t))
  IN  SelectSeq(fits, LAMBDA n : n = d.recommended)
        \o SelectSeq(fits, LAMBDA n : n # d.recommended)

NoPlan == [strategy |-> None, ops |-> <<>>]
Planned(d, t, src, override) ==
  LET names == IF override # None THEN <<override>> ELSE Candidates(d, t)
      works == {k \in DOMAIN names : Plan(names[k], src, d, t) # <<>>}
  IN  IF works = {} THEN NoPlan
      ELSE [strategy |-> names[Min(works)], ops |-> Plan(names[Min(works)], src, d, t)]
=============================================================================
