---------------------------- MODULE HistoryBook ----------------------------
(***************************************************************************)
(* What the run history and the flaky-test detective promise together: the  *)
(* history is a book with one entry per execution of a suite (its source    *)
(* and its moment), and the board holds a verdict per test, each counted    *)
(* from the executions that were in the window when a scan looked.          *)
(* TestHistory and Detective implement it with rows, transactions and       *)
(* scans of several steps.                                                  *)
(***************************************************************************)
EXTENDS Integers, FiniteSets

CONSTANTS Scanner,        \* those who scan: the cron job, an operator
          Windows,        \* window lengths a scan may be given
          Thresholds,     \* values of min_fails that are accepted
          LastMoment,     \* bound of time
          TestOf(_)       \* the test an identity belongs to

VARIABLES book,     \* execution |-> the set of cases [nr, ident, status] it reported
          pending,  \* scanner |-> the classification it is about to publish, if any: a set
          board     \* the published classification

bookVars == <<book, pending, board>>

------------------------------------------------------------------------------
\* The executions in a window and what they say of one test.
Outcomes(window, test) ==
  { o \in { <<e, c>> : e \in window, c \in UNION { book[x] : x \in window } } :
      o[2] \in book[o[1]] /\ TestOf(o[2].ident) = test }

Tally(window, test, failing, minFails) ==
  LET outcomes == Outcomes(window, test)
      fails == Cardinality({ o \in outcomes : o[2].status \in failing })
      passes == Cardinality({ o \in outcomes : o[2].status = "passed" })
  IN [passes |-> passes, fails |-> fails,
      status |-> CASE fails < minFails -> "stable"
                   [] fails >= minFails /\ passes = 0 -> "consistently_failing"
                   [] fails >= minFails /\ passes > 0 -> "flaky"]

\* The classification of a window: every test with a passing or failing outcome.
Classification(window, failing, minFails) ==
  LET tests == { TestOf(c.ident) :
                   c \in { x \in UNION { book[e] : e \in window } :
                             x.status \in failing \cup {"passed"} } }
  IN [test \in tests |-> Tally(window, test, failing, minFails)]

------------------------------------------------------------------------------
BookInit ==
  /\ book = <<>>
  /\ pending = [s \in Scanner |-> {}]
  /\ board = <<>>

\* Executions are added (one reported again replaces itself), never lost.
Write ==
  /\ UNCHANGED <<pending, board>>
  /\ DOMAIN book \subseteq DOMAIN book'

\* Everything before a moment is forgotten, and nothing else.
Forget ==
  /\ UNCHANGED <<pending, board>>
  /\ \E t \in 0..LastMoment + 1 :
       book' = [e \in { x \in DOMAIN book : x[2] >= t } |-> book[e]]

\* A scan looks at one moment's window.
Look(s) ==
  /\ pending[s] = {} /\ UNCHANGED <<book, board>>
  /\ \E now \in 0..LastMoment, w \in Windows, m \in Thresholds,
        failing \in {{"failed"}, {"failed", "error"}} :
       LET seen == Classification({ e \in DOMAIN book : e[2] >= now - w }, failing, m)
       IN DOMAIN seen # {} /\ pending' = [pending EXCEPT ![s] = {seen}]

\* It publishes what it saw, or dies with it unsaid.
Publish(s) ==
  /\ pending' = [pending EXCEPT ![s] = {}]
  /\ board' \in pending[s]
  /\ UNCHANGED book

Abandon(s) ==
  /\ pending' = [pending EXCEPT ![s] = {}]
  /\ UNCHANGED <<book, board>>

BookNext ==
  \/ Write
  \/ Forget
  \/ \E s \in Scanner : Look(s) \/ Publish(s) \/ Abandon(s)

BookSpec == BookInit /\ [][BookNext]_bookVars

=============================================================================
