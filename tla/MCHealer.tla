------------------------------- MODULE MCHealer -------------------------------
\* Small instances of Healer: a spec of two lines, the traces that drive each
\* rule, and requests for both modes.
EXTENDS Healer, TLC

Id(shape, n) == [shape |-> shape, n |-> n]
Sel(shape, n) == [form |-> "id", id |-> Id(shape, n)]
Btn == Sel("btn", 1)
Line(sel, timeout, expect) ==
  [selector |-> sel, timeout |-> timeout, testTimeout |-> 0, expect |-> expect,
   starts |-> TRUE, ends |-> TRUE, waits |-> FALSE]

MCSources == {<<Line(Btn, 0, FALSE), Line(Btn, 5, TRUE)>>}
MCEdits == {<<Line(Sel("box", 1), 0, FALSE), Line(Btn, 5, TRUE)>>}

Before(call, api, sel, timeout) ==
  [kind |-> "before", class |-> "Frame", call |-> call, api |-> api, selector |-> sel,
   timeout |-> timeout]
After(call, message, timedOut, lines) ==
  [kind |-> "after", call |-> call, error |-> "TimeoutError", message |-> message,
   timedOut |-> timedOut, lines |-> lines]
Passes(call) ==
  [kind |-> "after", call |-> call, error |-> None, message |-> "", timedOut |-> FALSE,
   lines |-> <<>>]
Dom(elements) == [kind |-> "frame-snapshot", elements |-> elements]
Net(pending) == [kind |-> "network", pending |-> pending]
Says(message) == [kind |-> "error", message |-> message]
El(shape, n, testid) == [id |-> Id(shape, n), testid |-> testid]

\* An assertion on a resolved element times out.
Slow == <<Before("c1", "click", Btn, 0), Passes("c1"), Before("c2", "expect", Btn, 5),
          After("c2", "waiting", TRUE, <<"resolved">>)>>
\* The selector never attaches; one element of its shape carries a test id.
Moved == <<Before("c1", "click", Btn, 0),
           Dom(<<El("btn", 2, "save"), El("box", 1, "other"), El("btn", 3, None)>>),
           Dom(<<El("btn", 3, "late")>>),
           [Before("t", "step", Btn, 0) EXCEPT !.class = "Test"],
           After("c1", "waiting", TRUE, <<"waiting">>)>>
\* As Moved, with two candidates, and requests in flight.
Ambiguous == <<Before("c1", "click", Btn, 0),
               Dom(<<El("btn", 2, "save"), El("btn", 3, "cancel")>>),
               After("c1", "waiting", TRUE, <<>>), Net(TRUE)>>
\* Only the call log tells the reason.
Refused == <<Before("c1", "goto", NoSelector, 0), After("c1", "", FALSE, <<"refused">>)>>
\* The trace of a passing retry.
Passing == <<Before("c1", "click", Btn, 0), Passes("c1")>>

NoLog == [message |-> "", selector |-> NoSelector]
Ask(trace, mode) ==
  [trace |-> trace, log |-> NoLog, override |-> None, mode |-> mode, isolation |-> "docker",
   parallel |-> FALSE, spec |-> "present"]
MCRequests ==
  {Ask(Slow, "pr"), [Ask(Moved, "pr") EXCEPT !.parallel = TRUE],
   Ask(Ambiguous, "suggest"), Ask(Refused, "suggest"), Ask(Passing, "suggest"),
   [Ask(Slow, "pr") EXCEPT !.isolation = "subprocess", !.override = "await_state"],
   [Ask(Slow, "pr") EXCEPT !.isolation = "unreachable"],
   [Ask(<<>>, "suggest") EXCEPT !.log = [message |-> "timeout", selector |-> Btn]],
   [Ask(<<>>, "suggest") EXCEPT !.spec = "missing"]}

NoAnswer == [cause |-> None, confidence |-> 0, selector |-> NoSelector]
MCAnswers == {NoAnswer, [cause |-> "timeout", confidence |-> 150, selector |-> Btn]}

\* An empty store, and one whose two recipes were earned on an earlier spec: one for
\* the signature of Slow, one that only shares the relaxed key of Moved.
Earlier(strategy) ==
  [strategy |-> strategy,
   ops |-> <<[op |-> "replace", anchor |-> Line(Btn, 1, TRUE), new |-> Line(Btn, 3, TRUE)]>>,
   diagnosis |-> [cause |-> "timeout", selector |-> Btn], hits |-> 1, successes |-> 1,
   failures |-> 0]
SlowParts == PartsOfTrace(Summary(Slow))
MovedParts == PartsOfTrace(Summary(Moved))
MCRecipeStores ==
  {<<>>, SlowParts :> Earlier("bump_timeout") @@
         [MovedParts EXCEPT !.selector = <<"id", "box">>] :> Earlier("await_state")}

HealSymmetry == Permutations(Heals)
=============================================================================
