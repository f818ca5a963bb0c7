----------------------------- MODULE MCPipeline -----------------------------
(* The pipeline with a handful of calls, configurations, trees and texts.  *)
EXTENDS Pipeline

Cand(type, s, e, ok) == [type |-> type, s |-> s, e |-> e, ok |-> ok, bare |-> TRUE]
Glued(c) == [c EXCEPT !.bare = FALSE]

Card == Cand("credit_card", 1, 4, TRUE)
Iban == Cand("iban", 3, 6, TRUE)

Mail(e) == Cand("email", 0, e, TRUE)

\* A card behind a rejected one, both left by the redactor to the canary, next
\* to an iban that claims nothing; the card inside an email whose span an iban
\* takes, with the redactor and without; an iban behind a rejected one, a
\* passport number against an itin; nothing.
MCTexts == {{}, {Glued(Cand("credit_card", 0, 4, FALSE)), Glued(Card), Iban},
            {Card, Mail(4), Iban},
            {Glued(Card), Glued(Mail(5)), Cand("iban", 4, 6, TRUE)},
            {Cand("iban", 0, 3, FALSE), Cand("iban", 1, 4, TRUE),
             Cand("passport", 3, 5, TRUE), Cand("us_itin", 4, 6, TRUE)}}

Entry(kind, text, big, hidden) ==
    [kind |-> kind, text |-> text, big |-> big, hidden |-> hidden]
Plain  == Entry("text", {}, FALSE, FALSE)
Leaky  == Entry("text", {Cand("email", 0, 2, TRUE)}, FALSE, FALSE)
Long   == Entry("text", {}, TRUE, TRUE)
Image  == Entry("image", {Cand("email", 0, 2, TRUE)}, FALSE, FALSE)
Locked == Entry("unreadable_directory", {}, FALSE, TRUE)
Binary == Entry("binary", {}, FALSE, TRUE)

MCTrees == {Missing, <<Plain>>, <<Plain, Plain>>, <<Plain, Leaky>>, <<Long>>,
            <<Image>>, <<Locked, Plain>>, <<Binary, Plain>>}

Config(write, gate, heal, token, max) ==
    [write |-> write, gate |-> gate, heal |-> heal, token |-> token, max |-> max]
MCConfigs == {Config(FALSE, FALSE, "PR", FALSE, 0),
              Config(TRUE, TRUE, "suggest", TRUE, 1),
              Config(TRUE, FALSE, "PR", TRUE, 3)}

Call(tool, log, test, repo, mode, extra, wellTyped) ==
    [tool |-> tool, log |-> log, test |-> test, repo |-> repo, mode |-> mode,
     extra |-> extra, wellTyped |-> wellTyped]
MCCalls == {Call("stabilize", "local", TRUE, TRUE, "", {}, TRUE),
            Call("stabilize", "build", TRUE, TRUE, "blank", {"attachment"}, TRUE),
            Call("stabilize", "build", TRUE, FALSE, "PR", {}, FALSE),
            Call("stabilize", "none", TRUE, TRUE, "suggest", {}, TRUE),
            Call("command", "remote", FALSE, FALSE, "", {"attachment"}, TRUE),
            Call("incident", "none", FALSE, FALSE, "", {"attachment"}, TRUE)}

\* A failure with a signal, and a log without one that no rule matches; a
\* log that normalises to nothing.
Excerpt(sig, low, rule) == [sig |-> sig, low |-> low, rule |-> rule]
MCExcerpts == {Excerpt("timeout", FALSE, "flaky"), Excerpt("tail", TRUE, "product_bug"),
               Excerpt(NoSignature, TRUE, "product_bug")}
MCLearnt == {[sig |-> "timeout", category |-> "product_bug", seen |-> -1],
             [sig |-> "other", category |-> "flaky", seen |-> 0]}

=============================================================================
