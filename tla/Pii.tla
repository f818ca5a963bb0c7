-------------------------------- MODULE Pii --------------------------------
(***************************************************************************)
(* The PII stage as functions: the detectors and how their overlapping     *)
(* hits are resolved, the masking and redaction of outbound text, the scan *)
(* of an evidence tree, and the gate over several trees.                   *)
(*                                                                         *)
(* A text is the set of its regex candidates, each a half-open span with   *)
(* the detector it belongs to, the verdict of that detector's validator,   *)
(* and whether the redactor's pattern, anchored in another way, takes it   *)
(* too.  A tree is the sequence of entries os.walk meets.                  *)
(***************************************************************************)
EXTENDS Naturals, FiniteSets, Sequences, FiniteSetsExt

CONSTANTS
    TextLen,       \* length of the longest text
    MaxFindings,   \* MAX_FINDINGS: rows one scan may report
    MaxSkipped,    \* MAX_SKIPPED: skipped paths one scan may report
    DefaultMaxFiles, MaxMaxFiles

ASSUME PiiAssumption ==
    /\ {TextLen, MaxFindings, MaxSkipped, DefaultMaxFiles, MaxMaxFiles}
          \subseteq Nat \ {0}
    /\ DefaultMaxFiles <= MaxMaxFiles

\* The registry, most trusted detector first: the position is the priority.
Registry == <<"credit_card", "iban", "us_ssn", "us_itin", "spanish_dni_nie",
              "passport", "email", "phone">>
Types == {Registry[i] : i \in DOMAIN Registry}
Priority(type) == CHOOSE i \in DOMAIN Registry : Registry[i] = type

Overlap(a, b) == a.s < b.e /\ b.s < a.e
Within(a, b)  == b.s <= a.s /\ a.e <= b.e
Inside(a, b)  == Within(a, b) /\ <<a.s, a.e>> # <<b.s, b.e>>

\* What regexes can leave of a text: a search meets one candidate of a
\* detector at a place, and the phone numbers of one pass lie apart.
IsText(text) ==
    /\ IsFiniteSet(text)
    /\ text \subseteq [type : Types, s : 0..TextLen, e : 0..TextLen,
                       ok : BOOLEAN, bare : BOOLEAN]
    /\ \A c \in text : c.s < c.e
    /\ \A c, d \in text : c.type = d.type /\ c # d =>
          c.s # d.s /\ (c.type = "phone" => ~Overlap(c, d))

\* Mutant: the search goes on behind a rejected candidate.
ResumeBehind(c) == c.e

\* Every detector but phone checks its candidates and looks again just after
\* the start of one it rejects.
Resume(c) == IF c.type = "phone" THEN c.e ELSE c.s + 1

NoLimit == TextLen + 1
First(S, n) == {m \in S : Cardinality({k \in S : k.s < m.s}) < n}

\* _validated_finder and find_phone: the hits of one detector.
Find(type, text, limit) ==
    LET from[p \in 0..TextLen] ==
            LET later == {c \in text : c.type = type /\ c.s >= p}
            IN  IF later = {} THEN {}
                ELSE LET c == CHOOSE c \in later : \A d \in later : c.s <= d.s
                     IN  IF c.ok THEN {c} \cup from[c.e] ELSE from[Resume(c)]
    IN  First(from[0], limit)

\* _drop_contained: its sweep by start, the wider first, leaves out every
\* span that lies in another one.
DropContained(hits) == {m \in hits : ~\E k \in hits : Inside(m, k)}

\* The order in which hits claim their span.
Surer(a, b) ==
    \/ Priority(a.type) < Priority(b.type)
    \/ Priority(a.type) = Priority(b.type)
         /\ (a.e - a.s > b.e - b.s \/ (a.e - a.s = b.e - b.s /\ a.s < b.s))

\* _claim_non_overlapping: the surest claims its span, and so on.
Claim(hits) ==
    LET claim[rest \in SUBSET hits] ==
            IF rest = {} THEN {}
            ELSE LET m == CHOOSE m \in rest : \A k \in rest \ {m} : Surer(m, k)
                 IN  {m} \cup claim[{k \in rest \ {m} : ~Overlap(k, m)}]
    IN  claim[hits]

HitsUpTo(text, limit) == UNION {Find(type, text, limit) : type \in Types}
Hits(text) == HitsUpTo(text, NoLimit)

\* run_detectors: at most limit findings, the first in the text.
RunDetectors(text, limit) == First(Claim(DropContained(HitsUpTo(text, limit))), limit)
Findings(text) == RunDetectors(text, NoLimit)

\* mask_pii: the findings give way to previews; what touched one is broken up.
MaskPii(text) == LET found == Findings(text)
                 IN  {c \in text : \A f \in found : ~Overlap(c, f)}

\* redact_text takes these shapes out whether or not they validate, where its
\* own patterns find them.
Redacted == {"email", "us_ssn", "credit_card", "phone"}
RedactText(text) ==
    LET shapes == {r \in text : r.type \in Redacted /\ r.bare}
    IN  {c \in text : \A r \in shapes : ~Overlap(c, r)}

\* _egress_clean and the pipeline's _egress_mask: redact, then the canary.
EgressClean(text) == MaskPii(RedactText(text))

-----------------------------------------------------------------------------
(* The scan of one target.                                                  *)

DirKinds == {"unreadable_directory", "symlinked_directory"}

\* _collect_files: the first max files, and the directories not entered on the
\* way to them.
IsFile(entry) == entry.kind \notin DirKinds
CollectFiles(tree, max) ==
    LET files(n) == {i \in 1..n : IsFile(tree[i])}
        end == Max({n \in 0..Len(tree) : Cardinality(files(n)) <= max})
    IN  [files |-> files(end), skipped |-> end - Cardinality(files(end)),
         truncated |-> end < Len(tree)]

\* _extract_text and the guards before it: the kinds of which no text is read.
Unread(entry, ocr) == entry.kind # "text" /\ ~(entry.kind = "image" /\ ocr)

\* Mutant: a file that is not read leaves no trace in the result.
ScanOneFileQuietly(entry, ocr, budget) ==
    LET found == IF Unread(entry, ocr) THEN 0 ELSE Cardinality(RunDetectors(entry.text, budget + 1))
    IN  [rows |-> IF found > budget THEN budget ELSE found, skip |-> 0,
         cut |-> entry.big, capped |-> found > budget]

\* _scan_one_file within the rows that are left.
ScanOneFile(entry, ocr, budget) ==
    IF Unread(entry, ocr)
    THEN [rows |-> 0, skip |-> 1, cut |-> FALSE, capped |-> FALSE]
    ELSE LET found == Cardinality(RunDetectors(entry.text, budget + 1))
         IN  [rows   |-> IF found > budget THEN budget ELSE found,
              skip   |-> 0,
              cut    |-> entry.big,
              capped |-> found > budget]

\* scan's loop: it ends at the deadline (before file number late) or when the
\* rows run out.
Scan(tree, max, ocr, late) ==
    LET walk == CollectFiles(tree, max)
        loop[i \in 0..Len(tree)] ==
            IF i = 0 THEN [rows |-> 0, skipped |-> walk.skipped, cut |-> FALSE,
                           over |-> FALSE]
            ELSE LET acc == loop[i - 1]
                     one == ScanOneFile(tree[i], ocr, MaxFindings - acc.rows)
                 IN  CASE acc.over \/ i \notin walk.files -> acc
                       [] Cardinality({n \in walk.files : n <= i}) > late ->
                            [acc EXCEPT !.over = TRUE]
                       [] OTHER ->
                            [rows    |-> acc.rows + one.rows,
                             skipped |-> IF acc.skipped < MaxSkipped
                                         THEN acc.skipped + one.skip ELSE acc.skipped,
                             cut     |-> acc.cut \/ one.cut,
                             over    |-> one.capped]
        end == loop[Len(tree)]
    IN  [clean    |-> end.rows = 0,
         complete |-> ~(walk.truncated \/ end.cut \/ end.over) /\ end.skipped = 0]

\* _configured_max_files: unusable values leave the default, big ones are cut.
EffectiveMax(configured) ==
    IF configured = 0 THEN DefaultMaxFiles
    ELSE IF configured > MaxMaxFiles THEN MaxMaxFiles ELSE configured

\* assert_evidence_clean: every path scanned, clean and complete; a path that
\* does not exist, or whose scan raises, fails the gate.
Missing == <<[kind |-> "missing", text |-> {}, big |-> FALSE, hidden |-> FALSE]>>
GateOk(trees, configured, ocr, late) ==
    \A t \in trees :
        /\ t # Missing
        /\ LET result == Scan(t, EffectiveMax(configured), ocr, late)
           IN  result.clean /\ result.complete

-----------------------------------------------------------------------------
(* What the stage promises, said without its algorithms.                    *)

\* Hits a reader of the raw text could use.
Personal(text) == {c \in text : c.ok}

\* One that lies in no wider one and across none of its own kind.
Apart(c, text) == \A d \in Personal(text) \ {c} :
                     ~Inside(c, d) /\ (d.type = c.type => ~Overlap(c, d))

\* An evidence tree: what a file holds is in its text, unless it is hidden
\* from a reader of texts and images or behind the cut of a big file.
IsTree(tree) ==
    /\ DOMAIN tree = 1..Len(tree) /\ Len(tree) \in Nat
    /\ \A i \in 1..Len(tree) :
          /\ IsText(tree[i].text) /\ tree[i].big \in BOOLEAN
          /\ tree[i].hidden => tree[i].big \/ tree[i].kind \notin {"text", "image"}
HoldsPii(tree) == \E i \in DOMAIN tree : tree[i].hidden \/ Personal(tree[i].text) # {}

=============================================================================
