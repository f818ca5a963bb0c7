------------------------------ MODULE Pipeline ------------------------------
(***************************************************************************)
(* One tool call after another through the approval hook, the failure-     *)
(* response pipeline and the ticket writer, while an operator edits the    *)
(* configuration file between any two steps and the host may die.  Every   *)
(* stage is called in the order of Pipeline._run_from_evidence; what a     *)
(* stage answers is chosen.                                                *)
(***************************************************************************)
EXTENDS Pii, Integers

CONSTANTS
    Calls,       \* the tool calls and slash commands the agent may make
    Configs,     \* the states of config.json and of the environment
    Trees,       \* the contents an evidence path may have
    Texts,       \* the texts a bug report may have
    Excerpts,    \* what the pre-filter may leave of a log: [sig, low, rule]
    Learnt,      \* the failure patterns of the project to begin with
    MaxRows,     \* max_rows_per_project
    Retention,   \* retention_days; a call takes a day
    Repeats,     \* burn-in repeats a stable heal may report
    MaxRepeats,  \* _MAX_BURNIN_FEEDBACK_RUNS
    MaxCalls,    \* bound: calls of one behaviour
    MaxEdits     \* bound: edits of the configuration

ASSUME PipelineAssumption ==
    /\ Calls # {} /\ Configs # {} /\ \A c \in Configs : c.max \in Nat
    /\ \A text \in Texts : IsText(text)
    /\ \A tree \in Trees : IsTree(tree)
    /\ \A c \in Calls : /\ c.tool \in {"stabilize", "command", "incident"}
                        /\ c.log \in {"none", "build", "local", "remote"}
    /\ IsFiniteSet(Learnt) /\ \A p \in Learnt : p.seen \in Int /\ p.seen <= 0
    /\ MaxRows \in Nat \ {0} /\ Retention \in Nat
    /\ Repeats \subseteq Nat /\ MaxRepeats \in Nat \ {0}
    /\ MaxCalls \in Nat /\ MaxEdits \in Nat

VARIABLES
    cfg,     \* the configuration on disk and the environment
    edits,   \* edits so far
    calls,   \* calls so far; the number of a call names its run
    pc,      \* the next step of the running call, "idle" when there is none
    run,     \* what the running call has in memory
    spool,   \* spooled CI logs: who wrote one, whether it is a day old, orphaned by
             \* a dead host, or given up because its write failed
    jira,    \* the issues in the tracker
    prs,     \* the pull requests
    greens,  \* synthetic green runs in history.db: the source file of each
    patterns, \* triage_patterns: [sig, category, seen], a call's number being its day
    ledger   \* rows of pipeline_runs

vars == <<cfg, edits, calls, pc, run, spool, jira, prs, greens, patterns, ledger>>

HealCategories == {"flaky", "timeout"}
NoCategory     == "none"
Categories     == {"flaky", "product_bug"}
NoSignature    == "none"

NoRun == [call |-> CHOOSE c \in Calls : TRUE, asked |-> FALSE, since |-> 0,
          snap |-> CHOOSE c \in Configs : TRUE, log |-> "none", flaky |-> FALSE,
          category |-> NoCategory, branch |-> "none", outcome |-> "needs_attention",
          repeats |-> 0, fed |-> 0, raw |-> {}, text |-> {}, paths |-> {}, dirty |-> {}]

Init ==
    /\ cfg \in Configs
    /\ edits = 0 /\ calls = 0 /\ pc = "idle" /\ run = NoRun
    /\ spool = {} /\ jira = {} /\ prs = {} /\ greens = {} /\ ledger = {}
    /\ patterns = Learnt

\* Most steps touch nothing but the run.
Local == UNCHANGED <<cfg, edits, calls, spool, jira, prs, greens, patterns, ledger>>
Goto(p) == pc' = p
Keep(p) == pc' = p /\ run' = run
Idle    == pc' = "idle" /\ run' = NoRun
End(outcome) == run' = [run EXCEPT !.outcome = outcome] /\ pc' = "record"

-----------------------------------------------------------------------------
(* The approval hook.                                                       *)

\* strip().lower() of a mode as it may be spelled.
Normal(mode) == CASE mode = "PR" -> "pr" [] mode = "blank" -> "" [] OTHER -> mode

\* Mutant: the hook forgets the configured default of the mode.
HookModeOfCall(call, c) == Normal(call.mode)

\* _pipeline_heal_mode and _jira_write_live, as the hook reads them.
HookMode(call, c) ==
    IF Normal(call.mode) # "" THEN Normal(call.mode) ELSE Normal(c.heal)
WriteLive(c) == c.token /\ c.write

\* pre_tool_call; the host does not run it for a command the user typed.
Escalates(call, c) ==
    \/ call.tool = "incident"
    \/ call.tool = "stabilize" /\ (HookMode(call, c) = "pr" \/ WriteLive(c))

Start(call) == IF call.tool = "incident" THEN "write" ELSE "build"

PreToolCall(call) ==
    /\ pc = "idle" /\ calls < MaxCalls
    /\ calls' = calls + 1
    /\ \E t \in (IF call.tool = "incident" THEN Texts ELSE {{}}) :
        run' = [NoRun EXCEPT !.call = call, !.asked = Escalates(call, cfg),
                             !.since = edits, !.raw = t, !.text = t,
                             !.paths = IF call.tool = "incident" THEN call.extra ELSE {}]
    /\ Goto(IF Escalates(call, cfg) THEN "approval" ELSE Start(call))
    /\ UNCHANGED <<cfg, edits, spool, jira, prs, greens, ledger, patterns>>

\* The human allows the call or refuses it.
Answered ==
    /\ pc = "approval"
    /\ Keep(Start(run.call)) \/ Idle
    /\ Local

-----------------------------------------------------------------------------
(* Evidence, history, triage, fork.                                         *)

\* build_pipeline reads the configuration once for the whole run.
BuildPipeline ==
    /\ pc = "build" /\ Goto("evidence")
    /\ run' = [run EXCEPT !.snap = cfg]
    /\ Local

\* _evidence: a log the caller names, or none to be had.
EvidenceGiven ==
    /\ pc = "evidence" /\ run.call.log # "build" /\ Goto("history")
    /\ run' = [run EXCEPT !.log = run.call.log]
    /\ Local

\* _spool_log: what is a day old is swept first, then a file made and written.
Swept == {f \in spool : ~f.old}
LogFile(half) == [call |-> calls, old |-> FALSE, orphan |-> FALSE, half |-> half]

\* _evidence and _spool_log: the fetched log goes to the spool.
EvidenceFetched ==
    /\ pc = "evidence" /\ run.call.log = "build" /\ Goto("history")
    /\ run' = [run EXCEPT !.log = "spooled"]
    /\ spool' = Swept \cup {LogFile(FALSE)}
    /\ UNCHANGED <<cfg, edits, calls, jira, prs, greens, ledger, patterns>>

\* The fetch fails, or the spool does: before its sweep, before the file is made, or
\* in writing it, which leaves the file behind.  An evidence error, not the end of
\* the run.
EvidenceFailed ==
    /\ pc = "evidence" /\ run.call.log = "build" /\ Keep("history")
    /\ spool' \in {spool, Swept, Swept \cup {LogFile(TRUE)}}
    /\ UNCHANGED <<cfg, edits, calls, jira, prs, greens, ledger, patterns>>

\* _history: the detective's verdict; none when a lookup fails.
History ==
    /\ pc = "history" /\ Goto("triage")
    /\ \E verdict \in (IF run.call.test THEN BOOLEAN ELSE {FALSE}) :
           run' = [run EXCEPT !.flaky = verdict]
    /\ Local

\* _triage without a log, or with one that cannot be fetched: no category.
TriageFails == pc = "triage" /\ Keep("fork") /\ Local

\* classify: the model's answer if the taxonomy has it, or else the first rule that
\* matches the excerpt, or its default.
Classified(e, answer) == IF answer \in Categories THEN answer ELSE e.rule

\* An excerpt that normalises to nothing has no signature; the default of a log
\* without a failure signal is not worth learning.
Learns(e, answer) == e.sig # NoSignature /\ (e.low => answer \in Categories)

\* PatternStore.record: one row per signature, with its latest category.
Recorded(e, category) ==
    {p \in patterns : p.sig # e.sig}
        \cup {[sig |-> e.sig, category |-> category, seen |-> calls]}

\* Mutant: the cap evicts what was seen last.
PrunedNewest(rows) ==
    {p \in rows : /\ p.seen >= calls - Retention
                  /\ Cardinality({q \in rows : q.seen < p.seen}) < MaxRows}

\* PatternStore.prune: rows past their retention go, then the least recently seen
\* ones over the cap.
Pruned(rows) ==
    LET young == {p \in rows : p.seen >= calls - Retention}
    IN  {p \in young : Cardinality({q \in young : q.seen > p.seen}) < MaxRows}

\* triage_pipeline_failure: what it learns is recorded when the store is in reach.
Triage ==
    /\ pc = "triage" /\ run.log # "none" /\ Goto("fork")
    /\ \E e \in Excerpts, answer \in Categories \cup {NoCategory} :
        LET category == Classified(e, answer)
        IN  /\ run' = [run EXCEPT !.category = category]
            /\ \/ patterns' = patterns
               \/ Learns(e, answer) /\ patterns' = Pruned(Recorded(e, category))
    /\ UNCHANGED <<cfg, edits, calls, spool, jira, prs, greens, ledger>>

\* _run_from_evidence: the branch is decided once, here.
Fork ==
    /\ pc = "fork"
    /\ LET category == IF run.category = NoCategory /\ run.flaky THEN "flaky"
                       ELSE run.category
           branch == CASE category \in HealCategories -> "heal"
                       [] category = NoCategory -> "none"
                       [] OTHER -> "bug"
       IN  /\ run' = [run EXCEPT !.category = category, !.branch = branch]
           /\ Goto(IF branch = "none" THEN "record" ELSE branch)
    /\ Local

-----------------------------------------------------------------------------
(* The heal branch.                                                         *)

\* _heal_branch hands the mode on as it is spelled; the healer normalises it
\* and rejects what is neither suggest nor pr.
HealMode(call, c) == Normal(IF call.mode # "" THEN call.mode ELSE c.heal)
CanHeal == run.call.repo /\ run.call.test

\* No repo_dir or test_id, an error, nonsense, or a burn-in that is not stable.
HealFails == pc = "heal" /\ End("needs_attention") /\ Local

\* Mutant: no cap on the green runs of one heal.
BurninRepeatsUncapped(n) == IF n = 0 THEN 1 ELSE n

\* _burnin_repeats: at least one, at most the cap.
BurninRepeats(n) == IF n = 0 THEN 1 ELSE IF n > MaxRepeats THEN MaxRepeats ELSE n

HealStable(pr) ==
    /\ pc = "heal" /\ CanHeal
    /\ HealMode(run.call, run.snap) \in (IF pr THEN {"pr"} ELSE {"suggest", "pr"})
    /\ \E n \in Repeats :
        run' = [run EXCEPT !.repeats = BurninRepeats(n),
                           !.outcome = IF pr THEN "pr_opened" ELSE "healed"]
    /\ prs' = IF pr THEN prs \cup {[call |-> calls, tool |-> run.call.tool,
                                    asked |-> run.asked, edited |-> edits # run.since]}
              ELSE prs
    /\ Goto("feedback")
    /\ UNCHANGED <<cfg, edits, calls, spool, jira, greens, ledger, patterns>>

\* Mutant: the repeats of one run share a source file.
SourceFileShared(index) == <<calls, 0>>

\* _feed_back_burnin: every repeat under a source file of its own.
SourceFile(index) == <<calls, index>>
FeedBack ==
    /\ pc = "feedback" /\ run.fed < run.repeats /\ Goto("feedback")
    /\ greens' = greens \cup {SourceFile(run.fed)}
    /\ run' = [run EXCEPT !.fed = @ + 1]
    /\ UNCHANGED <<cfg, edits, calls, spool, jira, prs, ledger, patterns>>

\* All written, or a write failed: a note, and the earlier ones stay.
FeedBackEnds == pc = "feedback" /\ Keep("record") /\ Local

-----------------------------------------------------------------------------
(* The bug branch up to the tracker.                                        *)

\* _bugreport and _dedup; the composer retries once and may still fail.
BugReport ==
    /\ pc = "bug"
    /\ \/ \E t \in Texts : run' = [run EXCEPT !.raw = t, !.text = t] /\ Goto("paths")
       \/ End("needs_attention")
    /\ Local

\* _coerce_evidence_paths, which rejects what is no list; a local log joins.
EvidencePaths ==
    /\ pc = "paths"
    /\ IF ~run.call.wellTyped THEN End("needs_attention")
       ELSE /\ run' = [run EXCEPT !.paths = run.call.extra \cup
                          ({run.log} \ {"none", "remote"})]
            /\ Goto("gate")
    /\ Local

\* assert_evidence_clean over what the paths hold at this moment, with or
\* without OCR, each scan at its own speed: the paths that held personal data
\* when everything passed.
Passing == {x \in Trees \X {c.max : c \in Configs} \X BOOLEAN :
               \E late \in {0, 1, NoLimit} : GateOk({x[1]}, x[2], x[3], late)}
Dirty == {t \in Trees : HoldsPii(t)}
Passes ==
    UNION {{{p \in run.paths : held[p] \in Dirty} :
               held \in [run.paths -> {t \in Trees : <<t, cfg.max, ocr>> \in Passing}]} :
           ocr \in BOOLEAN}

\* _pii_gate: off by configuration, or passed; anything else blocks.
PiiGate ==
    /\ pc = "gate"
    /\ \/ ~run.snap.gate /\ Keep("tracker")
       \/ /\ run.snap.gate
          /\ Passes # {}
          /\ Keep("tracker")
       \/ run.snap.gate /\ End("needs_attention")
    /\ Local

\* _tracker: the redacted ticket goes to the writer, or back to the user.
Tracker ==
    /\ pc = "tracker"
    /\ \/ /\ run.snap.write /\ Goto("write")
          /\ run' = [run EXCEPT !.text = EgressClean(@)]
       \/ ~run.snap.write /\ End("ticket_ready")
    /\ Local

-----------------------------------------------------------------------------
(* handle_create_incident, called by the tracker stage or as a tool.        *)

\* What an error envelope of the writer means to its caller.
NotCreated == IF run.call.tool = "incident" THEN Idle
              ELSE End("needs_attention")

\* It checks its arguments and reads the configuration again.
WriteEnabled ==
    /\ pc = "write"
    /\ IF run.call.wellTyped /\ cfg.write THEN Keep("scan") ELSE NotCreated
    /\ Local

\* Its own gate, whatever the pipeline's configuration said.
WriteGate ==
    /\ pc = "scan"
    /\ \/ \E dirty \in Passes :
              /\ run' = [run EXCEPT !.dirty = dirty] /\ Goto("post")
       \/ NotCreated
    /\ Local

\* The hits of a report, each apart from other values, that its issue shows.
Exposed(raw, text) == {h \in Hits(raw) \cap EgressClean(text) : Apart(h, raw)}

\* build_ticket redacts every field, whoever calls.
Issue == [call |-> calls, tool |-> run.call.tool, asked |-> run.asked,
          edited |-> edits # run.since, scanned |-> run.paths, dirty |-> run.dirty,
          log |-> run.log, exposed |-> Exposed(run.raw, run.text)]

\* create_incident: the issue exists and its key came back.
PostCreated ==
    /\ pc = "post" /\ cfg.token
    /\ jira' = jira \cup {Issue}
    /\ IF run.call.tool = "incident" THEN Idle ELSE End("ticket_created")
    /\ UNCHANGED <<cfg, edits, calls, spool, prs, greens, ledger, patterns>>

\* The issue exists, but the answer was lost or carries no key.
PostUnheard ==
    /\ pc = "post" /\ cfg.token
    /\ jira' = jira \cup {Issue}
    /\ NotCreated
    /\ UNCHANGED <<cfg, edits, calls, spool, prs, greens, ledger, patterns>>

\* No credentials, or Jira refuses.
PostRefused == pc = "post" /\ NotCreated /\ Local

-----------------------------------------------------------------------------
(* The end of a run.                                                        *)

\* _ledger and record_run.
Row == [call |-> calls, branch |-> run.branch, category |-> run.category,
        outcome |-> run.outcome, fed |-> run.fed]
Record ==
    /\ pc = "record" /\ Keep("cleanup")
    /\ ledger' = ledger \cup {Row}
    /\ UNCHANGED <<cfg, edits, calls, spool, jira, prs, greens, patterns>>

\* A ledger write that fails is logged and forgotten.
RecordFails == pc = "record" /\ Keep("cleanup") /\ Local

InTry == {"history", "triage", "fork", "heal", "feedback", "bug", "paths",
          "gate", "tracker", "record"}

\* Mutant: the cleanup is not in a finally.
EscapesUncleaned == pc \in InTry /\ Idle /\ Local

\* An exception no stage catches ends the run without a row.
Escapes == pc \in InTry /\ Keep("cleanup") /\ Local

\* _cleanup_spooled_evidence, in the finally of run: only a log the run got to read.
Cleanup ==
    /\ pc = "cleanup" /\ Idle
    /\ spool' = {f \in spool : ~(run.log = "spooled" /\ f.call = calls)}
    /\ UNCHANGED <<cfg, edits, calls, jira, prs, greens, ledger, patterns>>

-----------------------------------------------------------------------------
(* The world around a run.                                                  *)

EditConfig ==
    /\ edits < MaxEdits
    /\ \E c \in Configs \ {cfg} : cfg' = c
    /\ edits' = edits + 1
    /\ UNCHANGED <<calls, pc, run, spool, jira, prs, greens, ledger, patterns>>

HostDies ==
    /\ pc # "idle" /\ Idle
    /\ spool' = {[f EXCEPT !.orphan = @ \/ f.call = calls] : f \in spool}
    /\ UNCHANGED <<cfg, edits, calls, jira, prs, greens, ledger, patterns>>

DayPasses ==
    /\ pc = "idle" /\ \E f \in spool : ~f.old
    /\ spool' = {[f EXCEPT !.old = TRUE] : f \in spool}
    /\ UNCHANGED <<cfg, edits, calls, pc, run, jira, prs, greens, ledger, patterns>>

Step ==
    \/ Answered \/ BuildPipeline
    \/ EvidenceGiven \/ EvidenceFetched \/ EvidenceFailed
    \/ History \/ Triage \/ TriageFails \/ Fork
    \/ HealFails \/ (\E pr \in BOOLEAN : HealStable(pr)) \/ FeedBack \/ FeedBackEnds
    \/ BugReport \/ EvidencePaths \/ PiiGate \/ Tracker
    \/ WriteEnabled \/ WriteGate \/ PostCreated \/ PostUnheard \/ PostRefused
    \/ Record \/ RecordFails \/ Cleanup

Next ==
    \/ \E c \in Calls : PreToolCall(c)
    \/ Step
    \/ Escapes \/ EditConfig \/ HostDies \/ DayPasses

Spec == Init /\ [][Next]_vars

-----------------------------------------------------------------------------
(* Properties.                                                              *)

Pcs == InTry \cup {"idle", "approval", "build", "evidence", "write", "scan",
                   "post", "cleanup"}
Outcomes == {"healed", "pr_opened", "ticket_created", "ticket_ready",
             "needs_attention"}

\* Every variable has its type: a run is always at a step the code has, and
\* the ledger holds only outcomes the pipeline names.
PipelineTypeOK ==
    /\ cfg \in Configs /\ edits \in 0..MaxEdits /\ calls \in 0..MaxCalls
    /\ pc \in Pcs /\ run.call \in Calls /\ run.snap \in Configs
    /\ run.outcome \in Outcomes /\ run.fed \in 0..run.repeats
    /\ run.repeats \in 0..MaxRepeats
    /\ \A f \in spool : f.call \in 1..calls
    /\ \A w \in jira \cup prs : w.call \in 1..calls
    /\ \A g \in greens : g[1] \in 1..calls /\ g[2] \in 0..MaxRepeats
    /\ \A r \in ledger : r.call \in 1..calls /\ r.outcome \in Outcomes

\* The approval hook resolves the mode and the tracker's switches as the run
\* will: unless the configuration was edited after the hook, no tool call
\* files an issue or opens a pull request without having asked.
ApprovedWrites ==
    \A w \in {[tool |-> x.tool, asked |-> x.asked, edited |-> x.edited] :
                 x \in jira \cup prs} :
        w.tool # "command" => w.asked \/ w.edited

\* Even with the pipeline's gate switched off, and whatever happened to the
\* files between the two gates: when an issue is filed, each of its evidence
\* paths, the run's own log among them, was scanned to the end in that very
\* call of the writer and held no personal data anywhere in its tree.
CleanTickets ==
    \A i \in jira :
        /\ i.dirty = {}
        /\ i.tool # "incident" => {i.log} \ {"none", "remote"} \subseteq i.scanned

\* A value its validator accepts is hit even when a longer candidate of its
\* kind around it was rejected, findings never overlap, and an outermost hit
\* gives its span up only to a surer one; so what the detectors hit in a
\* report, apart from other values, never reaches the tracker untouched,
\* whether or not the redactor's own patterns take it.
Sound == {t \in Texts \cup {{}} :
    LET hits == Hits(t)
        kept == Findings(t)
    IN  /\ \A c \in Personal(t) : \E h \in hits : h.type = c.type /\ Overlap(c, h)
        /\ \A f, g \in kept : f = g \/ ~Overlap(f, g)
        /\ \A h \in hits :
              \/ \E g \in hits : Inside(h, g)
              \/ \E f \in kept : Overlap(h, f) /\ (f = h \/ Surer(f, h))}
MaskingSound == run.raw \in Sound /\ \A i \in jira : i.exposed = {}

\* mask_pii on its own, as the names of scanned files and the fields of error
\* texts pass through it: "Replace any raw PII appearing in *text* with its
\* masked preview."
Masked == {t \in Texts : Hits(t) \cap MaskPii(t) = {}}
NothingInTheClear == run.raw \in Masked

\* A ledger row tells what happened: a ticket or pull request it names exists,
\* a run that reports a healed test or a ready ticket filed nothing, and the
\* green runs it fed back are all in the history, each a run of its own.
OutcomeBacked ==
    \A r \in ledger :
        /\ r.outcome = "ticket_created" => \E i \in jira : i.call = r.call
        /\ r.outcome = "pr_opened" => \E p \in prs : p.call = r.call
        /\ r.outcome \in {"ticket_ready", "healed"} =>
               \A w \in jira \cup prs : w.call # r.call
        /\ r.outcome \in {"healed", "pr_opened"} => r.branch = "heal"
        /\ Cardinality({g \in greens : g[1] = r.call}) = r.fed

\* What a run acts on is what the next run with that failure will be told: the
\* pattern a triage has just recorded survives its own pruning, and what the pruning
\* takes away was seen before everything it leaves.
PatternsKept ==
    [][patterns' # patterns =>
         /\ \E p \in patterns' : p.seen = calls /\ p.category = run'.category
         /\ \A p \in patterns, q \in patterns' :
                (\A o \in patterns' : o.sig # p.sig) => p.seen < q.seen]_vars

\* What stays in the spool when no run is under way is a dead host's log or one whose
\* write failed, never one a run has read and ended with, whichever way it ended.  And
\* a run that has spooled its log keeps it, alone but for what is not yet a day old.
SpoolRemoved ==
    /\ \A f \in spool : f.orphan \/ f.half \/ (f.call = calls /\ pc # "idle")
    /\ run.log = "spooled" => LogFile(FALSE) \in spool /\ Swept = spool

=============================================================================
