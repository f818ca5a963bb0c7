--------------------------- MODULE Pipeline_proofs ---------------------------
(***************************************************************************)
(* Proofs about the failure-response pipeline, for any calls, any states   *)
(* of the configuration, any texts, excerpts and evidence trees, and any   *)
(* number of calls and edits: what a ledger row says, which writes a human *)
(* was asked about, what stays in the spool, and what the pattern store    *)
(* forgets.                                                                *)
(***************************************************************************)
EXTENDS Pipeline, FiniteSetTheorems, FunctionTheorems, WellFoundedInduction, TLAPS

-----------------------------------------------------------------------------
(* The inductive invariants.                                               *)

RunFields == {"call", "asked", "since", "snap", "log", "flaky", "category", "branch",
              "outcome", "repeats", "fed", "raw", "text", "paths", "dirty"}

\* PipelineTypeOK, with what else the steps read of a run.
RunShape(r) ==
    /\ DOMAIN r = RunFields
    /\ r.call \in Calls /\ r.snap \in Configs /\ r.since \in Nat
    /\ r.outcome \in Outcomes
    /\ r.repeats \in 0..MaxRepeats /\ r.fed \in 0..r.repeats

RunTyped ==
    /\ RunShape(run)
    /\ run.since <= edits
    /\ pc # "idle" => calls > 0
    /\ pc \notin {"feedback", "record", "cleanup"} => run.fed = 0

WorldTyped ==
    /\ cfg \in Configs /\ edits \in 0..MaxEdits /\ calls \in 0..MaxCalls /\ pc \in Pcs
    /\ \A f \in spool : DOMAIN f = {"call", "old", "orphan", "half"} /\ f.call \in 1..calls
    /\ \A w \in jira \cup prs : w.call \in 1..calls
    /\ \A g \in greens : g[1] \in 1..calls /\ g[2] \in 0..MaxRepeats
    /\ \A r \in ledger : r.call \in 1..calls /\ r.outcome \in Outcomes

Typed == RunTyped /\ WorldTyped

\* Until the configuration is edited, what the hook and the build read of it
\* is what it is, and a writer past its own check may write.
HookStands ==
    /\ pc \in InTry \cup {"evidence", "build"} => run.call.tool # "incident"
    /\ pc # "idle" /\ run.since = edits =>
          /\ run.asked = Escalates(run.call, cfg)
          /\ pc \notin {"approval", "build"} /\ run.call.tool # "incident" => run.snap = cfg
          /\ pc \in {"scan", "post"} => cfg.write

\* A log is in the spool while its run is under way, or its host died, or its write failed;
\* a run that reads the spool has its own log there, and swept what is old.
SpoolOwned ==
    /\ \A f \in spool : f.orphan \/ f.half
                        \/ (f.call = calls /\ run.log = "spooled" /\ pc # "idle")
    /\ run.log = "spooled" => LogFile(FALSE) \in spool /\ \A f \in spool : ~f.old
    /\ pc \in {"idle", "approval", "build", "evidence"} \/ run.call.tool = "incident"
          => run.log = "none"

GreensOf(n) == {g \in greens : g[1] = n}

\* What a run has done so far, against the outcome it carries.
RunBacked ==
    pc # "idle" =>
        /\ pc \notin {"feedback", "record", "cleanup"} => run.outcome = "needs_attention"
        /\ run.outcome = "ticket_created" => \E i \in jira : i.call = calls
        /\ run.outcome = "pr_opened" => \E p \in prs : p.call = calls
        /\ pc = "heal" \/ run.outcome \in {"healed", "pr_opened"} => run.branch = "heal"
        /\ (\E w \in jira \cup prs : w.call = calls) =>
              pc \in {"feedback", "record", "cleanup"} /\ run.outcome \notin {"ticket_ready", "healed"}
        /\ IsFiniteSet(GreensOf(calls)) /\ Cardinality(GreensOf(calls)) = run.fed
        /\ \A g \in GreensOf(calls) : g[2] < run.fed
        /\ (\E r \in ledger : r.call = calls) => pc = "cleanup"

\* A writer past its gate has found nothing, and looked at the run's own log.
Scanned ==
    /\ pc = "post" => run.dirty = {}
    /\ pc \in {"gate", "tracker", "write", "scan", "post"} /\ run.call.tool # "incident" =>
          {run.log} \ {"none", "remote"} \subseteq run.paths

\* What a run reports is what its report said, or what is left of that; no
\* issue shows a value that stands apart.
Reported ==
    /\ run.raw \in Texts \cup {{}} /\ run.text \subseteq run.raw
    /\ \A i \in jira : i.exposed = {}

PatternsTyped == IsFiniteSet(patterns) /\ \A p \in patterns : p.seen \in Int /\ p.seen <= calls

-----------------------------------------------------------------------------
(* Types.                                                                   *)

\* The assumption, without what it says of texts and trees.
LEMMA Parameters ==
    /\ Calls # {} /\ Configs # {}
    /\ \A c \in Calls : /\ c.tool \in {"stabilize", "command", "incident"}
                        /\ c.log \in {"none", "build", "local", "remote"}
    /\ IsFiniteSet(Learnt) /\ \A p \in Learnt : p.seen \in Int /\ p.seen <= 0
    /\ MaxRows \in Nat \ {0} /\ Retention \in Nat
    /\ Repeats \subseteq Nat /\ MaxRepeats \in Nat \ {0}
    /\ MaxCalls \in Nat /\ MaxEdits \in Nat
BY PipelineAssumption

\* The run of no call has every field.
LEMMA NoRunFields ==
    /\ DOMAIN NoRun = RunFields
    /\ NoRun.call \in Calls /\ NoRun.snap \in Configs /\ NoRun.since = 0
    /\ NoRun.outcome = "needs_attention" /\ NoRun.repeats = 0 /\ NoRun.fed = 0
    /\ NoRun.log = "none" /\ NoRun.branch = "none"
<1>1. (CHOOSE c \in Calls : TRUE) \in Calls /\ (CHOOSE c \in Configs : TRUE) \in Configs
  BY Parameters
<1> QED
  BY <1>1 DEF NoRun, RunFields

\* A call that ends leaves no run.
LEMMA IdleRun ==
  ASSUME Typed, Idle, UNCHANGED edits
  PROVE  RunTyped'
<1>1. RunShape(NoRun) /\ NoRun.since <= edits
  BY NoRunFields, Parameters DEF RunShape, Outcomes, Typed, WorldTyped
<1> QED
  BY <1>1, NoRunFields DEF Idle, RunTyped

\* The running call keeps its types; it feeds back no more than its repeats.
LEMMA RunTypedInductive ==
  ASSUME Typed, [Next]_vars
  PROVE  RunTyped'
<1> USE Parameters DEF Local, Goto, Keep, End, NotCreated, Start
<1> USE DEF RunFields
<1> USE DEF Typed, RunTyped, RunShape, WorldTyped, Outcomes
<1>1. ASSUME NEW c \in Calls, PreToolCall(c) PROVE RunTyped'
  <2>1. \A t, e : [NoRun EXCEPT !.call = c, !.asked = Escalates(c, cfg), !.since = edits, !.raw = t,
                              !.text = t, !.paths = e].call = c
    BY NoRunFields
  <2> QED
    BY <1>1, NoRunFields DEF PreToolCall, Escalates
<1>2. ASSUME Answered PROVE RunTyped'
  BY <1>2, IdleRun DEF Answered
<1>3. ASSUME BuildPipeline PROVE RunTyped'
  BY <1>3 DEF BuildPipeline
<1>4. ASSUME EvidenceGiven PROVE RunTyped'
  BY <1>4 DEF EvidenceGiven
<1>5. ASSUME EvidenceFetched PROVE RunTyped'
  BY <1>5 DEF EvidenceFetched
<1>6. ASSUME EvidenceFailed PROVE RunTyped'
  BY <1>6 DEF EvidenceFailed
<1>7. ASSUME History PROVE RunTyped'
  BY <1>7 DEF History
<1>8. ASSUME Triage PROVE RunTyped'
  BY <1>8 DEF Triage
<1>9. ASSUME TriageFails PROVE RunTyped'
  BY <1>9 DEF TriageFails
<1>10. ASSUME Fork PROVE RunTyped'
  BY <1>10 DEF Fork
<1>11. ASSUME HealFails PROVE RunTyped'
  BY <1>11 DEF HealFails
<1>12. ASSUME NEW pr \in BOOLEAN, HealStable(pr) PROVE RunTyped'
  <2>1. PICK n \in Repeats :
          run' = [run EXCEPT !.repeats = BurninRepeats(n),
                             !.outcome = IF pr THEN "pr_opened" ELSE "healed"]
    BY <1>12 DEF HealStable
  <2>2. BurninRepeats(n) \in 0..MaxRepeats
    BY DEF BurninRepeats
  <2>3. run.fed = 0 /\ 0 \in 0..BurninRepeats(n)
    BY <1>12, <2>2 DEF HealStable
  <2>4. RunShape(run')
    BY <2>1, <2>2, <2>3
  <2> QED
    BY <1>12, <2>1, <2>4 DEF HealStable
<1>13. ASSUME FeedBack PROVE RunTyped'
  BY <1>13 DEF FeedBack
<1>14. ASSUME FeedBackEnds PROVE RunTyped'
  BY <1>14 DEF FeedBackEnds
<1>15. ASSUME BugReport PROVE RunTyped'
  BY <1>15 DEF BugReport
<1>16. ASSUME EvidencePaths PROVE RunTyped'
  BY <1>16 DEF EvidencePaths
<1>17. ASSUME PiiGate PROVE RunTyped'
  BY <1>17 DEF PiiGate
<1>18. ASSUME Tracker PROVE RunTyped'
  BY <1>18 DEF Tracker
<1>19. ASSUME WriteEnabled PROVE RunTyped'
  BY <1>19, IdleRun DEF WriteEnabled
<1>20. ASSUME WriteGate PROVE RunTyped'
  BY <1>20, IdleRun DEF WriteGate
<1>21. ASSUME PostCreated PROVE RunTyped'
  BY <1>21, IdleRun DEF PostCreated
<1>22. ASSUME PostUnheard PROVE RunTyped'
  BY <1>22, IdleRun DEF PostUnheard
<1>23. ASSUME PostRefused PROVE RunTyped'
  BY <1>23, IdleRun DEF PostRefused
<1>24. ASSUME Record PROVE RunTyped'
  BY <1>24 DEF Record
<1>25. ASSUME RecordFails PROVE RunTyped'
  BY <1>25 DEF RecordFails
<1>26. ASSUME Cleanup PROVE RunTyped'
  BY <1>26, IdleRun DEF Cleanup
<1>27. ASSUME Escapes PROVE RunTyped'
  BY <1>27 DEF Escapes, InTry
<1>28. ASSUME EditConfig PROVE RunTyped'
  BY <1>28 DEF EditConfig
<1>29. ASSUME HostDies PROVE RunTyped'
  BY <1>29, IdleRun DEF HostDies
<1>30. ASSUME DayPasses PROVE RunTyped'
  BY <1>30 DEF DayPasses
<1>31. ASSUME UNCHANGED vars PROVE RunTyped'
  BY <1>31 DEF vars
<1> QED
  BY <1>1, <1>2, <1>3, <1>4, <1>5, <1>6, <1>7, <1>8, <1>9, <1>10, <1>11, <1>12, <1>13,
     <1>14, <1>15, <1>16, <1>17, <1>18, <1>19, <1>20, <1>21, <1>22, <1>23, <1>24, <1>25,
     <1>26, <1>27, <1>28, <1>29, <1>30, <1>31
  DEF Next, Step

\* So does what surrounds it.
LEMMA WorldTypedInductive ==
  ASSUME Typed, [Next]_vars
  PROVE  WorldTyped'
<1> USE Parameters DEF Local, Goto, Keep, End, NotCreated, Start
<1> USE DEF RunFields
<1> USE DEF Typed, RunTyped, RunShape, WorldTyped, Outcomes, Pcs, InTry, Idle
<1>1. ASSUME NEW c \in Calls, PreToolCall(c) PROVE WorldTyped'
  BY <1>1 DEF PreToolCall
<1>2. ASSUME Answered PROVE WorldTyped'
  BY <1>2 DEF Answered
<1>3. ASSUME BuildPipeline PROVE WorldTyped'
  BY <1>3 DEF BuildPipeline
<1>4. ASSUME EvidenceGiven PROVE WorldTyped'
  BY <1>4 DEF EvidenceGiven
<1>5. ASSUME EvidenceFetched PROVE WorldTyped'
  <2>1. \A f \in spool' : f \in spool \/ f = LogFile(FALSE)
    BY <1>5 DEF EvidenceFetched, Swept
  <2> QED
    BY <1>5, <2>1 DEF EvidenceFetched, LogFile
<1>6. ASSUME EvidenceFailed PROVE WorldTyped'
  <2>1. \A f \in spool' : f \in spool \/ f = LogFile(TRUE)
    BY ONLY <1>6 DEF EvidenceFailed, Swept
  <2> QED
    BY <1>6, <2>1 DEF EvidenceFailed, LogFile
<1>7. ASSUME History PROVE WorldTyped'
  BY <1>7 DEF History
<1>8. ASSUME Triage PROVE WorldTyped'
  BY <1>8 DEF Triage
<1>9. ASSUME TriageFails PROVE WorldTyped'
  BY <1>9 DEF TriageFails
<1>10. ASSUME Fork PROVE WorldTyped'
  BY <1>10 DEF Fork
<1>11. ASSUME HealFails PROVE WorldTyped'
  BY <1>11 DEF HealFails
<1>12. ASSUME NEW pr \in BOOLEAN, HealStable(pr) PROVE WorldTyped'
  BY <1>12 DEF HealStable
<1>13. ASSUME FeedBack PROVE WorldTyped'
  BY <1>13 DEF FeedBack, SourceFile
<1>14. ASSUME FeedBackEnds PROVE WorldTyped'
  BY <1>14 DEF FeedBackEnds
<1>15. ASSUME BugReport PROVE WorldTyped'
  BY <1>15 DEF BugReport
<1>16. ASSUME EvidencePaths PROVE WorldTyped'
  BY <1>16 DEF EvidencePaths
<1>17. ASSUME PiiGate PROVE WorldTyped'
  BY <1>17 DEF PiiGate
<1>18. ASSUME Tracker PROVE WorldTyped'
  BY <1>18 DEF Tracker
<1>19. ASSUME WriteEnabled PROVE WorldTyped'
  BY <1>19 DEF WriteEnabled
<1>20. ASSUME WriteGate PROVE WorldTyped'
  BY <1>20 DEF WriteGate
<1>21. ASSUME PostCreated PROVE WorldTyped'
  BY <1>21 DEF PostCreated, Issue
<1>22. ASSUME PostUnheard PROVE WorldTyped'
  BY <1>22 DEF PostUnheard, Issue
<1>23. ASSUME PostRefused PROVE WorldTyped'
  BY <1>23 DEF PostRefused
<1>24. ASSUME Record PROVE WorldTyped'
  BY <1>24 DEF Record, Row
<1>25. ASSUME RecordFails PROVE WorldTyped'
  BY <1>25 DEF RecordFails
<1>26. ASSUME Cleanup PROVE WorldTyped'
  BY <1>26 DEF Cleanup
<1>27. ASSUME Escapes PROVE WorldTyped'
  BY <1>27 DEF Escapes
<1>28. ASSUME EditConfig PROVE WorldTyped'
  BY <1>28 DEF EditConfig
<1>29. ASSUME HostDies PROVE WorldTyped'
  <2>1. \A f \in spool' : \E g \in spool : DOMAIN f = DOMAIN g /\ f.call = g.call
    BY <1>29 DEF HostDies
  <2> QED
    BY <1>29, <2>1 DEF HostDies
<1>30. ASSUME DayPasses PROVE WorldTyped'
  <2>1. \A f \in spool' : \E g \in spool : DOMAIN f = DOMAIN g /\ f.call = g.call
    BY <1>30 DEF DayPasses
  <2> QED
    BY <1>30, <2>1 DEF DayPasses
<1>31. ASSUME UNCHANGED vars PROVE WorldTyped'
  BY <1>31 DEF vars
<1> QED
  BY <1>1, <1>2, <1>3, <1>4, <1>5, <1>6, <1>7, <1>8, <1>9, <1>10, <1>11, <1>12, <1>13,
     <1>14, <1>15, <1>16, <1>17, <1>18, <1>19, <1>20, <1>21, <1>22, <1>23, <1>24, <1>25,
     <1>26, <1>27, <1>28, <1>29, <1>30, <1>31
  DEF Next, Step

-----------------------------------------------------------------------------
(* The hook.                                                                *)

\* A run that will open a pull request was one the hook asked about.
LEMMA ModesAgree ==
  ASSUME NEW call, NEW c, HealMode(call, c) = "pr"
  PROVE  HookMode(call, c) = "pr"
<1>1. Normal("") = ""
  BY DEF Normal
<1> QED
  BY <1>1 DEF HealMode, HookMode, Normal

\* What the hook and the build read of the configuration stays true until it is edited.
LEMMA HookStandsInductive ==
  ASSUME Typed, HookStands, [Next]_vars
  PROVE  HookStands'
<1> USE Parameters DEF Local, Goto, Keep, End, NotCreated, Start
<1> USE DEF RunFields
<1> USE DEF Typed, RunTyped, RunShape, WorldTyped, HookStands, InTry, Idle
<1> USE NoRunFields
<1>1. ASSUME NEW c \in Calls, PreToolCall(c) PROVE HookStands'
  BY <1>1 DEF PreToolCall
<1>2. ASSUME Answered PROVE HookStands'
  BY <1>2 DEF Answered
<1>3. ASSUME BuildPipeline PROVE HookStands'
  BY <1>3 DEF BuildPipeline
<1>4. ASSUME EvidenceGiven PROVE HookStands'
  BY <1>4 DEF EvidenceGiven
<1>5. ASSUME EvidenceFetched PROVE HookStands'
  BY <1>5 DEF EvidenceFetched
<1>6. ASSUME EvidenceFailed PROVE HookStands'
  BY <1>6 DEF EvidenceFailed
<1>7. ASSUME History PROVE HookStands'
  BY <1>7 DEF History
<1>8. ASSUME Triage PROVE HookStands'
  BY <1>8 DEF Triage
<1>9. ASSUME TriageFails PROVE HookStands'
  BY <1>9 DEF TriageFails
<1>10. ASSUME Fork PROVE HookStands'
  BY <1>10 DEF Fork
<1>11. ASSUME HealFails PROVE HookStands'
  BY <1>11 DEF HealFails
<1>12. ASSUME NEW pr \in BOOLEAN, HealStable(pr) PROVE HookStands'
  BY <1>12 DEF HealStable
<1>13. ASSUME FeedBack PROVE HookStands'
  BY <1>13 DEF FeedBack
<1>14. ASSUME FeedBackEnds PROVE HookStands'
  BY <1>14 DEF FeedBackEnds
<1>15. ASSUME BugReport PROVE HookStands'
  BY <1>15 DEF BugReport
<1>16. ASSUME EvidencePaths PROVE HookStands'
  BY <1>16 DEF EvidencePaths
<1>17. ASSUME PiiGate PROVE HookStands'
  BY <1>17 DEF PiiGate
<1>18. ASSUME Tracker PROVE HookStands'
  BY <1>18 DEF Tracker
<1>19. ASSUME WriteEnabled PROVE HookStands'
  BY <1>19 DEF WriteEnabled
<1>20. ASSUME WriteGate PROVE HookStands'
  BY <1>20 DEF WriteGate
<1>21. ASSUME PostCreated PROVE HookStands'
  BY <1>21 DEF PostCreated
<1>22. ASSUME PostUnheard PROVE HookStands'
  BY <1>22 DEF PostUnheard
<1>23. ASSUME PostRefused PROVE HookStands'
  BY <1>23 DEF PostRefused
<1>24. ASSUME Record PROVE HookStands'
  BY <1>24 DEF Record
<1>25. ASSUME RecordFails PROVE HookStands'
  BY <1>25 DEF RecordFails
<1>26. ASSUME Cleanup PROVE HookStands'
  BY <1>26 DEF Cleanup
<1>27. ASSUME Escapes PROVE HookStands'
  BY <1>27 DEF Escapes
<1>28. ASSUME EditConfig PROVE HookStands'
  BY <1>28 DEF EditConfig
<1>29. ASSUME HostDies PROVE HookStands'
  BY <1>29 DEF HostDies
<1>30. ASSUME DayPasses PROVE HookStands'
  BY <1>30 DEF DayPasses
<1>31. ASSUME UNCHANGED vars PROVE HookStands'
  BY <1>31 DEF vars
<1> QED
  BY <1>1, <1>2, <1>3, <1>4, <1>5, <1>6, <1>7, <1>8, <1>9, <1>10, <1>11, <1>12, <1>13,
     <1>14, <1>15, <1>16, <1>17, <1>18, <1>19, <1>20, <1>21, <1>22, <1>23, <1>24, <1>25,
     <1>26, <1>27, <1>28, <1>29, <1>30, <1>31
  DEF Next, Step

\* A log leaves the spool with its run.
LEMMA SpoolOwnedInductive ==
  ASSUME Typed, HookStands, SpoolOwned, [Next]_vars
  PROVE  SpoolOwned'
<1> USE Parameters DEF Local, Goto, Keep, End, NotCreated, Start
<1> USE DEF RunFields
<1> USE DEF Typed, RunTyped, RunShape, WorldTyped, HookStands, SpoolOwned, InTry, Idle, LogFile
<1> USE NoRunFields
<1>1. ASSUME NEW c \in Calls, PreToolCall(c) PROVE SpoolOwned'
  BY <1>1 DEF PreToolCall
<1>2. ASSUME Answered PROVE SpoolOwned'
  BY <1>2 DEF Answered
<1>3. ASSUME BuildPipeline PROVE SpoolOwned'
  BY <1>3 DEF BuildPipeline
<1>4. ASSUME EvidenceGiven PROVE SpoolOwned'
  BY <1>4 DEF EvidenceGiven
<1>5. ASSUME EvidenceFetched PROVE SpoolOwned'
  <2>1. \A f \in spool' : (f \in spool /\ ~f.old) \/ f = LogFile(FALSE)
    BY <1>5 DEF EvidenceFetched, Swept
  <2>2. LogFile(FALSE)' = LogFile(FALSE) /\ LogFile(FALSE) \in spool'
    BY <1>5 DEF EvidenceFetched, LogFile
  <2> QED
    BY <1>5, <2>1, <2>2 DEF EvidenceFetched, LogFile
<1>6. ASSUME EvidenceFailed PROVE SpoolOwned'
  <2>1. \A f \in spool' : f \in spool \/ f = LogFile(TRUE)
    BY ONLY <1>6 DEF EvidenceFailed, Swept
  <2> QED
    BY <1>6, <2>1 DEF EvidenceFailed, LogFile
<1>7. ASSUME History PROVE SpoolOwned'
  BY <1>7 DEF History
<1>8. ASSUME Triage PROVE SpoolOwned'
  BY <1>8 DEF Triage
<1>9. ASSUME TriageFails PROVE SpoolOwned'
  BY <1>9 DEF TriageFails
<1>10. ASSUME Fork PROVE SpoolOwned'
  BY <1>10 DEF Fork
<1>11. ASSUME HealFails PROVE SpoolOwned'
  BY <1>11 DEF HealFails
<1>12. ASSUME NEW pr \in BOOLEAN, HealStable(pr) PROVE SpoolOwned'
  BY <1>12 DEF HealStable
<1>13. ASSUME FeedBack PROVE SpoolOwned'
  BY <1>13 DEF FeedBack
<1>14. ASSUME FeedBackEnds PROVE SpoolOwned'
  BY <1>14 DEF FeedBackEnds
<1>15. ASSUME BugReport PROVE SpoolOwned'
  BY <1>15 DEF BugReport
<1>16. ASSUME EvidencePaths PROVE SpoolOwned'
  BY <1>16 DEF EvidencePaths
<1>17. ASSUME PiiGate PROVE SpoolOwned'
  BY <1>17 DEF PiiGate
<1>18. ASSUME Tracker PROVE SpoolOwned'
  BY <1>18 DEF Tracker
<1>19. ASSUME WriteEnabled PROVE SpoolOwned'
  BY <1>19 DEF WriteEnabled
<1>20. ASSUME WriteGate PROVE SpoolOwned'
  BY <1>20 DEF WriteGate
<1>21. ASSUME PostCreated PROVE SpoolOwned'
  BY <1>21 DEF PostCreated
<1>22. ASSUME PostUnheard PROVE SpoolOwned'
  BY <1>22 DEF PostUnheard
<1>23. ASSUME PostRefused PROVE SpoolOwned'
  BY <1>23 DEF PostRefused
<1>24. ASSUME Record PROVE SpoolOwned'
  BY <1>24 DEF Record
<1>25. ASSUME RecordFails PROVE SpoolOwned'
  BY <1>25 DEF RecordFails
<1>26. ASSUME Cleanup PROVE SpoolOwned'
  BY <1>26 DEF Cleanup
<1>27. ASSUME Escapes PROVE SpoolOwned'
  BY <1>27 DEF Escapes
<1>28. ASSUME EditConfig PROVE SpoolOwned'
  BY <1>28 DEF EditConfig
<1>29. ASSUME HostDies PROVE SpoolOwned'
  <2>1. \A f \in spool' : \E g \in spool :
              f.orphan = (g.orphan \/ g.call = calls) /\ f.half = g.half
    BY ONLY <1>29, Typed DEF HostDies, Typed, WorldTyped
  <2> QED
    BY <1>29, <2>1 DEF HostDies
<1>30. ASSUME DayPasses PROVE SpoolOwned'
  <2>1. \A f \in spool' : \E g \in spool :
              f.orphan = g.orphan /\ f.call = g.call /\ f.half = g.half
    BY <1>30 DEF DayPasses
  <2> QED
    BY <1>30, <2>1 DEF DayPasses
<1>31. ASSUME UNCHANGED vars PROVE SpoolOwned'
  BY <1>31 DEF vars
<1> QED
  BY <1>1, <1>2, <1>3, <1>4, <1>5, <1>6, <1>7, <1>8, <1>9, <1>10, <1>11, <1>12, <1>13,
     <1>14, <1>15, <1>16, <1>17, <1>18, <1>19, <1>20, <1>21, <1>22, <1>23, <1>24, <1>25,
     <1>26, <1>27, <1>28, <1>29, <1>30, <1>31
  DEF Next, Step

\* ApprovedWrites, record by record.
Asked == \A w \in jira \cup prs : w.tool # "command" => w.asked \/ w.edited

\* What the hook let pass unasked, no step writes before the configuration is edited.
LEMMA AskedInductive ==
  ASSUME Typed, HookStands, Asked, [Next]_vars
  PROVE  Asked'
<1> USE Parameters DEF Local, Goto, Keep, End, NotCreated, Start
<1> USE DEF RunFields
<1> USE DEF Typed, RunTyped, RunShape, WorldTyped, HookStands, Asked, InTry, Idle
<1> USE NoRunFields
<1>1. ASSUME NEW c \in Calls, PreToolCall(c) PROVE Asked'
  BY <1>1 DEF PreToolCall
<1>2. ASSUME Answered PROVE Asked'
  BY <1>2 DEF Answered
<1>3. ASSUME BuildPipeline PROVE Asked'
  BY <1>3 DEF BuildPipeline
<1>4. ASSUME EvidenceGiven PROVE Asked'
  BY <1>4 DEF EvidenceGiven
<1>5. ASSUME EvidenceFetched PROVE Asked'
  BY <1>5 DEF EvidenceFetched
<1>6. ASSUME EvidenceFailed PROVE Asked'
  BY <1>6 DEF EvidenceFailed
<1>7. ASSUME History PROVE Asked'
  BY <1>7 DEF History
<1>8. ASSUME Triage PROVE Asked'
  BY <1>8 DEF Triage
<1>9. ASSUME TriageFails PROVE Asked'
  BY <1>9 DEF TriageFails
<1>10. ASSUME Fork PROVE Asked'
  BY <1>10 DEF Fork
<1>11. ASSUME HealFails PROVE Asked'
  BY <1>11 DEF HealFails
<1>12. ASSUME NEW pr \in BOOLEAN, HealStable(pr) PROVE Asked'
  <2>1. CASE pr
    <3>1. HookMode(run.call, run.snap) = "pr" /\ run.call.tool # "incident"
      BY <1>12, <2>1, ModesAgree DEF HealStable
    <3>2. edits = run.since /\ run.call.tool # "command" => run.asked
      BY <1>12, <3>1 DEF HealStable, Escalates
    <3>3. \A w \in prs' : \/ w \in prs
                          \/ w.tool = run.call.tool /\ w.asked = run.asked /\ w.edited = (edits # run.since)
      BY <1>12, <2>1 DEF HealStable
    <3> QED
      BY <1>12, <3>2, <3>3 DEF HealStable
  <2>2. CASE ~pr
    BY <1>12, <2>2 DEF HealStable
  <2> QED
    BY <2>1, <2>2
<1>13. ASSUME FeedBack PROVE Asked'
  BY <1>13 DEF FeedBack
<1>14. ASSUME FeedBackEnds PROVE Asked'
  BY <1>14 DEF FeedBackEnds
<1>15. ASSUME BugReport PROVE Asked'
  BY <1>15 DEF BugReport
<1>16. ASSUME EvidencePaths PROVE Asked'
  BY <1>16 DEF EvidencePaths
<1>17. ASSUME PiiGate PROVE Asked'
  BY <1>17 DEF PiiGate
<1>18. ASSUME Tracker PROVE Asked'
  BY <1>18 DEF Tracker
<1>19. ASSUME WriteEnabled PROVE Asked'
  BY <1>19 DEF WriteEnabled
<1>20. ASSUME WriteGate PROVE Asked'
  BY <1>20 DEF WriteGate
<1>21. ASSUME PostCreated PROVE Asked'
  <2>1. edits = run.since /\ run.call.tool # "command" => run.asked
    BY <1>21 DEF PostCreated, Escalates, WriteLive
  <2>2. \A w \in jira' : \/ w \in jira
                         \/ w.tool = run.call.tool /\ w.asked = run.asked /\ w.edited = (edits # run.since)
    BY <1>21 DEF PostCreated, Issue
  <2> QED
    BY <1>21, <2>1, <2>2 DEF PostCreated
<1>22. ASSUME PostUnheard PROVE Asked'
  <2>1. edits = run.since /\ run.call.tool # "command" => run.asked
    BY <1>22 DEF PostUnheard, Escalates, WriteLive
  <2>2. \A w \in jira' : \/ w \in jira
                         \/ w.tool = run.call.tool /\ w.asked = run.asked /\ w.edited = (edits # run.since)
    BY <1>22 DEF PostUnheard, Issue
  <2> QED
    BY <1>22, <2>1, <2>2 DEF PostUnheard
<1>23. ASSUME PostRefused PROVE Asked'
  BY <1>23 DEF PostRefused
<1>24. ASSUME Record PROVE Asked'
  BY <1>24 DEF Record
<1>25. ASSUME RecordFails PROVE Asked'
  BY <1>25 DEF RecordFails
<1>26. ASSUME Cleanup PROVE Asked'
  BY <1>26 DEF Cleanup
<1>27. ASSUME Escapes PROVE Asked'
  BY <1>27 DEF Escapes
<1>28. ASSUME EditConfig PROVE Asked'
  BY <1>28 DEF EditConfig
<1>29. ASSUME HostDies PROVE Asked'
  BY <1>29 DEF HostDies
<1>30. ASSUME DayPasses PROVE Asked'
  BY <1>30 DEF DayPasses
<1>31. ASSUME UNCHANGED vars PROVE Asked'
  BY <1>31 DEF vars
<1> QED
  BY <1>1, <1>2, <1>3, <1>4, <1>5, <1>6, <1>7, <1>8, <1>9, <1>10, <1>11, <1>12, <1>13,
     <1>14, <1>15, <1>16, <1>17, <1>18, <1>19, <1>20, <1>21, <1>22, <1>23, <1>24, <1>25,
     <1>26, <1>27, <1>28, <1>29, <1>30, <1>31
  DEF Next, Step

-----------------------------------------------------------------------------
(* Texts and their candidates.                                              *)

\* Naturals have a least among them.
LEMMA Least ==
  ASSUME NEW T \in SUBSET Nat, T # {}
  PROVE  \E n \in T : \A m \in T : n <= m
<1>1. PICK n \in T : \A m \in T : ~(<<m, n>> \in OpToRel(<, Nat))
  BY WFMin, NatLessThanWellFounded
<1>2. \A k, m \in Nat : k < m => <<k, m>> \in OpToRel(<, Nat)
  BY DEF OpToRel
<1>3. n \in Nat /\ \A m \in T : m \in Nat
  OBVIOUS
<1>4. \A m \in T : ~(m < n)
  BY ONLY <1>1, <1>2, <1>3
<1> QED
  BY <1>3, <1>4

\* Every detector has a place of its own in the registry.
LEMMA Priorities ==
  ASSUME NEW type \in Types
  PROVE  Priority(type) \in 1..8 /\ Registry[Priority(type)] = type
<1>1. DOMAIN Registry = 1..8
  BY DEF Registry
<1>2. PICK i \in DOMAIN Registry : Registry[i] = type
  BY DEF Types
<1> HIDE DEF Registry
<1> QED
  BY <1>1, <1>2 DEF Priority

\* What a candidate of a text is made of.
LEMMA TextFields ==
  ASSUME NEW text, IsText(text), NEW c \in text
  PROVE  /\ c.type \in Types /\ c.s \in Nat /\ c.e \in Nat /\ c.ok \in BOOLEAN
         /\ c.s < c.e /\ c.e <= TextLen /\ TextLen \in Nat /\ Overlap(c, c)
BY PiiAssumption DEF IsText, Overlap

\* A part of a text is a text.
LEMMA PartOfText ==
  ASSUME NEW text, IsText(text), NEW part \in SUBSET text
  PROVE  IsText(part)
BY FS_Subset DEF IsText

\* Two candidates of one detector with one start are one.
LEMMA OneAtAPlace ==
  ASSUME NEW text, IsText(text), NEW c \in text, NEW d \in text,
         c.type = d.type, c.s = d.s
  PROVE  c = d
BY DEF IsText

\* Of several candidates one is surer than all the others.
LEMMA SurestExists ==
  ASSUME NEW text, IsText(text), NEW rest \in SUBSET text, rest # {}
  PROVE  \E m \in rest : \A k \in rest \ {m} : Surer(m, k)
<1>0. /\ TextLen \in Nat
      /\ \A c \in rest : /\ c \in text /\ c.s \in Nat /\ c.e \in Nat /\ c.s < c.e
                         /\ c.e <= TextLen /\ Priority(c.type) \in Nat
  BY PiiAssumption, TextFields, Priorities
<1> DEFINE ranks == {Priority(c.type) : c \in rest}
<1>1. PICK r \in ranks : \A q \in ranks : r <= q
  <2>1. ranks \in SUBSET Nat /\ ranks # {}
    BY <1>0
  <2> QED
    BY <2>1, Least
<1> DEFINE first == {c \in rest : Priority(c.type) = r}
           gaps == {TextLen - (c.e - c.s) : c \in first}
<1>2. PICK g \in gaps : \A q \in gaps : g <= q
  <2>1. gaps \in SUBSET Nat
    BY <1>0
  <2>2. gaps # {}
    BY <1>1
  <2> QED
    BY <2>1, <2>2, Least
<1> DEFINE widest == {c \in first : TextLen - (c.e - c.s) = g}
           starts == {c.s : c \in widest}
<1>3. PICK s \in starts : \A q \in starts : s <= q
  <2>1. starts \in SUBSET Nat
    BY <1>0
  <2>2. starts # {}
    BY <1>2
  <2> QED
    BY <2>1, <2>2, Least
<1>4. PICK m \in widest : m.s = s
  OBVIOUS
<1>5. m \in rest /\ Priority(m.type) = r /\ TextLen - (m.e - m.s) = g /\ m.s = s
  BY <1>4
<1>6. ASSUME NEW k \in rest, k # m PROVE Surer(m, k)
  <2>1. r <= Priority(k.type)
    BY <1>1
  <2>2. Priority(k.type) = r => g <= TextLen - (k.e - k.s)
    BY <1>2
  <2>3. Priority(k.type) = r /\ TextLen - (k.e - k.s) = g => s <= k.s
    BY <1>3
  <2>4. Priority(k.type) = r => k.type = m.type
    BY <1>0, <1>5, TextFields, Priorities
  <2>5. k.type = m.type => k.s # m.s
    BY <1>0, <1>5, <1>6, OneAtAPlace
  <2>6. /\ m.s \in Nat /\ m.e \in Nat /\ k.s \in Nat /\ k.e \in Nat /\ r \in Nat
        /\ Priority(k.type) \in Nat /\ m.s < m.e /\ k.s < k.e /\ TextLen \in Nat
    BY <1>0, <1>5
  <2> HIDE DEF ranks, gaps, starts, first, widest
  <2> QED
    BY <1>5, <2>1, <2>2, <2>3, <2>4, <2>5, <2>6 DEF Surer
<1> QED
  BY <1>5, <1>6

\* The first of some candidates are some of them, and not none.
LEMMA FirstOfSome ==
  ASSUME NEW text, IsText(text), NEW S \in SUBSET text, NEW n \in Nat
  PROVE  /\ First(S, n) \subseteq S
         /\ S # {} /\ n > 0 => First(S, n) # {}
<1>1. First(S, n) \subseteq S
  BY DEF First
<1>2. ASSUME S # {}, n > 0 PROVE First(S, n) # {}
  <2> DEFINE starts == {c.s : c \in S}
  <2>0. \A c \in S : c.s \in Nat
    BY TextFields
  <2>1. starts \in SUBSET Nat /\ starts # {}
    BY <1>2, <2>0
  <2>2. PICK s \in starts : \A q \in starts : s <= q
    BY <2>1, Least
  <2>3. PICK m \in S : m.s = s
    OBVIOUS
  <2>4. \A k \in S : ~(k.s < m.s)
    BY <2>0, <2>2, <2>3
  <2>5. {k \in S : k.s < m.s} = {}
    BY <2>4
  <2>6. Cardinality({k \in S : k.s < m.s}) = 0
    BY <2>5, FS_EmptySet
  <2> QED
    BY <1>2, <2>6 DEF First
<1> QED
  BY <1>1, <1>2

\* Candidates that start apart are no more than the text is long.
LEMMA FirstOfAll ==
  ASSUME NEW text, IsText(text), NEW S \in SUBSET text,
         \A c, d \in S : c # d => c.s # d.s
  PROVE  First(S, NoLimit) = S
<1>1. ASSUME NEW m \in S PROVE Cardinality({k \in S : k.s < m.s}) < NoLimit
  <2> DEFINE before == {k \in S : k.s < m.s}
             places == 0..(m.s - 1)
             place == [k \in before |-> k.s]
  <2>1. /\ m.s \in Nat /\ m.s < TextLen /\ TextLen \in Nat
        /\ \A k \in before : k.s \in Nat
    BY TextFields
  <2>2. place \in Injection(before, places)
    <3>1. place \in [before -> places]
      BY <2>1
    <3>2. \A k, j \in before : place[k] = place[j] => k = j
      OBVIOUS
    <3> QED
      BY <3>1, <3>2, Fun_IsInj
  <2>3. IsFiniteSet(places) /\ Cardinality(places) = m.s
    <3>1. 0 \in Int /\ m.s - 1 \in Int
      BY <2>1
    <3>2. /\ IsFiniteSet(0..(m.s - 1))
          /\ Cardinality(0..(m.s - 1)) = IF 0 > m.s - 1 THEN 0 ELSE (m.s - 1) - 0 + 1
      BY ONLY <3>1, FS_Interval
    <3> QED
      BY <2>1, <3>2
  <2>4. Cardinality(before) <= Cardinality(places)
    <3> HIDE DEF before, places, place
    <3> QED
      BY <2>2, <2>3, FS_Injection
  <2>5. IsFiniteSet(before) /\ Cardinality(before) \in Nat
    BY FS_Subset, FS_CardinalityType DEF IsText
  <2> QED
    BY <2>1, <2>3, <2>4, <2>5 DEF NoLimit
<1> QED
  BY <1>1 DEF First

-----------------------------------------------------------------------------
(* The search of one detector.                                              *)

\* What a detector looks at from a place on, and what it finds there.
Later(type, text, p) == {c \in text : c.type = type /\ c.s >= p}
Leftmost(type, text, p) ==
  CHOOSE c \in Later(type, text, p) : \A d \in Later(type, text, p) : c.s <= d.s
Follow(type, text, from, p) ==
  IF Later(type, text, p) = {} THEN {}
  ELSE IF Leftmost(type, text, p).ok
       THEN {Leftmost(type, text, p)} \cup from[Leftmost(type, text, p).e]
       ELSE from[Resume(Leftmost(type, text, p))]
Follows(type, text, from, q) ==
  from = [p \in q..TextLen |-> Follow(type, text, from, p)]

\* The leftmost candidate is there, and the search goes on behind its start.
LEMMA LeftmostFound ==
  ASSUME NEW text, IsText(text), NEW type, NEW p \in Nat, Later(type, text, p) # {}
  PROVE  LET c == Leftmost(type, text, p)
         IN  /\ c \in text /\ c.type = type /\ c.s >= p
             /\ \A d \in Later(type, text, p) : c.s <= d.s
             /\ c.e \in Nat /\ c.e > p /\ c.e <= TextLen
             /\ Resume(c) \in Nat /\ Resume(c) > p /\ Resume(c) <= TextLen
<1> DEFINE later == Later(type, text, p)
           starts == {c.s : c \in later}
<1>1. later \subseteq text /\ \A c \in later : c.s \in Nat
  BY TextFields DEF Later
<1>2. PICK s \in starts : \A q \in starts : s <= q
  <2>1. starts \in SUBSET Nat /\ starts # {}
    BY <1>1
  <2> QED
    BY <2>1, Least
<1>3. PICK c \in later : c.s = s
  OBVIOUS
<1>4. \A d \in later : c.s <= d.s
  BY <1>2, <1>3
<1>5. Leftmost(type, text, p) \in later /\ \A d \in later : Leftmost(type, text, p).s <= d.s
  BY <1>4 DEF Leftmost
<1> DEFINE m == Leftmost(type, text, p)
<1>6. m \in text /\ m.type = type /\ m.s >= p
  BY <1>5 DEF Later
<1>7. m.s \in Nat /\ m.e \in Nat /\ m.s < m.e /\ m.e <= TextLen /\ TextLen \in Nat
  BY <1>6, TextFields
<1> HIDE DEF m, starts
<1>8. Resume(m) = m.e \/ Resume(m) = m.s + 1
  BY DEF Resume
<1> QED
  BY <1>5, <1>6, <1>7, <1>8 DEF m

\* The search is defined from every place on.
LEMMA FollowsExist ==
  ASSUME NEW text, IsText(text), NEW type, NEW q \in 0..TextLen
  PROVE  \E from : Follows(type, text, from, q)
<1> DEFINE bad == {n \in 0..TextLen : ~\E from : Follows(type, text, from, TextLen - n)}
<1>0. TextLen \in Nat
  BY PiiAssumption
<1>1. ASSUME bad # {} PROVE FALSE
  <2>1. bad \in SUBSET Nat
    OBVIOUS
  <2>2. PICK n \in bad : \A k \in bad : n <= k
    BY <1>1, <2>1, Least
  <2> DEFINE p == TextLen - n
  <2>3. p \in 0..TextLen /\ n \in 0..TextLen /\ n \in Nat
    BY <1>0
  <2>4. ~\E from : Follows(type, text, from, p)
    OBVIOUS
  <2>5. \E old : p < TextLen => Follows(type, text, old, p + 1)
    <3>1. CASE p < TextLen
      <4>1. n - 1 \in 0..TextLen /\ TextLen - (n - 1) = p + 1
        BY <1>0, <2>3, <3>1
      <4>2. n - 1 \notin bad
        BY <2>2, <2>3
      <4>3. \E from : Follows(type, text, from, TextLen - (n - 1))
        BY <4>1, <4>2
      <4> QED
        BY <4>1, <4>3
    <3> QED
      BY <3>1
  <2> HIDE DEF bad, p
  <2>6. PICK old : p < TextLen => Follows(type, text, old, p + 1)
    BY <2>5
  <2> DEFINE new == [k \in p..TextLen |-> IF k = p THEN Follow(type, text, old, p) ELSE old[k]]
  <2>7. ASSUME NEW k \in p..TextLen
        PROVE  Follow(type, text, new, k) = Follow(type, text, old, k)
    <3>1. CASE Later(type, text, k) = {}
      BY <3>1 DEF Follow
    <3>2. CASE Later(type, text, k) # {}
      <4> DEFINE c == Leftmost(type, text, k)
      <4>1. /\ c.e \in p..TextLen /\ c.e # p
            /\ Resume(c) \in p..TextLen /\ Resume(c) # p
        BY <1>0, <2>3, <3>2, LeftmostFound
      <4> HIDE DEF c
      <4>2. new[c.e] = old[c.e] /\ new[Resume(c)] = old[Resume(c)]
        BY <4>1
      <4> QED
        BY <3>2, <4>2 DEF Follow, c
    <3> QED
      BY <3>1, <3>2
  <2>8. ASSUME NEW k \in p..TextLen PROVE new[k] = Follow(type, text, new, k)
    <3>1. CASE k = p
      BY <2>7, <3>1
    <3>2. CASE k # p
      <4>1. k \in (p + 1)..TextLen /\ p < TextLen
        BY <1>0, <2>3, <3>2
      <4>2. old[k] = Follow(type, text, old, k)
        BY <2>6, <4>1 DEF Follows
      <4> QED
        BY <2>7, <3>2, <4>2
    <3> QED
      BY <3>1, <3>2
  <2>9. new = [k \in p..TextLen |-> new[k]]
    OBVIOUS
  <2> HIDE DEF new
  <2>10. new = [k \in p..TextLen |-> Follow(type, text, new, k)]
    BY <2>8, <2>9
  <2> QED
    BY <2>4, <2>10 DEF Follows
<1>2. TextLen - q \in 0..TextLen /\ TextLen - (TextLen - q) = q
  BY <1>0
<1> QED
  BY <1>1, <1>2

\* A detector finds only what validates, and meets all that does.
LEMMA FollowsFinds ==
  ASSUME NEW text, IsText(text), NEW type, NEW from, Follows(type, text, from, 0)
  PROVE  /\ from[0] \subseteq {c \in text : c.type = type /\ c.ok}
         /\ \A c \in text : c.type = type /\ c.ok => \E h \in from[0] : Overlap(c, h)
<1> DEFINE good(p) ==
      /\ from[p] \subseteq {c \in text : c.type = type /\ c.ok}
      /\ \A c \in text : c.type = type /\ c.ok /\ c.s >= p => \E h \in from[p] : Overlap(c, h)
    bad == {n \in 0..TextLen : ~good(TextLen - n)}
<1>0. TextLen \in Nat
  BY PiiAssumption
<1>1. \A p \in 0..TextLen : from[p] = Follow(type, text, from, p)
  BY DEF Follows
<1>2. ASSUME NEW p \in 0..TextLen, \A k \in 0..TextLen : k > p => good(k)
      PROVE  good(p)
  <2>1. CASE Later(type, text, p) = {}
    <3>1. from[p] = {}
      BY <1>1, <2>1 DEF Follow
    <3> QED
      BY <2>1, <3>1 DEF Later
  <2>2. CASE Later(type, text, p) # {}
    <3> DEFINE c == Leftmost(type, text, p)
    <3>1. /\ c \in text /\ c.type = type /\ c.s >= p
          /\ \A d \in Later(type, text, p) : c.s <= d.s
          /\ c.e \in 0..TextLen /\ c.e > p
          /\ Resume(c) \in 0..TextLen /\ Resume(c) > p
      BY <1>0, <2>2, LeftmostFound
    <3>2. from[p] = IF c.ok THEN {c} \cup from[c.e] ELSE from[Resume(c)]
      BY <1>1, <2>2 DEF Follow
    <3> HIDE DEF c
    <3>3. c.s \in Nat /\ c.e \in Nat /\ c.s < c.e /\ Overlap(c, c)
      BY <3>1, TextFields
    <3>4. good(c.e) /\ good(Resume(c))
      BY <1>2, <3>1
    <3>5. from[p] \subseteq {d \in text : d.type = type /\ d.ok}
      BY <3>1, <3>2, <3>4
    <3>6. ASSUME NEW d \in text, d.type = type, d.ok, d.s >= p
          PROVE  \E h \in from[p] : Overlap(d, h)
      <4>1. c.s <= d.s /\ d.s \in Nat /\ d.e \in Nat /\ d.s < d.e
        BY <3>1, <3>6, TextFields DEF Later
      <4>2. CASE c.ok /\ d.s < c.e
        <5>1. Overlap(d, c)
          BY <3>3, <4>1, <4>2 DEF Overlap
        <5> QED
          BY <3>2, <4>2, <5>1
      <4>3. CASE c.ok /\ ~(d.s < c.e)
        <5>1. \E h \in from[c.e] : Overlap(d, h)
          BY <3>3, <3>4, <3>6, <4>1, <4>3
        <5> QED
          BY <3>2, <4>3, <5>1
      <4>4. CASE ~c.ok
        <5>1. c # d
          BY <3>6, <4>4
        <5>2. c.s # d.s /\ (type = "phone" => ~Overlap(c, d))
          BY <3>1, <3>6, <5>1 DEF IsText
        <5>3. d.s >= Resume(c)
          BY <3>1, <3>3, <4>1, <5>2 DEF Resume, Overlap
        <5> QED
          BY <3>2, <3>4, <3>6, <4>4, <5>3
      <4> QED
        BY <4>2, <4>3, <4>4
    <3> QED
      BY <3>5, <3>6
  <2> QED
    BY <2>1, <2>2
<1>3. ASSUME bad # {} PROVE FALSE
  <2>1. bad \in SUBSET Nat
    OBVIOUS
  <2>2. PICK n \in bad : \A k \in bad : n <= k
    BY <1>3, <2>1, Least
  <2>3. n \in 0..TextLen /\ TextLen - n \in 0..TextLen
    BY <1>0
  <2>4. ASSUME NEW k \in 0..TextLen, k > TextLen - n PROVE good(k)
    <3>1. TextLen - k \in 0..TextLen /\ TextLen - k < n /\ TextLen - (TextLen - k) = k
      BY <1>0, <2>3, <2>4
    <3>2. TextLen - k \notin bad
      BY <2>2, <2>3, <3>1
    <3>3. good(TextLen - (TextLen - k))
      BY <3>1, <3>2
    <3> QED
      BY <3>1, <3>3
  <2>5. good(TextLen - n)
    BY <1>2, <2>3, <2>4
  <2> QED
    BY <2>5
<1>4. TextLen \in 0..TextLen /\ TextLen - TextLen = 0 /\ 0 \in 0..TextLen
  BY <1>0
<1>5. good(TextLen - TextLen)
  BY <1>3, <1>4
<1>6. good(0)
  BY <1>4, <1>5
<1> QED
  BY <1>6, TextFields

\* The same, of the hits a detector returns: all of them, or the first.
LEMMA FindFinds ==
  ASSUME NEW text, IsText(text), NEW type, NEW limit \in Nat
  PROVE  /\ Find(type, text, limit) \subseteq {c \in text : c.type = type /\ c.ok}
         /\ limit > 0 /\ (\E c \in text : c.type = type /\ c.ok) => Find(type, text, limit) # {}
         /\ limit = NoLimit =>
              \A c \in text : c.type = type /\ c.ok =>
                 \E h \in Find(type, text, limit) : Overlap(c, h)
<1> DEFINE from == CHOOSE from : Follows(type, text, from, 0)
<1>1. Follows(type, text, from, 0)
  <2>1. 0 \in 0..TextLen
    BY PiiAssumption
  <2> QED
    BY <2>1, FollowsExist
<1>2. Find(type, text, limit) = First(from[0], limit)
  BY DEF Find, Follows, Follow, Later, Leftmost
<1> HIDE DEF from
<1>3. /\ from[0] \subseteq {c \in text : c.type = type /\ c.ok}
      /\ \A c \in text : c.type = type /\ c.ok => \E h \in from[0] : Overlap(c, h)
  BY <1>1, FollowsFinds
<1>4. from[0] \in SUBSET text
  BY <1>3
<1>5. \A c, d \in from[0] : c # d => c.s # d.s
  BY <1>3, OneAtAPlace
<1>6. limit = NoLimit => First(from[0], limit) = from[0]
  BY <1>4, <1>5, FirstOfAll
<1>7. /\ First(from[0], limit) \subseteq from[0]
      /\ from[0] # {} /\ limit > 0 => First(from[0], limit) # {}
  BY <1>4, FirstOfSome
<1> QED
  BY <1>2, <1>3, <1>6, <1>7

-----------------------------------------------------------------------------
(* The claims of overlapping hits.                                          *)

\* The surest of some hits, and what it leaves of the others.
Surest(rest) == CHOOSE m \in rest : \A k \in rest \ {m} : Surer(m, k)
LeftBy(rest, m) == {k \in rest \ {m} : ~Overlap(k, m)}
Claimed(claim, rest) ==
  IF rest = {} THEN {} ELSE {Surest(rest)} \cup claim[LeftBy(rest, Surest(rest))]
Claims(hits, claim, n) ==
  claim = [rest \in {part \in SUBSET hits : Cardinality(part) <= n} |-> Claimed(claim, rest)]

\* The surest is one of them, and leaves fewer.
LEMMA SurestFound ==
  ASSUME NEW text, IsText(text), NEW rest \in SUBSET text, rest # {}
  PROVE  LET m == Surest(rest)
         IN  /\ m \in rest /\ \A k \in rest \ {m} : Surer(m, k)
             /\ LeftBy(rest, m) \in SUBSET rest
             /\ Cardinality(LeftBy(rest, m)) \in Nat /\ Cardinality(rest) \in Nat
             /\ Cardinality(LeftBy(rest, m)) < Cardinality(rest)
<1> DEFINE m == Surest(rest)
<1>1. m \in rest /\ \A k \in rest \ {m} : Surer(m, k)
  BY SurestExists DEF Surest
<1> HIDE DEF m
<1>2. IsFiniteSet(rest) /\ IsFiniteSet(LeftBy(rest, m))
  BY FS_Subset DEF IsText, LeftBy
<1>3. LeftBy(rest, m) \in SUBSET (rest \ {m})
  BY DEF LeftBy
<1>4. IsFiniteSet(rest \ {m}) /\ Cardinality(rest \ {m}) = Cardinality(rest) - 1
  BY <1>1, <1>2, FS_RemoveElement
<1>5. Cardinality(LeftBy(rest, m)) <= Cardinality(rest \ {m})
  BY <1>3, <1>4, FS_Subset
<1>6. Cardinality(LeftBy(rest, m)) \in Nat /\ Cardinality(rest) \in Nat
  BY <1>2, FS_CardinalityType
<1>7. Cardinality(LeftBy(rest, m)) < Cardinality(rest)
  BY <1>4, <1>5, <1>6
<1> QED
  BY <1>1, <1>3, <1>6, <1>7 DEF m

\* The claims of the parts of every size are defined.
LEMMA ClaimsExist ==
  ASSUME NEW text, IsText(text), NEW hits \in SUBSET text, NEW n \in Nat
  PROVE  \E claim : Claims(hits, claim, n)
<1> DEFINE bad == {k \in Nat : ~\E claim : Claims(hits, claim, k)}
           parts(k) == {part \in SUBSET hits : Cardinality(part) <= k}
<1>0. \A part \in SUBSET hits : IsFiniteSet(part) /\ Cardinality(part) \in Nat
  BY FS_Subset, FS_CardinalityType DEF IsText
<1>1. ASSUME bad # {} PROVE FALSE
  <2>1. bad \in SUBSET Nat
    OBVIOUS
  <2>2. PICK k \in bad : \A j \in bad : k <= j
    BY <1>1, <2>1, Least
  <2>3. k \in Nat /\ ~\E claim : Claims(hits, claim, k)
    OBVIOUS
  <2>4. \E old : k > 0 => Claims(hits, old, k - 1)
    <3>1. CASE k > 0
      <4>1. k - 1 \in Nat /\ k - 1 \notin bad
        BY <2>2, <2>3, <3>1
      <4> QED
        BY <4>1
    <3> QED
      BY <3>1
  <2>5. PICK old : k > 0 => Claims(hits, old, k - 1)
    BY <2>4
  <2> HIDE DEF bad
  <2> DEFINE new == [rest \in parts(k) |-> IF rest = {} THEN {} ELSE Claimed(old, rest)]
  <2>6. ASSUME NEW rest \in parts(k), rest # {}
        PROVE  LET left == LeftBy(rest, Surest(rest))
               IN  /\ k > 0 /\ left \in parts(k) /\ left \in parts(k - 1)
                   /\ new[left] = old[left]
    <3> DEFINE left == LeftBy(rest, Surest(rest))
    <3>1. rest \in SUBSET text /\ rest \in SUBSET hits /\ Cardinality(rest) <= k
      OBVIOUS
    <3>2. /\ left \in SUBSET rest /\ Cardinality(left) \in Nat /\ Cardinality(rest) \in Nat
          /\ Cardinality(left) < Cardinality(rest)
      BY <2>6, <3>1, SurestFound
    <3> HIDE DEF left
    <3>3. k > 0 /\ left \in parts(k) /\ left \in parts(k - 1)
      BY <2>3, <3>1, <3>2
    <3>4. old[left] = Claimed(old, left)
      BY <2>5, <3>3 DEF Claims
    <3>5. new[left] = IF left = {} THEN {} ELSE Claimed(old, left)
      BY <3>3
    <3>6. new[left] = old[left]
      BY <3>4, <3>5 DEF Claimed
    <3> QED
      BY <3>3, <3>6 DEF left
  <2>7. ASSUME NEW rest \in parts(k) PROVE new[rest] = Claimed(new, rest)
    <3>1. CASE rest = {}
      BY <3>1 DEF Claimed
    <3>2. CASE rest # {}
      <4>1. new[LeftBy(rest, Surest(rest))] = old[LeftBy(rest, Surest(rest))]
        BY <2>6, <3>2
      <4>2. new[rest] = Claimed(old, rest)
        BY <3>2
      <4> HIDE DEF new
      <4> QED
        BY <3>2, <4>1, <4>2 DEF Claimed
    <3> QED
      BY <3>1, <3>2
  <2>8. new = [rest \in parts(k) |-> new[rest]]
    OBVIOUS
  <2> HIDE DEF new
  <2>9. new = [rest \in parts(k) |-> Claimed(new, rest)]
    BY <2>7, <2>8
  <2> QED
    BY <2>3, <2>9 DEF Claims
<1> QED
  BY <1>1

\* What hits claim is theirs, lies apart, and leaves out a hit only for a surer
\* one across it.
LEMMA ClaimSound ==
  ASSUME NEW text, IsText(text), NEW hits \in SUBSET text
  PROVE  /\ Claim(hits) \subseteq hits
         /\ \A f, g \in Claim(hits) : f = g \/ ~Overlap(f, g)
         /\ \A h \in hits : \E f \in Claim(hits) : Overlap(h, f) /\ (f = h \/ Surer(f, h))
<1> DEFINE N == Cardinality(hits)
           claim == CHOOSE claim : Claims(hits, claim, N)
           good(rest) ==
             /\ claim[rest] \subseteq rest
             /\ \A f, g \in claim[rest] : f = g \/ ~Overlap(f, g)
             /\ \A h \in rest : \E f \in claim[rest] : Overlap(h, f) /\ (f = h \/ Surer(f, h))
<1>0. \A part \in SUBSET hits :
        IsFiniteSet(part) /\ Cardinality(part) \in Nat /\ Cardinality(part) <= N
  BY FS_Subset, FS_CardinalityType DEF IsText
<1>1. N \in Nat /\ SUBSET hits = {part \in SUBSET hits : Cardinality(part) <= N}
  BY <1>0
<1>2. Claims(hits, claim, N)
  BY <1>1, ClaimsExist
<1>3. Claim(hits) = claim[hits]
  <2>1. claim = CHOOSE c : c = [rest \in SUBSET hits |-> Claimed(c, rest)]
    BY <1>1 DEF Claims
  <2> HIDE DEF claim
  <2> QED
    BY <2>1 DEF Claim, Claimed, Surest, LeftBy
<1> HIDE DEF claim
<1>4. \A rest \in SUBSET hits : claim[rest] = Claimed(claim, rest)
  BY <1>1, <1>2 DEF Claims
<1> HIDE DEF N
<1>5. ASSUME NEW rest \in SUBSET hits,
             \A part \in SUBSET rest : Cardinality(part) < Cardinality(rest) => good(part)
      PROVE  good(rest)
  <2>1. CASE rest = {}
    <3>1. claim[rest] = {}
      BY <1>4, <2>1 DEF Claimed
    <3> QED
      BY <2>1, <3>1
  <2>2. CASE rest # {}
    <3> DEFINE m == Surest(rest)
               left == LeftBy(rest, m)
    <3>1. /\ m \in rest /\ \A k \in rest \ {m} : Surer(m, k)
          /\ left \in SUBSET rest /\ Cardinality(left) < Cardinality(rest)
      BY <2>2, SurestFound
    <3>2. claim[rest] = {m} \cup claim[left]
      BY <1>4, <2>2 DEF Claimed
    <3>3. left = {k \in rest \ {m} : ~Overlap(k, m)}
      BY DEF LeftBy
    <3> HIDE DEF m, left
    <3>4. good(left)
      BY <1>5, <3>1
    <3>5. claim[rest] \subseteq rest
      BY <3>1, <3>2, <3>4
    <3>6. \A f \in claim[left] : ~Overlap(f, m) /\ ~Overlap(m, f)
      BY <3>3, <3>4 DEF Overlap
    <3>7. \A f, g \in claim[rest] : f = g \/ ~Overlap(f, g)
      BY <3>2, <3>4, <3>6
    <3>8. ASSUME NEW h \in rest
          PROVE  \E f \in claim[rest] : Overlap(h, f) /\ (f = h \/ Surer(f, h))
      <4>1. CASE h = m
        <5>1. Overlap(m, m)
          BY <3>1, TextFields
        <5> QED
          BY <3>2, <4>1, <5>1
      <4>2. CASE h # m /\ Overlap(h, m)
        BY <3>1, <3>2, <4>2
      <4>3. CASE h # m /\ ~Overlap(h, m)
        <5>1. h \in left
          BY <3>3, <4>3
        <5> QED
          BY <3>2, <3>4, <5>1
      <4> QED
        BY <4>1, <4>2, <4>3
    <3> QED
      BY <3>5, <3>7, <3>8
  <2> QED
    BY <2>1, <2>2
<1> DEFINE bad == {Cardinality(rest) : rest \in {part \in SUBSET hits : ~good(part)}}
<1>6. ASSUME bad # {} PROVE FALSE
  <2>1. bad \in SUBSET Nat
    BY <1>0
  <2>2. PICK n \in bad : \A k \in bad : n <= k
    BY <1>6, <2>1, Least
  <2>3. PICK rest \in SUBSET hits : ~good(rest) /\ n = Cardinality(rest)
    OBVIOUS
  <2>4. ASSUME NEW part \in SUBSET rest, Cardinality(part) < Cardinality(rest) PROVE good(part)
    <3>1. part \in SUBSET hits /\ Cardinality(part) \in Nat /\ Cardinality(rest) \in Nat
      BY <1>0
    <3>2. Cardinality(part) \notin bad
      BY <2>2, <2>3, <2>4, <3>1
    <3> QED
      BY <3>1, <3>2
  <2>5. good(rest)
    BY <1>5, <2>4
  <2> QED
    BY <2>3, <2>5
<1>7. good(hits)
  <2>1. Cardinality(hits) \notin bad
    BY <1>6
  <2> QED
    BY <2>1
<1> QED
  BY <1>3, <1>7

-----------------------------------------------------------------------------
(* Findings, masking and redaction.                                         *)

\* Every hit lies in one that lies in no other.
LEMMA OutermostExists ==
  ASSUME NEW text, IsText(text), NEW hits \in SUBSET text, NEW h \in hits
  PROVE  \E g \in DropContained(hits) : Within(h, g)
<1> DEFINE over == {g \in hits : Within(h, g)}
           gaps == {TextLen - (g.e - g.s) : g \in over}
<1>0. /\ TextLen \in Nat
      /\ \A g \in hits : g.s \in Nat /\ g.e \in Nat /\ g.s < g.e /\ g.e <= TextLen
  BY PiiAssumption, TextFields
<1>1. h \in over
  BY <1>0 DEF Within
<1>2. gaps \in SUBSET Nat /\ gaps # {}
  BY <1>0, <1>1
<1>3. PICK n \in gaps : \A k \in gaps : n <= k
  BY <1>2, Least
<1>4. PICK g \in over : n = TextLen - (g.e - g.s)
  OBVIOUS
<1>5. ASSUME NEW k \in hits, Inside(g, k) PROVE FALSE
  <2>1. k \in over
    BY <1>0, <1>4, <1>5 DEF Inside, Within
  <2>2. n <= TextLen - (k.e - k.s)
    BY <1>3, <2>1
  <2>3. k.s <= g.s /\ g.e <= k.e /\ ~(k.s = g.s /\ k.e = g.e)
    BY <1>5 DEF Inside, Within
  <2>4. g \in hits /\ k \in hits
    BY <1>4
  <2> HIDE DEF gaps, over
  <2> QED
    BY <1>0, <1>4, <2>2, <2>3, <2>4
<1>6. g \in DropContained(hits)
  BY <1>4, <1>5 DEF DropContained
<1> QED
  BY <1>4, <1>6

\* The hits of a text, all of them or the first of each detector.
LEMMA HitsFound ==
  ASSUME NEW text, IsText(text), NEW limit \in Nat
  PROVE  /\ HitsUpTo(text, limit) \subseteq Personal(text)
         /\ limit > 0 /\ Personal(text) # {} => HitsUpTo(text, limit) # {}
         /\ \A c \in Personal(text) : \E h \in Hits(text) : h.type = c.type /\ Overlap(c, h)
<1>1. HitsUpTo(text, limit) \subseteq Personal(text)
  BY FindFinds DEF HitsUpTo, Personal
<1>2. ASSUME limit > 0, NEW c \in Personal(text) PROVE HitsUpTo(text, limit) # {}
  <2>1. c \in text /\ c.ok /\ c.type \in Types
    BY TextFields DEF Personal
  <2>2. Find(c.type, text, limit) # {}
    BY <1>2, <2>1, FindFinds
  <2> QED
    BY <2>1, <2>2 DEF HitsUpTo
<1>3. ASSUME NEW c \in Personal(text)
      PROVE  \E h \in Hits(text) : h.type = c.type /\ Overlap(c, h)
  <2>1. c \in text /\ c.ok /\ c.type \in Types
    BY TextFields DEF Personal
  <2>2. NoLimit \in Nat
    BY PiiAssumption DEF NoLimit
  <2>3. PICK h \in Find(c.type, text, NoLimit) : Overlap(c, h)
    BY <2>1, <2>2, FindFinds
  <2>4. h.type = c.type
    BY <2>2, <2>3, FindFinds
  <2>5. h \in Hits(text)
    BY <2>1, <2>3 DEF Hits, HitsUpTo
  <2> QED
    BY <2>3, <2>4, <2>5
<1> QED
  BY <1>1, <1>2, <1>3

\* A scan with room for a row finds something in a text that holds something.
LEMMA FindingsFound ==
  ASSUME NEW text, IsText(text), NEW limit \in Nat, limit > 0
  PROVE  /\ Cardinality(RunDetectors(text, limit)) \in Nat
         /\ Personal(text) # {} => Cardinality(RunDetectors(text, limit)) # 0
<1> DEFINE hits == HitsUpTo(text, limit)
           kept == Claim(DropContained(hits))
<1>1. hits \in SUBSET text /\ (Personal(text) # {} => hits # {})
  BY HitsFound DEF Personal
<1> HIDE DEF hits
<1>2. DropContained(hits) \in SUBSET text /\ (hits # {} => DropContained(hits) # {})
  <2>1. DropContained(hits) \subseteq hits
    BY DEF DropContained
  <2> QED
    BY <1>1, <2>1, OutermostExists
<1>3. kept \in SUBSET text /\ (DropContained(hits) # {} => kept # {})
  BY <1>2, ClaimSound
<1> HIDE DEF kept
<1> DEFINE found == First(kept, limit)
<1>4. found \in SUBSET text /\ (kept # {} => found # {})
  BY <1>3, FirstOfSome
<1> HIDE DEF found
<1>5. IsFiniteSet(found)
  BY <1>4, FS_Subset DEF IsText
<1>6. Cardinality(found) \in Nat /\ (found # {} => Cardinality(found) # 0)
  BY <1>5, FS_CardinalityType, FS_EmptySet
<1> QED
  BY <1>1, <1>2, <1>3, <1>4, <1>6 DEF RunDetectors, hits, kept, found

\* What is found in a whole text is what the outermost hits claim.
LEMMA FindingsClaimed ==
  ASSUME NEW text, IsText(text)
  PROVE  /\ Hits(text) \in SUBSET text
         /\ Findings(text) = Claim(DropContained(Hits(text)))
<1> DEFINE hits == Hits(text)
           kept == Claim(DropContained(hits))
<1>0. NoLimit \in Nat
  BY PiiAssumption DEF NoLimit
<1>1. hits \in SUBSET text
  BY <1>0, HitsFound DEF Hits, Personal
<1>2. DropContained(hits) \in SUBSET text
  BY <1>1 DEF DropContained
<1>3. kept \in SUBSET text /\ \A f, g \in kept : f = g \/ ~Overlap(f, g)
  BY <1>2, ClaimSound
<1>4. Findings(text) = First(kept, NoLimit)
  BY DEF Findings, RunDetectors, Hits
<1> HIDE DEF kept, hits
<1>5. ASSUME NEW f \in kept, NEW g \in kept, f # g PROVE f.s # g.s
  <2>1. f.s \in Nat /\ f.e \in Nat /\ f.s < f.e /\ g.s \in Nat /\ g.e \in Nat /\ g.s < g.e
    BY <1>3, TextFields
  <2> QED
    BY <1>3, <1>5, <2>1 DEF Overlap
<1>6. First(kept, NoLimit) = kept
  BY <1>3, <1>5, FirstOfAll
<1> QED
  BY <1>1, <1>4, <1>6 DEF kept, hits

\* What the detectors report of any text: it hits every value, its findings lie
\* apart, and an outermost hit yields only to a surer one.
THEOREM TextSound ==
  ASSUME NEW text, IsText(text)
  PROVE  /\ \A c \in Personal(text) :
              \E h \in Hits(text) : h.type = c.type /\ Overlap(c, h)
         /\ \A f, g \in Findings(text) : f = g \/ ~Overlap(f, g)
         /\ \A h \in Hits(text) :
              \/ \E g \in Hits(text) : Inside(h, g)
              \/ \E f \in Findings(text) : Overlap(h, f) /\ (f = h \/ Surer(f, h))
<1> DEFINE hits == Hits(text)
           outer == DropContained(hits)
<1>1. hits \in SUBSET text /\ Findings(text) = Claim(outer)
  BY FindingsClaimed
<1>2. outer \in SUBSET text
  BY <1>1 DEF DropContained
<1>3. \A c \in Personal(text) : \E h \in Hits(text) : h.type = c.type /\ Overlap(c, h)
  <2>1. 0 \in Nat
    OBVIOUS
  <2> QED
    BY <2>1, HitsFound
<1>4. \A h \in hits : h \in outer \/ \E g \in hits : Inside(h, g)
  BY DEF DropContained
<1> HIDE DEF outer, hits
<1>5. /\ \A f, g \in Claim(outer) : f = g \/ ~Overlap(f, g)
      /\ \A h \in outer : \E f \in Claim(outer) : Overlap(h, f) /\ (f = h \/ Surer(f, h))
  BY <1>2, ClaimSound
<1> QED
  BY <1>1, <1>3, <1>4, <1>5 DEF hits

\* A value apart from others does not leave the machine, whatever part of its
\* text redaction and masking have already left.
LEMMA EgressKeepsIn ==
  ASSUME NEW raw, IsText(raw), NEW text \in SUBSET raw
  PROVE  Exposed(raw, text) = {} /\ EgressClean(text) \subseteq text
<1> DEFINE left == RedactText(text)
<1>1. left \in SUBSET raw /\ left \subseteq text
  BY DEF RedactText
<1>2. EgressClean(text) = MaskPii(left)
  BY DEF EgressClean
<1> HIDE DEF left
<1>3. IsText(left)
  BY <1>1, PartOfText
<1>4. MaskPii(left) = {c \in left : \A f \in Findings(left) : ~Overlap(c, f)}
  BY DEF MaskPii
<1>5. Hits(raw) \subseteq Personal(raw) /\ Hits(left) \subseteq Personal(left)
      /\ Personal(left) \subseteq Personal(raw)
  <2>1. NoLimit \in Nat
    BY PiiAssumption DEF NoLimit
  <2> QED
    BY <1>1, <1>3, <2>1, HitsFound DEF Hits, Personal
<1>6. ASSUME NEW h \in Hits(raw), h \in MaskPii(left), Apart(h, raw) PROVE FALSE
  <2>1. h \in Personal(left)
    BY <1>4, <1>5, <1>6 DEF Personal
  <2>2. PICK g \in Hits(left) : g.type = h.type /\ Overlap(h, g)
    BY <1>3, <2>1, TextSound
  <2>3. g = h
    BY <1>5, <1>6, <2>2 DEF Apart, Overlap
  <2>4. ~\E k \in Hits(left) : Inside(h, k)
    BY <1>5, <1>6 DEF Apart, Inside
  <2>5. PICK f \in Findings(left) : Overlap(h, f)
    BY <1>3, <2>2, <2>3, <2>4, TextSound
  <2> QED
    BY <1>4, <1>6, <2>5
<1> QED
  BY <1>1, <1>2, <1>4, <1>6 DEF Exposed

-----------------------------------------------------------------------------
(* The scan of a tree.                                                      *)

\* One round of scan's loop.
ScanStep(tree, walk, ocr, late, loop, i) ==
  IF i = 0 THEN [rows |-> 0, skipped |-> walk.skipped, cut |-> FALSE, over |-> FALSE]
  ELSE LET acc == loop[i - 1]
           one == ScanOneFile(tree[i], ocr, MaxFindings - acc.rows)
       IN  CASE acc.over \/ i \notin walk.files -> acc
             [] Cardinality({n \in walk.files : n <= i}) > late -> [acc EXCEPT !.over = TRUE]
             [] OTHER ->
                  [rows    |-> acc.rows + one.rows,
                   skipped |-> IF acc.skipped < MaxSkipped
                               THEN acc.skipped + one.skip ELSE acc.skipped,
                   cut     |-> acc.cut \/ one.cut,
                   over    |-> one.capped]
Scans(tree, walk, ocr, late, loop, n) ==
  loop = [i \in 0..n |-> ScanStep(tree, walk, ocr, late, loop, i)]

\* The loop is defined to any length.
LEMMA ScansExist ==
  ASSUME NEW tree, NEW walk, NEW ocr, NEW late, NEW n \in Nat
  PROVE  \E loop : Scans(tree, walk, ocr, late, loop, n)
<1> DEFINE bad == {k \in Nat : ~\E loop : Scans(tree, walk, ocr, late, loop, k)}
           step(loop, i) == ScanStep(tree, walk, ocr, late, loop, i)
<1>1. ASSUME bad # {} PROVE FALSE
  <2>1. bad \in SUBSET Nat
    OBVIOUS
  <2>2. PICK k \in bad : \A j \in bad : k <= j
    BY <1>1, <2>1, Least
  <2>3. k \in Nat /\ ~\E loop : Scans(tree, walk, ocr, late, loop, k)
    OBVIOUS
  <2>4. \E old : k > 0 => Scans(tree, walk, ocr, late, old, k - 1)
    <3>1. CASE k > 0
      <4>1. k - 1 \in Nat /\ k - 1 \notin bad
        BY <2>2, <2>3, <3>1
      <4> QED
        BY <4>1
    <3> QED
      BY <3>1
  <2>5. PICK old : k > 0 => Scans(tree, walk, ocr, late, old, k - 1)
    BY <2>4
  <2> HIDE DEF bad
  <2> DEFINE new == [i \in 0..k |-> IF i = k THEN step(old, k) ELSE old[i]]
  <2>6. ASSUME NEW i \in 0..k PROVE step(new, i) = step(old, i)
    <3>1. CASE i = 0
      BY <3>1 DEF ScanStep
    <3>2. CASE i # 0
      <4>1. i - 1 \in 0..k /\ i - 1 # k
        BY <2>3, <3>2
      <4>2. new[i - 1] = old[i - 1]
        BY <4>1
      <4> HIDE DEF new
      <4> QED
        BY <3>2, <4>2 DEF ScanStep
    <3> QED
      BY <3>1, <3>2
  <2>7. ASSUME NEW i \in 0..k PROVE new[i] = step(new, i)
    <3>1. CASE i = k
      BY <2>6, <3>1
    <3>2. CASE i # k
      <4>1. i \in 0..(k - 1) /\ k > 0
        BY <2>3, <3>2
      <4>2. old[i] = step(old, i)
        BY <2>5, <4>1 DEF Scans
      <4> HIDE DEF step
      <4> QED
        BY <2>6, <3>2, <4>2
    <3> QED
      BY <3>1, <3>2
  <2>8. new = [i \in 0..k |-> new[i]]
    OBVIOUS
  <2> HIDE DEF new
  <2>9. new = [i \in 0..k |-> step(new, i)]
    BY <2>7, <2>8
  <2> QED
    BY <2>3, <2>9 DEF Scans
<1> QED
  BY <1>1

\* What a scan has so far, and that it has met nothing worth a word.
Tally(acc) ==
  /\ DOMAIN acc = {"rows", "skipped", "cut", "over"}
  /\ acc.rows \in 0..MaxFindings /\ acc.skipped \in Nat
  /\ acc.cut \in BOOLEAN /\ acc.over \in BOOLEAN
Quiet(acc) == acc.rows = 0 /\ acc.skipped = 0 /\ ~acc.cut /\ ~acc.over
Innocent(entry) == ~entry.hidden /\ Personal(entry.text) = {}

\* A round that leaves the scan quiet found it quiet, and read a file to its end
\* that holds nothing.
LEMMA QuietRound ==
  ASSUME NEW tree, IsTree(tree), NEW walk, NEW ocr \in BOOLEAN, NEW late, NEW loop,
         NEW i \in 1..Len(tree), Tally(loop[i - 1])
  PROVE  LET next == ScanStep(tree, walk, ocr, late, loop, i)
         IN  /\ Tally(next)
             /\ Quiet(next) => /\ Quiet(loop[i - 1])
                               /\ i \in walk.files => Innocent(tree[i])
<1> DEFINE acc == loop[i - 1]
           entry == tree[i]
           budget == MaxFindings - acc.rows
           one == ScanOneFile(entry, ocr, budget)
           found == Cardinality(RunDetectors(entry.text, budget + 1))
           round == [rows    |-> acc.rows + one.rows,
                     skipped |-> IF acc.skipped < MaxSkipped
                                 THEN acc.skipped + one.skip ELSE acc.skipped,
                     cut     |-> acc.cut \/ one.cut,
                     over    |-> one.capped]
           next == ScanStep(tree, walk, ocr, late, loop, i)
<1>0. MaxFindings \in Nat /\ MaxSkipped \in Nat \ {0}
  BY PiiAssumption
<1>1. IsText(entry.text) /\ entry.big \in BOOLEAN
      /\ (entry.hidden => entry.big \/ entry.kind \notin {"text", "image"})
  BY DEF IsTree
<1>2. budget \in Nat /\ acc.rows \in Nat /\ acc.rows + budget = MaxFindings
  BY <1>0 DEF Tally
<1>3. found \in Nat /\ (Personal(entry.text) # {} => found # 0)
  BY <1>1, <1>2, FindingsFound
<1>4. i # 0
  OBVIOUS
<1>5. \/ next = acc /\ (acc.over \/ i \notin walk.files)
      \/ next = [acc EXCEPT !.over = TRUE]
      \/ next = round
  BY <1>4 DEF ScanStep
<1> HIDE DEF next
<1>6. CASE next = acc /\ (acc.over \/ i \notin walk.files)
  BY <1>6 DEF Quiet, next
<1>7. CASE next = [acc EXCEPT !.over = TRUE]
  <2>1. DOMAIN next = DOMAIN acc /\ next.rows = acc.rows /\ next.skipped = acc.skipped
        /\ next.cut = acc.cut /\ next.over = TRUE
    BY <1>7 DEF Tally
  <2>2. Tally(next) /\ ~Quiet(next)
    BY <2>1 DEF Tally, Quiet
  <2> QED
    BY <2>2 DEF next
<1>8. CASE next = round
  <2>1. CASE Unread(entry, ocr)
    <3>1. one = [rows |-> 0, skip |-> 1, cut |-> FALSE, capped |-> FALSE]
      BY <2>1 DEF ScanOneFile
    <3> HIDE DEF one
    <3>2. /\ next.rows = acc.rows /\ next.cut = acc.cut /\ next.over = FALSE
          /\ next.skipped = IF acc.skipped < MaxSkipped THEN acc.skipped + 1 ELSE acc.skipped
          /\ DOMAIN next = {"rows", "skipped", "cut", "over"}
      BY <1>2, <1>8, <3>1 DEF Tally
    <3>3. acc.skipped \in Nat /\ acc.cut \in BOOLEAN /\ acc.rows \in 0..MaxFindings
      BY DEF Tally
    <3> HIDE DEF acc
    <3>4. next.skipped \in Nat /\ next.skipped # 0
      BY <1>0, <3>2, <3>3
    <3>5. Tally(next)
      BY <3>2, <3>3, <3>4 DEF Tally
    <3> QED
      BY <3>4, <3>5 DEF Quiet, next, acc
  <2>2. CASE ~Unread(entry, ocr)
    <3>1. one = [rows |-> IF found > budget THEN budget ELSE found, skip |-> 0,
                 cut |-> entry.big, capped |-> found > budget]
      BY <2>2 DEF ScanOneFile
    <3> HIDE DEF one, found, budget
    <3>2. /\ next.rows = acc.rows + (IF found > budget THEN budget ELSE found)
          /\ next.skipped = acc.skipped
          /\ next.cut = (acc.cut \/ entry.big) /\ next.over = (found > budget)
          /\ DOMAIN next = {"rows", "skipped", "cut", "over"}
      BY <1>8, <3>1 DEF Tally
    <3>7. acc.skipped \in Nat /\ acc.cut \in BOOLEAN
      BY DEF Tally
    <3> HIDE DEF acc, entry
    <3>8. next.rows \in 0..MaxFindings
      BY <1>0, <1>2, <1>3, <3>2
    <3>9. next.cut \in BOOLEAN /\ next.over \in BOOLEAN
      BY <1>1, <3>2, <3>7
    <3>3. Tally(next)
      BY <3>2, <3>7, <3>8, <3>9 DEF Tally
    <3>10. ASSUME Quiet(next)
           PROVE  acc.rows = 0 /\ acc.skipped = 0 /\ ~acc.cut /\ ~entry.big /\ found = 0
      <4>1. next.rows = 0 /\ next.skipped = 0 /\ ~next.cut /\ ~next.over
        BY <3>10 DEF Quiet
      <4>2. ~acc.cut /\ ~entry.big
        BY <3>2, <4>1
      <4>3. acc.skipped = 0
        BY <3>2, <4>1
      <4>4. ~(found > budget)
        BY <3>2, <4>1
      <4> QED
        BY <1>2, <1>3, <3>2, <4>1, <4>2, <4>3, <4>4
    <3>4. Quiet(next) => acc.rows = 0 /\ acc.skipped = 0 /\ ~acc.cut /\ ~entry.big /\ found = 0
      BY <3>10
    <3> USE DEF acc, entry
    <3>5. CASE acc.over
      BY <1>8, <3>3, <3>5 DEF next, ScanStep, Quiet
    <3>6. CASE ~acc.over
      <4>1. ~entry.big => ~entry.hidden
        BY <1>1, <2>2 DEF Unread
      <4> QED
        BY <1>3, <3>3, <3>4, <3>6, <4>1 DEF Quiet, Innocent, next
    <3> QED
      BY <3>5, <3>6
  <2> QED
    BY <2>1, <2>2
<1> QED
  BY <1>5, <1>6, <1>7, <1>8

\* A scan that calls a tree clean and complete was given one that holds nothing.
LEMMA ScanSound ==
  ASSUME NEW tree, IsTree(tree), NEW max \in Nat, NEW ocr \in BOOLEAN, NEW late,
         Scan(tree, max, ocr, late).clean, Scan(tree, max, ocr, late).complete
  PROVE  ~HoldsPii(tree)
<1> DEFINE N == Len(tree)
           walk == CollectFiles(tree, max)
           loop == CHOOSE loop : Scans(tree, walk, ocr, late, loop, N)
<1>0. N \in Nat
  BY DEF IsTree
<1>1. Scans(tree, walk, ocr, late, loop, N)
  BY <1>0, ScansExist
<1>2. /\ loop[N].rows = 0 /\ ~loop[N].cut /\ ~loop[N].over /\ loop[N].skipped = 0
      /\ ~walk.truncated
  BY DEF Scan, Scans, ScanStep
<1> DEFINE files(n) == {i \in 1..n : IsFile(tree[i])}
           ends == {n \in 0..N : Cardinality(files(n)) <= max}
           end == Max(ends)
<1>3. end \in 0..N
  <2>1. 0 \in ends
    <3>1. files(0) = {}
      OBVIOUS
    <3>2. Cardinality(files(0)) = 0
      BY ONLY <3>1, FS_EmptySet
    <3> QED
      BY <1>0, <3>2
  <2>6. ends \subseteq 0..N /\ end = Max(ends)
    OBVIOUS
  <2> HIDE DEF ends, end
  <2> DEFINE gaps == {N - n : n \in ends}
  <2>2. gaps \in SUBSET Nat /\ gaps # {}
    BY <1>0, <2>1, <2>6
  <2>3. PICK g \in gaps : \A k \in gaps : g <= k
    BY <2>2, Least
  <2>4. PICK n \in ends : g = N - n
    OBVIOUS
  <2>5. ASSUME NEW k \in ends PROVE n >= k
    <3>1. g <= N - k
      BY <2>3
    <3>2. n \in Nat /\ k \in Nat
      BY <2>4, <2>6
    <3> QED
      BY <1>0, <2>4, <3>1, <3>2
  <2> QED
    BY <2>4, <2>5, <2>6 DEF Max
<1>4. walk.files = files(end) /\ walk.skipped = end - Cardinality(files(end))
      /\ walk.truncated = (end < N)
  BY DEF CollectFiles
<1> HIDE DEF loop, walk, end, ends
<1>5. end = N
  <2>1. ~(end < N)
    BY <1>2, <1>4
  <2> QED
    BY <1>0, <1>3, <2>1
<1>6. /\ IsFiniteSet(1..N) /\ Cardinality(1..N) = N /\ IsFiniteSet(files(N))
      /\ Cardinality(files(N)) \in 0..N
      /\ Cardinality(files(N)) = N => files(N) = 1..N
  <2>1. IsFiniteSet(1..N) /\ Cardinality(1..N) = N
    <3>1. 1 \in Int /\ N \in Int
      BY <1>0
    <3>2. /\ IsFiniteSet(1..N)
          /\ Cardinality(1..N) = IF 1 > N THEN 0 ELSE N - 1 + 1
      BY ONLY <3>1, FS_Interval
    <3> QED
      BY <1>0, <3>2
  <2>2. files(N) \in SUBSET (1..N)
    OBVIOUS
  <2> HIDE DEF files
  <2> QED
    BY <1>0, <2>1, <2>2, FS_Subset, FS_CardinalityType
<1>7. \A i \in 0..N : loop[i] = ScanStep(tree, walk, ocr, late, loop, i)
  BY <1>1 DEF Scans
<1>13. loop[0] = [rows |-> 0, skipped |-> walk.skipped, cut |-> FALSE, over |-> FALSE]
  <2>1. 0 \in 0..N
    BY <1>0
  <2>2. loop[0] = ScanStep(tree, walk, ocr, late, loop, 0)
    BY <1>7, <2>1
  <2> QED
    BY ONLY <2>2 DEF ScanStep
<1> DEFINE untyped == {i \in 0..N : ~Tally(loop[i])}
<1>8. \A i \in 0..N : Tally(loop[i])
  <2> SUFFICES ASSUME untyped # {} PROVE FALSE
    OBVIOUS
  <2>1. untyped \in SUBSET Nat
    OBVIOUS
  <2>2. PICK i \in untyped : \A k \in untyped : i <= k
    BY <2>1, Least
  <2>3. CASE i = 0
    <3>2. walk.skipped \in Nat
      BY <1>4, <1>5, <1>6, <1>0
    <3>3. Tally(loop[0])
      BY <1>13, <3>2, PiiAssumption DEF Tally
    <3> QED
      BY <2>3, <3>3
  <2>4. CASE i # 0
    <3>1. i \in 1..N /\ i - 1 \in 0..N /\ i - 1 \notin untyped
      BY <1>0, <2>2, <2>4
    <3>2. Tally(ScanStep(tree, walk, ocr, late, loop, i))
      BY <3>1, QuietRound
    <3> QED
      BY <1>7, <3>1, <3>2
  <2> QED
    BY <2>3, <2>4
<1> DEFINE loud == {n \in 0..N : ~Quiet(loop[N - n])}
<1>9. \A i \in 0..N : Quiet(loop[i])
  <2>1. ASSUME loud # {} PROVE FALSE
    <3>1. loud \in SUBSET Nat
      OBVIOUS
    <3>2. PICK n \in loud : \A k \in loud : n <= k
      BY <2>1, <3>1, Least
    <3>3. n # 0
      BY <1>0, <1>2 DEF Quiet
    <3>4. n - 1 \in 0..N /\ n - 1 \notin loud /\ N - (n - 1) \in 1..N
          /\ (N - (n - 1)) - 1 = N - n /\ N - n \in 0..N
      BY <1>0, <3>2, <3>3
    <3>5. Quiet(loop[N - (n - 1)])
      BY <3>4
    <3> DEFINE i == N - (n - 1)
    <3>6. i \in 1..N /\ i \in 0..N /\ i - 1 \in 0..N /\ loop[i - 1] = loop[N - n]
      BY <1>0, <3>4
    <3> HIDE DEF i
    <3>7. Quiet(loop[i - 1])
      BY <1>7, <1>8, <3>5, <3>6, QuietRound DEF i
    <3> QED
      BY <3>6, <3>7
  <2>2. ASSUME NEW i \in 0..N PROVE Quiet(loop[i])
    <3>1. N - i \in 0..N /\ N - (N - i) = i
      BY <1>0
    <3>2. N - i \notin loud
      BY <2>1
    <3>3. Quiet(loop[N - (N - i)])
      BY <3>1, <3>2
    <3> QED
      BY <3>1, <3>3
  <2> QED
    BY <2>2
<1>10. walk.files = 1..N
  <2>1. loop[0].skipped = walk.skipped
    BY <1>13
  <2>2. walk.skipped = 0
    BY <1>0, <1>9, <2>1 DEF Quiet
  <2> QED
    BY <1>0, <1>4, <1>5, <1>6, <2>2
<1>11. ASSUME NEW i \in 1..N PROVE Innocent(tree[i])
  <2>1. i \in 0..N /\ i - 1 \in 0..N
    BY <1>0
  <2>2. Quiet(ScanStep(tree, walk, ocr, late, loop, i)) /\ Tally(loop[i - 1])
    BY <1>7, <1>8, <1>9, <2>1
  <2> QED
    BY <1>10, <2>2, QuietRound
<1>12. DOMAIN tree = 1..N
  BY DEF IsTree
<1> QED
  BY <1>11, <1>12 DEF HoldsPii, Innocent

\* No tree that holds personal data passes the gate, with any configuration,
\* with or without OCR, at any speed.
THEOREM GateSound ==
  ASSUME NEW x \in Passing
  PROVE  x[1] \notin Dirty
<1>1. PICK late \in {0, 1, NoLimit} :
        /\ x \in Trees \X {c.max : c \in Configs} \X BOOLEAN
        /\ GateOk({x[1]}, x[2], x[3], late)
  BY DEF Passing
<1>2. x[1] \in Trees /\ x[2] \in Nat /\ x[3] \in BOOLEAN
  BY <1>1, PipelineAssumption
<1>3. IsTree(x[1])
  BY <1>2, PipelineAssumption
<1>4. EffectiveMax(x[2]) \in Nat
  BY <1>2, PiiAssumption DEF EffectiveMax
<1>5. /\ Scan(x[1], EffectiveMax(x[2]), x[3], late).clean
      /\ Scan(x[1], EffectiveMax(x[2]), x[3], late).complete
  BY <1>1 DEF GateOk
<1>6. ~HoldsPii(x[1])
  BY <1>2, <1>3, <1>4, <1>5, ScanSound
<1> QED
  BY <1>6 DEF Dirty

-----------------------------------------------------------------------------
(* The writer's gate.                                                       *)

\* What the gate lets through held nothing when it was scanned.
LEMMA PassesClean ==
  ASSUME NEW dirty \in Passes
  PROVE  dirty = {}
<1>1. PICK ocr \in BOOLEAN :
        dirty \in {{p \in run.paths : held[p] \in Dirty} :
                      held \in [run.paths -> {t \in Trees : <<t, cfg.max, ocr>> \in Passing}]}
  BY DEF Passes
<1>2. PICK held \in [run.paths -> {t \in Trees : <<t, cfg.max, ocr>> \in Passing}] :
        dirty = {p \in run.paths : held[p] \in Dirty}
  BY <1>1
<1>3. \A p \in run.paths : held[p] \notin Dirty
  <2> TAKE p \in run.paths
  <2>1. <<held[p], cfg.max, ocr>> \in Passing
    BY <1>2
  <2> QED
    BY <2>1, GateSound
<1> QED
  BY <1>2, <1>3

\* A writer past its gate has found nothing, and looked at the run's own log.
LEMMA ScannedInductive ==
  ASSUME Typed, HookStands, SpoolOwned, Scanned, [Next]_vars
  PROVE  Scanned'
<1> USE Parameters DEF Local, Goto, Keep, End, NotCreated, Start
<1> USE DEF RunFields
<1> USE DEF Typed, RunTyped, RunShape, HookStands, SpoolOwned, Scanned, InTry, Idle
<1> USE NoRunFields
<1>1. ASSUME NEW c \in Calls, PreToolCall(c) PROVE Scanned'
  BY <1>1 DEF PreToolCall
<1>2. ASSUME Answered PROVE Scanned'
  BY <1>2 DEF Answered
<1>3. ASSUME BuildPipeline PROVE Scanned'
  BY <1>3 DEF BuildPipeline
<1>4. ASSUME EvidenceGiven PROVE Scanned'
  BY <1>4 DEF EvidenceGiven
<1>5. ASSUME EvidenceFetched PROVE Scanned'
  BY <1>5 DEF EvidenceFetched
<1>6. ASSUME EvidenceFailed PROVE Scanned'
  BY <1>6 DEF EvidenceFailed
<1>7. ASSUME History PROVE Scanned'
  BY <1>7 DEF History
<1>8. ASSUME Triage PROVE Scanned'
  BY <1>8 DEF Triage
<1>9. ASSUME TriageFails PROVE Scanned'
  BY <1>9 DEF TriageFails
<1>10. ASSUME Fork PROVE Scanned'
  BY <1>10 DEF Fork
<1>11. ASSUME HealFails PROVE Scanned'
  BY <1>11 DEF HealFails
<1>12. ASSUME NEW pr \in BOOLEAN, HealStable(pr) PROVE Scanned'
  BY <1>12 DEF HealStable
<1>13. ASSUME FeedBack PROVE Scanned'
  BY <1>13 DEF FeedBack
<1>14. ASSUME FeedBackEnds PROVE Scanned'
  BY <1>14 DEF FeedBackEnds
<1>15. ASSUME BugReport PROVE Scanned'
  BY <1>15 DEF BugReport
<1>16. ASSUME EvidencePaths PROVE Scanned'
  BY <1>16 DEF EvidencePaths
<1>17. ASSUME PiiGate PROVE Scanned'
  BY <1>17 DEF PiiGate
<1>18. ASSUME Tracker PROVE Scanned'
  BY <1>18 DEF Tracker
<1>19. ASSUME WriteEnabled PROVE Scanned'
  BY <1>19 DEF WriteEnabled
<1>20. ASSUME WriteGate PROVE Scanned'
  <2>1. ASSUME NEW dirty \in Passes, run' = [run EXCEPT !.dirty = dirty], pc' = "post", pc = "scan"
        PROVE  Scanned'
    <3>1. dirty = {}
      BY <2>1, PassesClean
    <3> QED
      BY <2>1, <3>1
  <2>2. CASE NotCreated
    BY <1>20, <2>2 DEF WriteGate
  <2> QED
    BY <1>20, <2>1, <2>2 DEF WriteGate
<1>21. ASSUME PostCreated PROVE Scanned'
  BY <1>21 DEF PostCreated
<1>22. ASSUME PostUnheard PROVE Scanned'
  BY <1>22 DEF PostUnheard
<1>23. ASSUME PostRefused PROVE Scanned'
  BY <1>23 DEF PostRefused
<1>24. ASSUME Record PROVE Scanned'
  BY <1>24 DEF Record
<1>25. ASSUME RecordFails PROVE Scanned'
  BY <1>25 DEF RecordFails
<1>26. ASSUME Cleanup PROVE Scanned'
  BY <1>26 DEF Cleanup
<1>27. ASSUME Escapes PROVE Scanned'
  BY <1>27 DEF Escapes
<1>28. ASSUME EditConfig PROVE Scanned'
  BY <1>28 DEF EditConfig
<1>29. ASSUME HostDies PROVE Scanned'
  BY <1>29 DEF HostDies
<1>30. ASSUME DayPasses PROVE Scanned'
  BY <1>30 DEF DayPasses
<1>31. ASSUME UNCHANGED vars PROVE Scanned'
  BY <1>31 DEF vars
<1> QED
  BY <1>1, <1>2, <1>3, <1>4, <1>5, <1>6, <1>7, <1>8, <1>9, <1>10, <1>11, <1>12, <1>13,
     <1>14, <1>15, <1>16, <1>17, <1>18, <1>19, <1>20, <1>21, <1>22, <1>23, <1>24, <1>25,
     <1>26, <1>27, <1>28, <1>29, <1>30, <1>31
  DEF Next, Step

\* CleanTickets, issue by issue.
Clean(i) == /\ i.dirty = {}
            /\ i.tool # "incident" => {i.log} \ {"none", "remote"} \subseteq i.scanned
AllClean == \A i \in jira : Clean(i)

\* An issue is filed with what the writer's gate has just seen.
LEMMA CleanInductive ==
  ASSUME Typed, Scanned, AllClean, [Next]_vars
  PROVE  AllClean'
<1> USE Parameters DEF Local, Goto, Keep, End, NotCreated, Start
<1> USE DEF RunFields
<1> USE DEF Typed, RunTyped, RunShape, Scanned, AllClean, Clean, InTry, Idle
<1> USE NoRunFields
<1>1. ASSUME NEW c \in Calls, PreToolCall(c) PROVE AllClean'
  BY <1>1 DEF PreToolCall
<1>2. ASSUME Answered PROVE AllClean'
  BY <1>2 DEF Answered
<1>3. ASSUME BuildPipeline PROVE AllClean'
  BY <1>3 DEF BuildPipeline
<1>4. ASSUME EvidenceGiven PROVE AllClean'
  BY <1>4 DEF EvidenceGiven
<1>5. ASSUME EvidenceFetched PROVE AllClean'
  BY <1>5 DEF EvidenceFetched
<1>6. ASSUME EvidenceFailed PROVE AllClean'
  BY <1>6 DEF EvidenceFailed
<1>7. ASSUME History PROVE AllClean'
  BY <1>7 DEF History
<1>8. ASSUME Triage PROVE AllClean'
  BY <1>8 DEF Triage
<1>9. ASSUME TriageFails PROVE AllClean'
  BY <1>9 DEF TriageFails
<1>10. ASSUME Fork PROVE AllClean'
  BY <1>10 DEF Fork
<1>11. ASSUME HealFails PROVE AllClean'
  BY <1>11 DEF HealFails
<1>12. ASSUME NEW pr \in BOOLEAN, HealStable(pr) PROVE AllClean'
  BY <1>12 DEF HealStable
<1>13. ASSUME FeedBack PROVE AllClean'
  BY <1>13 DEF FeedBack
<1>14. ASSUME FeedBackEnds PROVE AllClean'
  BY <1>14 DEF FeedBackEnds
<1>15. ASSUME BugReport PROVE AllClean'
  BY <1>15 DEF BugReport
<1>16. ASSUME EvidencePaths PROVE AllClean'
  BY <1>16 DEF EvidencePaths
<1>17. ASSUME PiiGate PROVE AllClean'
  BY <1>17 DEF PiiGate
<1>18. ASSUME Tracker PROVE AllClean'
  BY <1>18 DEF Tracker
<1>19. ASSUME WriteEnabled PROVE AllClean'
  BY <1>19 DEF WriteEnabled
<1>20. ASSUME WriteGate PROVE AllClean'
  BY <1>20 DEF WriteGate
<1>21. ASSUME PostCreated PROVE AllClean'
  <2>1. Clean(Issue)
    BY <1>21 DEF PostCreated, Issue
  <2>2. \A i \in jira' : i \in jira \/ i = Issue
    BY <1>21 DEF PostCreated
  <2> QED
    BY <2>1, <2>2
<1>22. ASSUME PostUnheard PROVE AllClean'
  <2>1. Clean(Issue)
    BY <1>22 DEF PostUnheard, Issue
  <2>2. \A i \in jira' : i \in jira \/ i = Issue
    BY <1>22 DEF PostUnheard
  <2> QED
    BY <2>1, <2>2
<1>23. ASSUME PostRefused PROVE AllClean'
  BY <1>23 DEF PostRefused
<1>24. ASSUME Record PROVE AllClean'
  BY <1>24 DEF Record
<1>25. ASSUME RecordFails PROVE AllClean'
  BY <1>25 DEF RecordFails
<1>26. ASSUME Cleanup PROVE AllClean'
  BY <1>26 DEF Cleanup
<1>27. ASSUME Escapes PROVE AllClean'
  BY <1>27 DEF Escapes
<1>28. ASSUME EditConfig PROVE AllClean'
  BY <1>28 DEF EditConfig
<1>29. ASSUME HostDies PROVE AllClean'
  BY <1>29 DEF HostDies
<1>30. ASSUME DayPasses PROVE AllClean'
  BY <1>30 DEF DayPasses
<1>31. ASSUME UNCHANGED vars PROVE AllClean'
  BY <1>31 DEF vars
<1> QED
  BY <1>1, <1>2, <1>3, <1>4, <1>5, <1>6, <1>7, <1>8, <1>9, <1>10, <1>11, <1>12, <1>13,
     <1>14, <1>15, <1>16, <1>17, <1>18, <1>19, <1>20, <1>21, <1>22, <1>23, <1>24, <1>25,
     <1>26, <1>27, <1>28, <1>29, <1>30, <1>31
  DEF Next, Step

\* The run of no call reports nothing.
LEMMA NoRunTexts == NoRun.raw = {} /\ NoRun.text = {}
BY DEF NoRun

\* What may be reported is a text, and what leaves it is part of it.
LEMMA ReportHidden ==
  ASSUME Reported
  PROVE  /\ IsText(run.raw) /\ Exposed(run.raw, run.text) = {}
         /\ EgressClean(run.text) \subseteq run.raw
<1>1. IsText({})
  BY FS_EmptySet DEF IsText
<1>2. IsText(run.raw)
  BY <1>1, PipelineAssumption DEF Reported
<1> QED
  BY <1>2, EgressKeepsIn DEF Reported

\* A report is redacted on its way, and no issue shows what stands apart in it.
LEMMA ReportedInductive ==
  ASSUME Typed, Reported, [Next]_vars
  PROVE  Reported'
<1> USE Parameters DEF Local, Goto, Keep, End, NotCreated, Start
<1> USE DEF RunFields
<1> USE DEF Typed, RunTyped, RunShape, Reported, InTry, Idle
<1> USE NoRunFields, NoRunTexts
<1>1. ASSUME NEW c \in Calls, PreToolCall(c) PROVE Reported'
  BY <1>1 DEF PreToolCall
<1>2. ASSUME Answered PROVE Reported'
  BY <1>2 DEF Answered
<1>3. ASSUME BuildPipeline PROVE Reported'
  BY <1>3 DEF BuildPipeline
<1>4. ASSUME EvidenceGiven PROVE Reported'
  BY <1>4 DEF EvidenceGiven
<1>5. ASSUME EvidenceFetched PROVE Reported'
  BY <1>5 DEF EvidenceFetched
<1>6. ASSUME EvidenceFailed PROVE Reported'
  BY <1>6 DEF EvidenceFailed
<1>7. ASSUME History PROVE Reported'
  BY <1>7 DEF History
<1>8. ASSUME Triage PROVE Reported'
  BY <1>8 DEF Triage
<1>9. ASSUME TriageFails PROVE Reported'
  BY <1>9 DEF TriageFails
<1>10. ASSUME Fork PROVE Reported'
  BY <1>10 DEF Fork
<1>11. ASSUME HealFails PROVE Reported'
  BY <1>11 DEF HealFails
<1>12. ASSUME NEW pr \in BOOLEAN, HealStable(pr) PROVE Reported'
  BY <1>12 DEF HealStable
<1>13. ASSUME FeedBack PROVE Reported'
  BY <1>13 DEF FeedBack
<1>14. ASSUME FeedBackEnds PROVE Reported'
  BY <1>14 DEF FeedBackEnds
<1>15. ASSUME BugReport PROVE Reported'
  BY <1>15 DEF BugReport
<1>16. ASSUME EvidencePaths PROVE Reported'
  BY <1>16 DEF EvidencePaths
<1>17. ASSUME PiiGate PROVE Reported'
  BY <1>17 DEF PiiGate
<1>18. ASSUME Tracker PROVE Reported'
  BY <1>18, ReportHidden DEF Tracker
<1>19. ASSUME WriteEnabled PROVE Reported'
  BY <1>19 DEF WriteEnabled
<1>20. ASSUME WriteGate PROVE Reported'
  BY <1>20 DEF WriteGate
<1>21. ASSUME PostCreated PROVE Reported'
  <2>1. Issue.exposed = {}
    BY ReportHidden DEF Issue
  <2>2. \A i \in jira' : i \in jira \/ i = Issue
    BY <1>21 DEF PostCreated
  <2>3. run'.raw \in Texts \cup {{}} /\ run'.text \subseteq run'.raw
    BY <1>21 DEF PostCreated
  <2> QED
    BY <2>1, <2>2, <2>3
<1>22. ASSUME PostUnheard PROVE Reported'
  <2>1. Issue.exposed = {}
    BY ReportHidden DEF Issue
  <2>2. \A i \in jira' : i \in jira \/ i = Issue
    BY <1>22 DEF PostUnheard
  <2>3. run'.raw \in Texts \cup {{}} /\ run'.text \subseteq run'.raw
    BY <1>22 DEF PostUnheard
  <2> QED
    BY <2>1, <2>2, <2>3
<1>23. ASSUME PostRefused PROVE Reported'
  BY <1>23 DEF PostRefused
<1>24. ASSUME Record PROVE Reported'
  BY <1>24 DEF Record
<1>25. ASSUME RecordFails PROVE Reported'
  BY <1>25 DEF RecordFails
<1>26. ASSUME Cleanup PROVE Reported'
  BY <1>26 DEF Cleanup
<1>27. ASSUME Escapes PROVE Reported'
  BY <1>27 DEF Escapes
<1>28. ASSUME EditConfig PROVE Reported'
  BY <1>28 DEF EditConfig
<1>29. ASSUME HostDies PROVE Reported'
  BY <1>29 DEF HostDies
<1>30. ASSUME DayPasses PROVE Reported'
  BY <1>30 DEF DayPasses
<1>31. ASSUME UNCHANGED vars PROVE Reported'
  BY <1>31 DEF vars
<1> QED
  BY <1>1, <1>2, <1>3, <1>4, <1>5, <1>6, <1>7, <1>8, <1>9, <1>10, <1>11, <1>12, <1>13,
     <1>14, <1>15, <1>16, <1>17, <1>18, <1>19, <1>20, <1>21, <1>22, <1>23, <1>24, <1>25,
     <1>26, <1>27, <1>28, <1>29, <1>30, <1>31
  DEF Next, Step

-----------------------------------------------------------------------------
(* The ledger.                                                              *)

\* The green runs of a call stay what they are while no other is written.
LEMMA SameGreens ==
  ASSUME greens' = greens, NEW n
  PROVE  GreensOf(n)' = GreensOf(n)
BY DEF GreensOf

\* No green run carries the number of a call to come.
LEMMA NoGreensYet ==
  ASSUME Typed
  PROVE  /\ GreensOf(calls + 1) = {}
         /\ IsFiniteSet({}) /\ Cardinality({}) = 0
<1>1. GreensOf(calls + 1) = {}
  BY Parameters DEF Typed, WorldTyped, GreensOf
<1> QED
  BY <1>1, FS_EmptySet

\* Each repeat that is fed back is a green run more.
LEMMA OneGreenMore ==
  ASSUME Typed, RunBacked, FeedBack
  PROVE  /\ IsFiniteSet(GreensOf(calls)') /\ Cardinality(GreensOf(calls)') = run.fed + 1
         /\ \A g \in GreensOf(calls)' : g[2] < run.fed + 1
         /\ \A n : n # calls => GreensOf(n)' = GreensOf(n)
<1>1. IsFiniteSet(GreensOf(calls)) /\ Cardinality(GreensOf(calls)) = run.fed
  BY DEF RunBacked, FeedBack
<1>2. GreensOf(calls)' = GreensOf(calls) \cup {<<calls, run.fed>>}
  BY DEF GreensOf, FeedBack, SourceFile
<1>3. <<calls, run.fed>> \notin GreensOf(calls)
  BY DEF RunBacked, FeedBack, Typed, RunTyped, RunShape
<1>4. \A n : n # calls => GreensOf(n)' = GreensOf(n)
  BY DEF GreensOf, FeedBack, SourceFile
<1>5. run.fed \in Nat
  BY Parameters DEF Typed, RunTyped, RunShape
<1>6. IsFiniteSet(GreensOf(calls)') /\ Cardinality(GreensOf(calls)') = run.fed + 1
  BY <1>1, <1>2, <1>3, FS_AddElement
<1>7. \A g \in GreensOf(calls)' : g[2] < run.fed + 1
  <2> TAKE g \in GreensOf(calls)'
  <2>1. CASE g \in GreensOf(calls)
    <3>1. g[2] < run.fed /\ g[2] \in Nat
      BY <2>1, Parameters DEF RunBacked, FeedBack, Typed, WorldTyped, GreensOf
    <3> QED
      BY <3>1, <1>5
  <2>2. CASE g = <<calls, run.fed>>
    BY <2>2, <1>5
  <2> QED
    BY <1>2, <2>1, <2>2
<1> QED
  BY <1>4, <1>6, <1>7

\* A step that writes nothing and at most gives up keeps the run's word.
LEMMA QuietStep ==
  ASSUME RunBacked, pc # "idle", pc' # "heal",
         UNCHANGED <<calls, jira, prs, greens, ledger>>,
         run'.branch = run.branch, run'.fed = run.fed,
         run'.outcome \in {run.outcome, "needs_attention"},
         pc \in {"feedback", "record", "cleanup"} => pc' \in {"feedback", "record", "cleanup"},
         pc = "cleanup" => pc' = "cleanup"
  PROVE  RunBacked'
<1>1. GreensOf(calls)' = GreensOf(calls)
  BY SameGreens
<1> QED
  BY <1>1 DEF RunBacked

\* A run's outcome is backed by what it did.
LEMMA RunBackedInductive ==
  ASSUME Typed, HookStands, RunBacked, [Next]_vars
  PROVE  RunBacked'
<1> USE Parameters DEF Local, Goto, Keep, End, NotCreated, Start
<1> USE DEF RunFields
<1> USE DEF Typed, RunTyped, RunShape, WorldTyped, HookStands, RunBacked, InTry, Idle
<1> USE NoRunFields, SameGreens
<1>1. ASSUME NEW c \in Calls, PreToolCall(c) PROVE RunBacked'
  <2>1. GreensOf(calls)' = {}
    BY ONLY <1>1, NoGreensYet, Typed DEF PreToolCall, GreensOf
  <2>2. /\ run'.outcome = "needs_attention" /\ run'.repeats = 0 /\ run'.fed = 0
        /\ run'.branch = "none"
    BY <1>1 DEF PreToolCall
  <2>3. pc' \in {"approval", "build", "write"}
    BY <1>1 DEF PreToolCall
  <2>4. \A w \in jira' \cup prs' \cup ledger' : w.call # calls'
    BY ONLY <1>1, Typed DEF PreToolCall, Typed, WorldTyped
  <2> QED
    BY ONLY <2>1, <2>2, <2>3, <2>4, NoGreensYet, Typed DEF RunBacked
<1>2. ASSUME Answered PROVE RunBacked'
  BY <1>2 DEF Answered
<1>3. ASSUME BuildPipeline PROVE RunBacked'
  BY <1>3 DEF BuildPipeline
<1>4. ASSUME EvidenceGiven PROVE RunBacked'
  BY <1>4 DEF EvidenceGiven
<1>5. ASSUME EvidenceFetched PROVE RunBacked'
  BY <1>5 DEF EvidenceFetched
<1>6. ASSUME EvidenceFailed PROVE RunBacked'
  BY <1>6 DEF EvidenceFailed
<1>7. ASSUME History PROVE RunBacked'
  BY <1>7 DEF History
<1>8. ASSUME Triage PROVE RunBacked'
  BY <1>8 DEF Triage
<1>9. ASSUME TriageFails PROVE RunBacked'
  BY <1>9 DEF TriageFails
<1>10. ASSUME Fork PROVE RunBacked'
  <2>1. /\ run'.fed = run.fed /\ run'.outcome = run.outcome
        /\ pc' = "heal" => run'.branch = "heal"
    BY <1>10 DEF Fork
  <2>2. run.outcome \notin {"healed", "pr_opened"}
    BY <1>10 DEF Fork
  <2> QED
    BY <1>10, <2>1, <2>2 DEF Fork
<1>11. ASSUME HealFails PROVE RunBacked'
  BY <1>11 DEF HealFails
<1>12. ASSUME NEW pr \in BOOLEAN, HealStable(pr) PROVE RunBacked'
  <2>1. PICK n \in Repeats :
          run' = [run EXCEPT !.repeats = BurninRepeats(n),
                             !.outcome = IF pr THEN "pr_opened" ELSE "healed"]
    BY <1>12 DEF HealStable
  <2>2. /\ run'.branch = "heal" /\ run'.fed = run.fed
        /\ run'.outcome = IF pr THEN "pr_opened" ELSE "healed"
    BY <1>12, <2>1 DEF HealStable
  <2>3. CASE pr
    <3> DEFINE w == [call |-> calls, tool |-> run.call.tool,
                     asked |-> run.asked, edited |-> edits # run.since]
    <3>1. w \in prs'
      BY <1>12, <2>3 DEF HealStable
    <3>2. w.call = calls
      OBVIOUS
    <3> HIDE DEF w
    <3> QED
      BY <1>12, <2>2, <2>3, <3>1, <3>2 DEF HealStable
  <2>4. CASE ~pr
    BY <1>12, <2>2, <2>4 DEF HealStable
  <2> QED
    BY <2>3, <2>4
<1>13. ASSUME FeedBack PROVE RunBacked'
  BY <1>13, OneGreenMore DEF FeedBack
<1>14. ASSUME FeedBackEnds PROVE RunBacked'
  BY <1>14 DEF FeedBackEnds
<1>15. ASSUME BugReport PROVE RunBacked'
  <2>1. /\ run'.branch = run.branch /\ run'.fed = run.fed
        /\ run'.outcome \in {run.outcome, "needs_attention"}
    <3>1. CASE End("needs_attention")
      BY <1>15, <3>1 DEF BugReport
    <3>2. ASSUME NEW t \in Texts, run' = [run EXCEPT !.raw = t, !.text = t] PROVE <2>1!:
      BY <1>15, <3>2
    <3> QED
      BY <1>15, <3>1, <3>2 DEF BugReport
  <2>2. pc = "bug" /\ pc' \in {"paths", "record"}
    BY <1>15 DEF BugReport
  <2> QED
    BY <1>15, <2>1, <2>2, QuietStep DEF BugReport
<1>16. ASSUME EvidencePaths PROVE RunBacked'
  BY <1>16 DEF EvidencePaths
<1>17. ASSUME PiiGate PROVE RunBacked'
  BY <1>17 DEF PiiGate
<1>18. ASSUME Tracker PROVE RunBacked'
  BY <1>18 DEF Tracker
<1>19. ASSUME WriteEnabled PROVE RunBacked'
  BY <1>19 DEF WriteEnabled
<1>20. ASSUME WriteGate PROVE RunBacked'
  BY <1>20 DEF WriteGate
<1>21. ASSUME PostCreated PROVE RunBacked'
  <2>1. Issue \in jira' /\ Issue.call = calls
    BY <1>21 DEF PostCreated, Issue
  <2>2. jira \subseteq jira' /\ run.fed = 0 /\ \A r \in ledger : r.call # calls
    BY <1>21 DEF PostCreated
  <2> QED
    BY <1>21, <2>1, <2>2 DEF PostCreated
<1>22. ASSUME PostUnheard PROVE RunBacked'
  <2>1. Issue \in jira' /\ Issue.call = calls
    BY <1>22 DEF PostUnheard, Issue
  <2>2. jira \subseteq jira' /\ run.fed = 0 /\ \A r \in ledger : r.call # calls
    BY <1>22 DEF PostUnheard
  <2> QED
    BY <1>22, <2>1, <2>2 DEF PostUnheard
<1>23. ASSUME PostRefused PROVE RunBacked'
  BY <1>23 DEF PostRefused
<1>24. ASSUME Record PROVE RunBacked'
  BY <1>24 DEF Record
<1>25. ASSUME RecordFails PROVE RunBacked'
  BY <1>25 DEF RecordFails
<1>26. ASSUME Cleanup PROVE RunBacked'
  BY <1>26 DEF Cleanup
<1>27. ASSUME Escapes PROVE RunBacked'
  BY <1>27 DEF Escapes
<1>28. ASSUME EditConfig PROVE RunBacked'
  BY <1>28 DEF EditConfig
<1>29. ASSUME HostDies PROVE RunBacked'
  BY <1>29 DEF HostDies
<1>30. ASSUME DayPasses PROVE RunBacked'
  BY <1>30 DEF DayPasses
<1>31. ASSUME UNCHANGED vars PROVE RunBacked'
  BY <1>31 DEF vars
<1> QED
  BY <1>1, <1>2, <1>3, <1>4, <1>5, <1>6, <1>7, <1>8, <1>9, <1>10, <1>11, <1>12, <1>13,
     <1>14, <1>15, <1>16, <1>17, <1>18, <1>19, <1>20, <1>21, <1>22, <1>23, <1>24, <1>25,
     <1>26, <1>27, <1>28, <1>29, <1>30, <1>31
  DEF Next, Step

\* OutcomeBacked, with the green runs of a call by their name.
Backed ==
    \A r \in ledger :
        /\ r.outcome = "ticket_created" => \E i \in jira : i.call = r.call
        /\ r.outcome = "pr_opened" => \E p \in prs : p.call = r.call
        /\ r.outcome \in {"ticket_ready", "healed"} =>
               \A w \in jira \cup prs : w.call # r.call
        /\ r.outcome \in {"healed", "pr_opened"} => r.branch = "heal"
        /\ Cardinality(GreensOf(r.call)) = r.fed

\* Nothing is done in the name of a run whose row is written.
LEMMA BackedInductive ==
  ASSUME Typed, RunBacked, Backed, [Next]_vars
  PROVE  Backed'
<1> USE Parameters DEF Local, Goto, Keep, End, NotCreated, Start
<1> USE DEF RunFields
<1> USE DEF Typed, RunTyped, RunShape, WorldTyped, RunBacked, Backed, InTry, Idle
<1> USE NoRunFields, SameGreens
<1>1. ASSUME NEW c \in Calls, PreToolCall(c) PROVE Backed'
  BY <1>1 DEF PreToolCall
<1>2. ASSUME Answered PROVE Backed'
  BY <1>2 DEF Answered
<1>3. ASSUME BuildPipeline PROVE Backed'
  BY <1>3 DEF BuildPipeline
<1>4. ASSUME EvidenceGiven PROVE Backed'
  BY <1>4 DEF EvidenceGiven
<1>5. ASSUME EvidenceFetched PROVE Backed'
  BY <1>5 DEF EvidenceFetched
<1>6. ASSUME EvidenceFailed PROVE Backed'
  BY <1>6 DEF EvidenceFailed
<1>7. ASSUME History PROVE Backed'
  BY <1>7 DEF History
<1>8. ASSUME Triage PROVE Backed'
  BY <1>8 DEF Triage
<1>9. ASSUME TriageFails PROVE Backed'
  BY <1>9 DEF TriageFails
<1>10. ASSUME Fork PROVE Backed'
  BY <1>10 DEF Fork
<1>11. ASSUME HealFails PROVE Backed'
  BY <1>11 DEF HealFails
<1>12. ASSUME NEW pr \in BOOLEAN, HealStable(pr) PROVE Backed'
  BY <1>12 DEF HealStable
<1>13. ASSUME FeedBack PROVE Backed'
  BY <1>13, OneGreenMore DEF FeedBack
<1>14. ASSUME FeedBackEnds PROVE Backed'
  BY <1>14 DEF FeedBackEnds
<1>15. ASSUME BugReport PROVE Backed'
  <2>1. UNCHANGED <<jira, prs, ledger, greens>>
    BY <1>15 DEF BugReport
  <2> QED
    BY <2>1
<1>16. ASSUME EvidencePaths PROVE Backed'
  BY <1>16 DEF EvidencePaths
<1>17. ASSUME PiiGate PROVE Backed'
  BY <1>17 DEF PiiGate
<1>18. ASSUME Tracker PROVE Backed'
  BY <1>18 DEF Tracker
<1>19. ASSUME WriteEnabled PROVE Backed'
  BY <1>19 DEF WriteEnabled
<1>20. ASSUME WriteGate PROVE Backed'
  BY <1>20 DEF WriteGate
<1>21. ASSUME PostCreated PROVE Backed'
  BY <1>21 DEF PostCreated, Issue
<1>22. ASSUME PostUnheard PROVE Backed'
  BY <1>22 DEF PostUnheard, Issue
<1>23. ASSUME PostRefused PROVE Backed'
  BY <1>23 DEF PostRefused
<1>24. ASSUME Record PROVE Backed'
  BY <1>24 DEF Record, Row
<1>25. ASSUME RecordFails PROVE Backed'
  BY <1>25 DEF RecordFails
<1>26. ASSUME Cleanup PROVE Backed'
  BY <1>26 DEF Cleanup
<1>27. ASSUME Escapes PROVE Backed'
  BY <1>27 DEF Escapes
<1>28. ASSUME EditConfig PROVE Backed'
  BY <1>28 DEF EditConfig
<1>29. ASSUME HostDies PROVE Backed'
  BY <1>29 DEF HostDies
<1>30. ASSUME DayPasses PROVE Backed'
  BY <1>30 DEF DayPasses
<1>31. ASSUME UNCHANGED vars PROVE Backed'
  BY <1>31 DEF vars
<1> QED
  BY <1>1, <1>2, <1>3, <1>4, <1>5, <1>6, <1>7, <1>8, <1>9, <1>10, <1>11, <1>12, <1>13,
     <1>14, <1>15, <1>16, <1>17, <1>18, <1>19, <1>20, <1>21, <1>22, <1>23, <1>24, <1>25,
     <1>26, <1>27, <1>28, <1>29, <1>30, <1>31
  DEF Next, Step

-----------------------------------------------------------------------------
(* The pattern store.                                                       *)

\* Pruning leaves rows of what it was given, and the row of today among them.
LEMMA PrunedRows ==
  ASSUME PatternsTyped, calls \in Nat, NEW e, NEW category,
         NEW new, new = [sig |-> e.sig, category |-> category, seen |-> calls]
  PROVE  /\ Pruned(Recorded(e, category)) \subseteq Recorded(e, category)
         /\ new \in Pruned(Recorded(e, category))
         /\ IsFiniteSet(Recorded(e, category))
         /\ \A p \in Recorded(e, category) : p.seen \in Int /\ p.seen <= calls
<1> DEFINE rows == Recorded(e, category)
<1>1. new.seen = calls /\ new.sig = e.sig
  OBVIOUS
<1>2. rows = {p \in patterns : p.sig # e.sig} \cup {new}
  BY DEF Recorded
<1>3. IsFiniteSet(rows)
  <2> DEFINE others == {p \in patterns : p.sig # e.sig}
  <2>1. IsFiniteSet(others)
    BY FS_Subset DEF PatternsTyped
  <2>2. rows = others \cup {new}
    BY <1>2
  <2> HIDE DEF others, rows
  <2> QED
    BY <2>1, <2>2, FS_AddElement
<1>4. \A p \in rows : p.seen \in Int /\ p.seen <= calls
  BY <1>1, <1>2 DEF PatternsTyped
<1>5. Pruned(rows) \subseteq rows
  BY DEF Pruned
<1>6. new \in Pruned(rows)
  <2> DEFINE young == {p \in rows : p.seen >= calls - Retention}
  <2>1. new \in young
    BY <1>1, <1>2, Parameters
  <2> DEFINE above == {q \in young : q.seen > new.seen}
  <2>2. above = {}
    BY <1>1, <1>4
  <2>3. Cardinality(above) < MaxRows
    <3> HIDE DEF above
    <3> QED
      BY <2>2, FS_EmptySet, Parameters
  <2> HIDE DEF rows
  <2> QED
    BY <2>1, <2>3 DEF Pruned
<1> QED
  BY <1>3, <1>4, <1>5, <1>6

\* A row that pruning takes away was seen before each row it leaves.
LEMMA OldestGo ==
  ASSUME NEW rows, IsFiniteSet(rows), calls \in Nat, \A p \in rows : p.seen \in Int,
         NEW p \in rows, p \notin Pruned(rows), NEW q \in Pruned(rows)
  PROVE  p.seen < q.seen
<1> DEFINE young == {o \in rows : o.seen >= calls - Retention}
           above(r) == {o \in young : o.seen > r.seen}
<1>1. q \in young /\ Cardinality(above(q)) < MaxRows
  BY DEF Pruned
<1>2. p.seen \in Int /\ q.seen \in Int
  BY <1>1
<1>3. CASE p \notin young
  BY <1>1, <1>2, <1>3, Parameters
<1>4. CASE p \in young
  <2>1. ~(Cardinality(above(p)) < MaxRows)
    BY <1>4 DEF Pruned
  <2>2. SUFFICES ASSUME q.seen <= p.seen PROVE FALSE
    BY <1>2
  <2>3. above(p) \subseteq above(q)
    BY <2>2, <1>2
  <2>4. IsFiniteSet(above(q))
    BY FS_Subset
  <2>5. /\ Cardinality(above(p)) <= Cardinality(above(q))
        /\ Cardinality(above(p)) \in Nat /\ Cardinality(above(q)) \in Nat
    <3>1. IsFiniteSet(above(p))
      BY <2>3, <2>4, FS_Subset
    <3> HIDE DEF above
    <3> QED
      BY <2>3, <2>4, <3>1, FS_Subset, FS_CardinalityType
  <2> HIDE DEF above
  <2> QED
    BY <1>1, <2>1, <2>5, Parameters
<1> QED
  BY <1>3, <1>4

\* The store stays finite, and no row is of a day to come.
LEMMA PatternsTypedInductive ==
  ASSUME Typed, PatternsTyped, [Next]_vars
  PROVE  PatternsTyped'
<1> USE DEF Local
<1>1. calls \in Nat
  BY Parameters DEF Typed, WorldTyped
<1>2. ASSUME NEW c \in Calls, PreToolCall(c) PROVE PatternsTyped'
  BY <1>1, <1>2 DEF PreToolCall, PatternsTyped
<1>3. ASSUME Triage PROVE PatternsTyped'
  <2>1. CASE patterns' = patterns
    BY <1>3, <2>1 DEF Triage, PatternsTyped
  <2>2. ASSUME NEW e \in Excerpts, NEW category, patterns' = Pruned(Recorded(e, category))
        PROVE  PatternsTyped'
    <3>1. /\ patterns' \subseteq Recorded(e, category) /\ IsFiniteSet(Recorded(e, category))
          /\ \A p \in Recorded(e, category) : p.seen \in Int /\ p.seen <= calls
      BY <1>1, <2>2, PrunedRows
    <3>2. IsFiniteSet(patterns')
      BY <3>1, FS_Subset
    <3> QED
      BY <1>3, <3>1, <3>2 DEF Triage, PatternsTyped
  <2> QED
    BY <1>3, <2>1, <2>2 DEF Triage
<1>4. ASSUME UNCHANGED <<calls, patterns>> PROVE PatternsTyped'
  BY <1>4 DEF PatternsTyped
<1> QED
  BY <1>2, <1>3, <1>4
  DEF Next, Step, Answered, BuildPipeline, EvidenceGiven, EvidenceFetched, EvidenceFailed, History,
      TriageFails, Fork, HealFails, HealStable, FeedBack, FeedBackEnds, BugReport, EvidencePaths,
      PiiGate, Tracker, WriteEnabled, WriteGate, PostCreated, PostUnheard, PostRefused, Record,
      RecordFails, Cleanup, Escapes, EditConfig, HostDies, DayPasses, vars

\* Only a triage changes what the project has learnt.
LEMMA OnlyTriageLearns ==
  ASSUME [Next]_vars, patterns' # patterns
  PROVE  Triage
BY DEF Next, Step, Local, PreToolCall, Answered, BuildPipeline, EvidenceGiven, EvidenceFetched,
       EvidenceFailed, History, TriageFails, Fork, HealFails, HealStable, FeedBack, FeedBackEnds,
       BugReport, EvidencePaths, PiiGate, Tracker, WriteEnabled, WriteGate, PostCreated,
       PostUnheard, PostRefused, Record, RecordFails, Cleanup, Escapes, EditConfig, HostDies,
       DayPasses, vars

-----------------------------------------------------------------------------
(* The theorems.                                                            *)

Pipelined == Typed /\ HookStands /\ SpoolOwned /\ Asked /\ RunBacked /\ Backed /\ PatternsTyped

\* Every reachable state of the pipeline is one the parts above describe.
LEMMA PipelinedInvariant == Spec => []Pipelined
<1>1. Init => Pipelined
  <2> SUFFICES ASSUME Init PROVE Pipelined
    OBVIOUS
  <2> USE NoRunFields, Parameters DEF Init
  <2>1. Typed
    BY DEF Typed, RunTyped, RunShape, WorldTyped, Outcomes, Pcs
  <2>2. HookStands /\ SpoolOwned /\ Asked /\ RunBacked /\ Backed
    BY DEF HookStands, SpoolOwned, Asked, RunBacked, Backed, InTry
  <2>3. PatternsTyped
    BY DEF PatternsTyped
  <2> QED
    BY <2>1, <2>2, <2>3 DEF Pipelined
<1>2. Pipelined /\ [Next]_vars => Pipelined'
  <2> SUFFICES ASSUME Pipelined, [Next]_vars PROVE Pipelined'
    OBVIOUS
  <2>1. Typed'
    BY RunTypedInductive, WorldTypedInductive DEF Pipelined, Typed
  <2> QED
    BY <2>1, HookStandsInductive, SpoolOwnedInductive, AskedInductive, RunBackedInductive,
       BackedInductive, PatternsTypedInductive DEF Pipelined
<1> QED
  BY <1>1, <1>2, PTL DEF Spec

\* The pipeline's variables keep their types: every run is at a step the code has, feeds back
\* at most the cap, and the ledger names only the outcomes of Pipeline._run_from_evidence.
THEOREM PipelineTyping == Spec => []PipelineTypeOK
<1>1. Pipelined => PipelineTypeOK
  BY DEF Pipelined, Typed, RunTyped, RunShape, WorldTyped, PipelineTypeOK
<1> QED
  BY <1>1, PipelinedInvariant, PTL

\* pre_tool_call sees what the run will do: however a mode is spelled, and whatever the tracker's
\* switches are, no tool call files an issue or opens a pull request unasked, unless the
\* configuration was edited after the hook.
THEOREM WritesApproved == Spec => []ApprovedWrites
<1>1. Asked => ApprovedWrites
  <2> SUFFICES ASSUME Asked, NEW x \in jira \cup prs,
                      NEW w, w = [tool |-> x.tool, asked |-> x.asked, edited |-> x.edited],
                      w.tool # "command"
               PROVE  w.asked \/ w.edited
    BY DEF ApprovedWrites
  <2>1. w.tool = x.tool /\ w.asked = x.asked /\ w.edited = x.edited
    OBVIOUS
  <2> QED
    BY <2>1 DEF Asked
<1> QED
  BY <1>1, PipelinedInvariant, PTL DEF Pipelined

\* The finally of Pipeline.run removes what a run has spooled and read, whichever way it ends:
\* between two runs the spool holds dead hosts' logs and those _spool_log failed to write, no
\* other; and a run that reads its spooled log has it there, next to nothing a day old.
THEOREM SpoolAccounted == Spec => []SpoolRemoved
<1>1. SpoolOwned => SpoolRemoved
  BY DEF SpoolOwned, SpoolRemoved, Swept
<1> QED
  BY <1>1, PipelinedInvariant, PTL DEF Pipelined

\* A row of pipeline_runs tells what happened, whatever else the run, a later run or a dying host
\* did: its ticket or pull request exists, one that reports neither has none, and every green run
\* it counts is in the history.
THEOREM LedgerTrue == Spec => []OutcomeBacked
<1>1. Backed => OutcomeBacked
  BY DEF Backed, OutcomeBacked, GreensOf
<1> QED
  BY <1>1, PipelinedInvariant, PTL DEF Pipelined

\* PatternStore.record and prune, for every cap, retention and store: what a triage has just
\* recorded survives its own pruning, and what the pruning takes is older than what it leaves.
THEOREM PatternsSurvive == Spec => PatternsKept
<1> DEFINE Kept == patterns' # patterns =>
         /\ \E p \in patterns' : p.seen = calls /\ p.category = run'.category
         /\ \A p \in patterns, q \in patterns' :
                (\A o \in patterns' : o.sig # p.sig) => p.seen < q.seen
<1>1. Pipelined /\ [Next]_vars => Kept
  <2> SUFFICES ASSUME Pipelined, [Next]_vars, patterns' # patterns
               PROVE  /\ \E p \in patterns' : p.seen = calls /\ p.category = run'.category
                      /\ \A p \in patterns, q \in patterns' :
                             (\A o \in patterns' : o.sig # p.sig) => p.seen < q.seen
    OBVIOUS
  <2>1. calls \in Nat /\ PatternsTyped /\ DOMAIN run = RunFields
    BY Parameters DEF Pipelined, Typed, WorldTyped, RunTyped, RunShape
  <2>2. PICK e \in Excerpts, answer \in Categories \cup {NoCategory} :
          /\ run' = [run EXCEPT !.category = Classified(e, answer)]
          /\ patterns' = Pruned(Recorded(e, Classified(e, answer)))
    BY OnlyTriageLearns DEF Triage
  <2> DEFINE category == Classified(e, answer)
             new == [sig |-> e.sig, category |-> category, seen |-> calls]
  <2>3. run'.category = category
    BY <2>1, <2>2 DEF RunFields
  <2> HIDE DEF category
  <2>4. /\ new \in patterns' /\ IsFiniteSet(Recorded(e, category))
        /\ \A p \in Recorded(e, category) : p.seen \in Int
    BY <2>1, <2>2, PrunedRows DEF category
  <2>5. ASSUME NEW p \in patterns, NEW q \in patterns', \A o \in patterns' : o.sig # p.sig
        PROVE  p.seen < q.seen
    <3>1. p.sig # e.sig
      BY <2>4, <2>5
    <3>2. p \in Recorded(e, category)
      BY <3>1 DEF Recorded
    <3>3. p \notin Pruned(Recorded(e, category))
      BY <2>2, <2>5 DEF category
    <3> QED
      BY <2>1, <2>2, <2>4, <3>2, <3>3, OldestGo DEF category
  <2> QED
    BY <2>3, <2>4, <2>5
<1> QED
  BY <1>1, PipelinedInvariant, PTL DEF Spec, PatternsKept

\* handle_create_incident scans what it files: every issue's evidence was scanned and clean in that
\* very call, the run's own log among it, whatever the pipeline's gate was set to and whoever called.
THEOREM TicketsClean == Spec => []CleanTickets
<1>1. Init => Scanned /\ AllClean
  BY DEF Init, Scanned, AllClean
<1>2. Pipelined /\ Scanned /\ AllClean /\ [Next]_vars => (Scanned /\ AllClean)'
  BY ScannedInductive, CleanInductive DEF Pipelined
<1>3. AllClean => CleanTickets
  BY DEF AllClean, Clean, CleanTickets
<1> QED
  BY <1>1, <1>2, <1>3, PipelinedInvariant, PTL DEF Spec

\* mask_pii, redact_text and the detectors under them: no text is reported whose values the detectors
\* do not hit, whose findings overlap, or whose outermost hits yield to less sure ones, and no issue
\* shows a value that stands apart, whether or not the redactor's patterns take it.
THEOREM MaskingKeeps == Spec => []MaskingSound
<1>1. Init => Reported
  BY NoRunTexts DEF Init, Reported
<1>2. Pipelined /\ Reported /\ [Next]_vars => Reported'
  BY ReportedInductive DEF Pipelined
<1>3. Reported => MaskingSound
  <2> SUFFICES ASSUME Reported PROVE run.raw \in Sound
    BY DEF MaskingSound, Reported
  <2>1. IsText(run.raw)
    BY ReportHidden
  <2> QED
    BY <2>1, TextSound DEF Reported, Sound
<1> QED
  BY <1>1, <1>2, <1>3, PipelinedInvariant, PTL DEF Spec

=============================================================================
