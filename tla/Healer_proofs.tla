---------------------------- MODULE Healer_proofs ----------------------------
(***************************************************************************)
(* Proofs about the healer, for any number of concurrent heals, any        *)
(* requests, answers, sources, edits and stored recipes, and any user and  *)
(* any failures in between: what a report says is what was tested, what a  *)
(* heal publishes is what ran green, a recipe was earned, and a git flow   *)
(* that fails puts everything back.                                        *)
(***************************************************************************)
EXTENDS Healer, FiniteSetTheorems, SequenceTheorems, WellFoundedInduction, TLAPS

-----------------------------------------------------------------------------
(* The inductive invariant.                                                *)

HealFields == {"pc", "request", "t", "source", "signature", "recipe", "used", "strategy",
               "diagnosis", "ops", "fresh", "plan", "second", "diff", "trial", "copy", "runs",
               "green", "tested", "stable", "error", "original", "start", "cleaned", "failed",
               "pushed", "disturbed"}

Shaped(s) == DOMAIN s = HealFields /\ s.pc \in PCs /\ s.runs \in 0..Repeats
                /\ (s.pc = "burn" => s.runs # Repeats)

HealsTyped == DOMAIN heals = Heals /\ \A h \in Heals : Shaped(heals[h])

\* The branches are never empty, and one that exists is checked out.
GitTyped ==
  /\ DOMAIN git = {"tree", "index", "head", "branches", "remote"}
  /\ git.head \in DOMAIN git.branches /\ Base \in DOMAIN git.branches
  /\ \A b \in DOMAIN git.branches : git.branches[b] \in Seq(Range(git.branches[b]))

RecipeTyped(r) ==
  /\ DOMAIN r = {"strategy", "ops", "diagnosis", "hits", "successes", "failures"}
  /\ {r.hits, r.successes, r.failures} \subseteq Nat
  /\ r.hits = r.successes + r.failures

RecipesTyped == \A g \in DOMAIN recipes : RecipeTyped(recipes[g])

Typed == HealsTyped /\ GitTyped /\ RecipesTyped

\* A heal with a trace goes by the trace's signature, and what it is about to
\* store has just gone green.
Signed(s) ==
  /\ s.t.trace => s.signature = PartsOfTrace(s.t)
  /\ s.pc = "persist" =>
       s.t.trace /\ [signature |-> s.signature, strategy |-> s.strategy, ops |-> s.ops] \in earned

Unproven   == {"idle", "match", "stale", "plan", "reproduce", "diff", "burn", "fallback"}
Publishing == {"status", "refs", "checkout", "apply", "commit", "push", "pr"}

\* A stable report is about the patch it shows; only a stable one is published.
Coherent(s) ==
  /\ s.stable => Turns(s.diff[1], s.ops, s.diff[2])
  /\ s.pc = "burn" => Turns(s.trial[1], s.plan, s.trial[2])
  /\ s.pc \in Unproven => ~s.stable
  /\ s.pc \in Publishing => s.stable

\* In a repository nobody else wrote, the tree is the one the patch is tried on,
\* and each run was one of the patched tree.
Tried(s) ==
  ~s.disturbed =>
     /\ s.pc = "burn" => /\ s.trial[1] = git.tree
                         /\ s.runs = 0 => s.tested = {}
                         /\ s.runs # 0 => s.copy = s.trial[2] /\ s.tested = {s.trial[2]}
     /\ s.stable => s.tested = {s.diff[2]}
     /\ s.stable /\ s.pc \in {"bump", "persist", "record", "status", "refs", "checkout", "apply"}
           => git.tree = s.diff[1]

\* Where the git flow is, and what it needs to go back.
Flow(h) ==
  LET s == heals[h]
  IN  /\ s.pc \notin {"pr", "undo", "drop", "done"} => s.pushed = <<>>
      /\ s.pc \notin {"undo", "drop", "done"} => ~s.failed
      /\ ~s.disturbed =>
           /\ s.pushed # <<>> => s.stable /\ s.pushed = s.diff[2]
           /\ s.pc = "refs" => git.tree = git.index /\ git.index = Tip(git.head)
           /\ s.pc \in {"checkout", "apply"} =>
                Branch(h) \in DOMAIN patches /\ patches[Branch(h)] = s.ops
           /\ s.pc = "checkout" => git.head = s.original
           /\ s.pc \in {"checkout", "apply", "commit", "push", "pr", "undo", "drop"} =>
                /\ s.original \in DOMAIN git.branches
                /\ s.original # Branch(h) => Tip(s.original) = s.start
           /\ s.pc \in {"apply", "commit", "push"} => git.head = Branch(h)
           /\ s.pc = "commit" => git.index = s.diff[2]
           /\ s.pc = "push" => Tip(Branch(h)) = s.diff[2]
           /\ s.pc = "drop" /\ s.cleaned /\ s.original # Branch(h) =>
                git.head = s.original /\ git.tree = s.start /\ git.index = s.start
           /\ s.pc = "done" /\ s.failed /\ s.cleaned /\ s.original # Branch(h) => PutBack(h)

HealOK(h) == Signed(heals[h]) /\ Coherent(heals[h]) /\ Tried(heals[h]) /\ Flow(h)

HealsOK == \A h \in Heals : HealOK(h)

-----------------------------------------------------------------------------
(* Types.                                                                  *)

\* The report of no heal.
LEMMA NoReportFields ==
  /\ Shaped(NoReport) /\ NoReport.pc = "idle" /\ ~NoReport.t.trace
  /\ ~NoReport.stable /\ ~NoReport.failed /\ NoReport.pushed = <<>>
<1>1. DOMAIN NoReport = HealFields
  BY DEF NoReport, HealFields
<1>2. NoReport.pc = "idle" /\ NoReport.runs = 0 /\ NoReport.pushed = <<>> /\ NoReport.t = NoTrace
  BY DEF NoReport
<1>3. ~NoReport.stable /\ ~NoReport.failed
  BY DEF NoReport
<1>4. ~NoTrace.trace
  BY DEF NoTrace
<1> QED
  BY <1>1, <1>2, <1>3, <1>4, HealerAssumption DEF Shaped, PCs

\* Giving a heal another report of the right shape keeps the types.
LEMMA SetTyped ==
  ASSUME HealsTyped, NEW h \in Heals, NEW r, Shaped(r), Set(h, r)
  PROVE  HealsTyped'
BY DEF HealsTyped, Set

\* Moving it on without a burn-in does.
LEMMA GoTyped ==
  ASSUME HealsTyped, NEW h \in Heals, NEW pc \in PCs \ {"burn"}, Go(h, pc)
  PROVE  HealsTyped'
<1>1. Shaped(heals[h])
  BY DEF HealsTyped
<1>2. Shaped([heals[h] EXCEPT !.pc = pc])
  BY <1>1 DEF Shaped, HealFields
<1> QED
  BY <1>2, SetTyped DEF Go

\* So does its failure.
LEMMA FailTyped ==
  ASSUME HealsTyped, NEW h \in Heals, Fail(h)
  PROVE  HealsTyped'
<1>1. Shaped(heals[h])
  BY DEF HealsTyped
<1>2. Shaped([heals[h] EXCEPT !.error = TRUE, !.pc = "record"])
  BY <1>1 DEF Shaped, HealFields, PCs
<1> QED
  BY <1>2, SetTyped DEF Fail

\* So does a write to the repository, which disturbs the others.
LEMMA WritesTyped ==
  ASSUME HealsTyped, NEW h \in Heals, NEW pc \in PCs \ {"burn"}, NEW change, Writes(h, pc, change)
  PROVE  HealsTyped'
<1>1. \A o \in Heals : /\ Shaped([heals[o] EXCEPT !.pc = pc])
                       /\ Shaped([heals[o] EXCEPT !.disturbed = TRUE])
  BY DEF HealsTyped, Shaped, HealFields
<1> QED
  BY <1>1 DEF Writes, HealsTyped

\* A heal is always at a step the code has, and burns in at most Repeats runs.
LEMMA HealsTypedInductive ==
  ASSUME HealsTyped, [HealerNext]_vars
  PROVE  HealsTyped'
<1> USE SetTyped, GoTyped, FailTyped, WritesTyped DEF At, PCs
<1>0. \A h \in Heals : Shaped(heals[h])
  BY DEF HealsTyped
<1>1. ASSUME NEW h \in Heals, Begin(h) PROVE HealsTyped'
  <2>1. PICK request \in Requests :
          LET t == IF request.trace = <<>> THEN NoTrace ELSE Summary(request.trace)
              report == [NoReport EXCEPT !.request = request, !.t = t, !.source = git.tree,
                           !.signature = PartsOfTrace(t)]
          IN  Set(h, CASE request.spec = "missing" -> [report EXCEPT !.error = TRUE, !.pc = "record"]
                       [] request.isolation = "unreachable" -> [NoReport EXCEPT !.pc = "done"]
                       [] OTHER -> [report EXCEPT !.pc = "match"])
    BY <1>1 DEF Begin
  <2> DEFINE t == IF request.trace = <<>> THEN NoTrace ELSE Summary(request.trace)
             report == [NoReport EXCEPT !.request = request, !.t = t, !.source = git.tree,
                          !.signature = PartsOfTrace(t)]
  <2>2. Shaped(report) /\ report.runs = NoReport.runs
    BY NoReportFields DEF Shaped, HealFields
  <2> HIDE DEF report
  <2>3. /\ Shaped([report EXCEPT !.error = TRUE, !.pc = "record"])
        /\ Shaped([report EXCEPT !.pc = "match"])
        /\ Shaped([NoReport EXCEPT !.pc = "done"])
    BY <2>2, NoReportFields DEF Shaped, HealFields
  <2>4. \/ Set(h, [report EXCEPT !.error = TRUE, !.pc = "record"])
        \/ Set(h, [NoReport EXCEPT !.pc = "done"])
        \/ Set(h, [report EXCEPT !.pc = "match"])
    BY <2>1 DEF report
  <2> QED
    BY <2>3, <2>4
<1>2. ASSUME NEW h \in Heals, Match(h) PROVE HealsTyped'
  <2> DEFINE s == heals[h]
  <2>1. ASSUME NEW g, NEW ops
        PROVE  /\ Shaped([s EXCEPT !.recipe = g, !.pc = "stale"])
               /\ Shaped([Proposed([s EXCEPT !.recipe = g, !.used = TRUE],
                            recipes[g].diagnosis, recipes[g].strategy, ops)
                          EXCEPT !.pc = "reproduce"])
    BY <1>0 DEF Shaped, HealFields, Proposed
  <2>2. \/ Go(h, "plan")
        \/ \E g, ops :
              \/ Set(h, [s EXCEPT !.recipe = g, !.pc = "stale"])
              \/ Set(h, [Proposed([s EXCEPT !.recipe = g, !.used = TRUE],
                           recipes[g].diagnosis, recipes[g].strategy, ops)
                         EXCEPT !.pc = "reproduce"])
    BY <1>2 DEF Match
  <2> QED
    BY <2>1, <2>2
<1>3. ASSUME NEW h \in Heals, Stale(h) PROVE HealsTyped'
  BY <1>3 DEF Stale
<1>4. ASSUME NEW h \in Heals, PlanFix(h) PROVE HealsTyped'
  <2> DEFINE s == heals[h]
             report(sig, d, p) == Proposed([s EXCEPT !.signature = sig], d, p.strategy, p.ops)
  <2>1. ASSUME NEW sig, NEW d, NEW p
        PROVE  /\ Shaped([report(sig, d, p) EXCEPT !.error = TRUE, !.pc = "record"])
               /\ Shaped([report(sig, d, p) EXCEPT !.pc = "reproduce"])
    BY <1>0 DEF Shaped, HealFields, Proposed
  <2>a. PICK answer \in Answers :
          LET d == Diagnose(s.t, s.request.log, answer)
              p == Planned(d, s.t, s.source, s.request.override)
              said == [NoParts EXCEPT !.message = d.cause,
                         !.selector = <<d.selector.form, d.selector.id.shape>>]
              found == Proposed([s EXCEPT !.signature = IF s.t.trace THEN @ ELSE said],
                                [cause |-> d.cause, selector |-> d.selector], p.strategy, p.ops)
          IN  Set(h, IF p.ops = <<>> THEN [found EXCEPT !.error = TRUE, !.pc = "record"]
                     ELSE [found EXCEPT !.pc = "reproduce"])
    BY <1>4 DEF PlanFix
  <2> DEFINE d == Diagnose(s.t, s.request.log, answer)
             p == Planned(d, s.t, s.source, s.request.override)
             said == [NoParts EXCEPT !.message = d.cause,
                        !.selector = <<d.selector.form, d.selector.id.shape>>]
             sign == IF s.t.trace THEN s.signature ELSE said
             told == [cause |-> d.cause, selector |-> d.selector]
  <2>b. [s EXCEPT !.signature = IF s.t.trace THEN @ ELSE said] = [s EXCEPT !.signature = sign]
    BY <1>0 DEF Shaped, HealFields
  <2>c. \/ Set(h, [report(sign, told, p) EXCEPT !.error = TRUE, !.pc = "record"])
        \/ Set(h, [report(sign, told, p) EXCEPT !.pc = "reproduce"])
    BY <2>a, <2>b
  <2> HIDE DEF sign, told, p
  <2>2. \E x, y, z : \/ Set(h, [report(x, y, z) EXCEPT !.error = TRUE, !.pc = "record"])
                     \/ Set(h, [report(x, y, z) EXCEPT !.pc = "reproduce"])
    BY <2>c
  <2> QED
    BY <2>1, <2>2
<1>5. ASSUME NEW h \in Heals, Reproduce(h) PROVE HealsTyped'
  BY <1>5 DEF Reproduce
<1>6. ASSUME NEW h \in Heals, ComputeDiff(h) PROVE HealsTyped'
  <2> DEFINE s == heals[h]
             after == Applied(git.tree, s.plan)
             tried == [s EXCEPT !.trial = <<git.tree, after.src>>, !.runs = 0,
                        !.green = TRUE, !.tested = {}, !.pc = "burn"]
  <2>1. Shaped(tried)
    BY <1>0, HealerAssumption DEF Shaped, HealFields
  <2>2. Set(h, tried) \/ Fail(h)
    BY <1>6 DEF ComputeDiff
  <2> HIDE DEF tried
  <2> QED
    BY <2>1, <2>2
<1>7. ASSUME NEW h \in Heals, BurnRun(h) PROVE HealsTyped'
  <2> DEFINE s == heals[h]
             ran(src, passed) == [s EXCEPT !.copy = src, !.runs = @ + 1,
                                    !.tested = @ \cup {src}, !.green = @ /\ passed]
  <2>0. s.pc = "burn" /\ Shaped(s)
    BY <1>7, <1>0 DEF BurnRun
  <2> HIDE DEF s
  <2>1. s.runs + 1 \in 0..Repeats
    BY <2>0, HealerAssumption DEF Shaped
  <2> USE DEF s
  <2>2. ASSUME NEW src, NEW passed
        PROVE  /\ DOMAIN ran(src, passed) = HealFields
               /\ ran(src, passed).runs = s.runs + 1 /\ ran(src, passed).pc = "burn"
    BY <2>0, <1>0 DEF Shaped, HealFields
  <2>3. Fail(h) \/ \E src, passed : Set(h, IF ran(src, passed).runs = Repeats
                                           THEN BurnedIn(ran(src, passed)) ELSE ran(src, passed))
    BY <1>7 DEF BurnRun
  <2> HIDE DEF ran
  <2>4. ASSUME NEW src, NEW passed
        PROVE  /\ ran(src, passed).runs = Repeats => Shaped(BurnedIn(ran(src, passed)))
               /\ ran(src, passed).runs # Repeats => Shaped(ran(src, passed))
    BY <2>1, <2>2 DEF Shaped, HealFields, BurnedIn
  <2> QED
    BY <2>3, <2>4
<1>8. ASSUME NEW h \in Heals, Bump(h) PROVE HealsTyped'
  BY <1>8 DEF Bump
<1>9. ASSUME NEW h \in Heals, Fallback(h) PROVE HealsTyped'
  <2> DEFINE s == heals[h]
             again(p, d) == [s EXCEPT !.second = TRUE, !.strategy = p.strategy, !.plan = p.ops,
                               !.fresh = [cause |-> d.cause, selector |-> d.selector], !.pc = "diff"]
             same(p) == [s EXCEPT !.strategy = p.strategy, !.plan = p.ops, !.pc = "record"]
  <2>1. ASSUME NEW p, NEW d
        PROVE  Shaped(again(p, d)) /\ Shaped(same(p)) /\ Shaped([s EXCEPT !.pc = "record"])
    BY <1>0 DEF Shaped, HealFields
  <2>2. \E p, d : Set(h, again(p, d)) \/ Set(h, same(p)) \/ Set(h, [s EXCEPT !.pc = "record"])
    BY <1>9 DEF Fallback
  <2> HIDE DEF again, same
  <2> QED
    BY <2>1, <2>2
<1>10. ASSUME NEW h \in Heals, Persist(h) PROVE HealsTyped'
  BY <1>10 DEF Persist
<1>11. ASSUME NEW h \in Heals, Record(h) PROVE HealsTyped'
  BY <1>11 DEF Record
<1>12. ASSUME NEW h \in Heals, Status(h) PROVE HealsTyped'
  BY <1>12 DEF Status
<1>13. ASSUME NEW h \in Heals, Refs(h) PROVE HealsTyped'
  <2> DEFINE s == heals[h]
             flow == [s EXCEPT !.original = git.head, !.start = Tip(git.head), !.pc = "checkout"]
  <2>1. Shaped(flow) /\ \A o \in Heals : \A b : Shaped([heals[o] EXCEPT !.disturbed = b])
    BY <1>0 DEF Shaped, HealFields
  <2>2. \/ Go(h, "done")
        \/ heals' = [o \in Heals |-> IF o = h THEN flow
             ELSE [heals[o] EXCEPT !.disturbed = @ \/ Branch(o) = Branch(h)]]
    BY <1>13 DEF Refs
  <2> HIDE DEF flow
  <2>3. CASE heals' = [o \in Heals |-> IF o = h THEN flow
               ELSE [heals[o] EXCEPT !.disturbed = @ \/ Branch(o) = Branch(h)]]
    BY <2>1, <2>3 DEF HealsTyped
  <2> QED
    BY <2>2, <2>3
<1>14. ASSUME NEW h \in Heals, GitStep(h) PROVE HealsTyped'
  <2> DEFINE s == heals[h]
  <2>1. Shaped([s EXCEPT !.pushed = Tip(Branch(h)), !.pc = "pr"])
    BY <1>0 DEF Shaped, HealFields
  <2>2. \/ \E change : Writes(h, "apply", change) \/ Writes(h, "commit", change) \/ Writes(h, "push", change)
        \/ Set(h, [s EXCEPT !.pushed = Tip(Branch(h)), !.pc = "pr"])
        \/ Go(h, "done")
    BY <1>14 DEF GitStep
  <2> QED
    BY <2>1, <2>2
<1>15. ASSUME NEW h \in Heals, GitFails(h) PROVE HealsTyped'
  <2>1. Shaped([heals[h] EXCEPT !.failed = TRUE, !.pc = "undo"])
    BY <1>0 DEF Shaped, HealFields
  <2> QED
    BY <1>15, <2>1 DEF GitFails
<1>16. ASSUME NEW h \in Heals, Undo(h) PROVE HealsTyped'
  <2>1. Shaped([heals[h] EXCEPT !.cleaned = FALSE, !.pc = "drop"])
    BY <1>0 DEF Shaped, HealFields
  <2> QED
    BY <1>16, <2>1 DEF Undo
<1>17. ASSUME NEW h \in Heals, Drop(h) PROVE HealsTyped'
  <2>1. Shaped([heals[h] EXCEPT !.cleaned = FALSE, !.pc = "done"])
    BY <1>0 DEF Shaped, HealFields
  <2> QED
    BY <1>17, <2>1 DEF Drop
<1>18. ASSUME UserStep PROVE HealsTyped'
  <2>1. \A o \in Heals : Shaped([heals[o] EXCEPT !.disturbed = TRUE])
    BY <1>0 DEF Shaped, HealFields
  <2> QED
    BY <1>18, <2>1 DEF UserStep, HealsTyped
<1>19. ASSUME Over PROVE HealsTyped'
  BY <1>19 DEF Over, vars, HealsTyped
<1>20. ASSUME UNCHANGED vars PROVE HealsTyped'
  BY <1>20 DEF vars, HealsTyped
<1> QED
  BY <1>1, <1>2, <1>3, <1>4, <1>5, <1>6, <1>7, <1>8, <1>9, <1>10, <1>11, <1>12, <1>13,
     <1>14, <1>15, <1>16, <1>17, <1>18, <1>19, <1>20
  DEF HealerNext

\* Counting an outcome is a hit and a success, or a hit and a failure.
LEMMA CountedTyped ==
  ASSUME RecipesTyped, NEW g, NEW success, recipes' = Counted(g, success)
  PROVE  RecipesTyped'
<1> SUFFICES ASSUME NEW x \in DOMAIN recipes PROVE RecipeTyped(recipes'[x])
  BY DEF RecipesTyped, Counted
<1>1. RecipeTyped(recipes[x])
  BY DEF RecipesTyped
<1>2. CASE x # g
  BY <1>1, <1>2 DEF Counted
<1>3. CASE x = g
  <2> DEFINE r == recipes[x]
  <2>1. recipes'[x] = [r EXCEPT !.hits = @ + 1, !.successes = @ + (IF success THEN 1 ELSE 0),
                                !.failures = @ + (IF success THEN 0 ELSE 1)]
    BY <1>3 DEF Counted
  <2> HIDE DEF r
  <2> QED
    BY <1>1, <2>1 DEF RecipeTyped, r
<1> QED
  BY <1>2, <1>3

\* A new body starts its counters anew, the same one keeps them.
LEMMA UpsertedTyped ==
  ASSUME RecipesTyped, NEW g, NEW strategy, NEW ops, NEW diagnosis,
         recipes' = Upserted(g, strategy, ops, diagnosis)
  PROVE  RecipesTyped'
<1> DEFINE same == g \in DOMAIN recipes /\ recipes[g].strategy = strategy /\ recipes[g].ops = ops
           count(field) == IF same THEN recipes[g][field] ELSE 0
           new == [strategy |-> strategy, ops |-> ops, diagnosis |-> diagnosis, hits |-> count("hits"),
                   successes |-> count("successes"), failures |-> count("failures")]
<1>1. RecipeTyped(new)
  BY DEF RecipesTyped, RecipeTyped
<1>2. recipes' = With(recipes, g, new)
  BY DEF Upserted
<1> HIDE DEF new
<1>3. \A x \in DOMAIN recipes' : recipes'[x] = new \/ (x \in DOMAIN recipes /\ recipes'[x] = recipes[x])
  BY <1>2 DEF With
<1> QED
  BY <1>1, <1>3 DEF RecipesTyped

\* Every hit of a recipe is a success or a failure.
LEMMA RecipesTypedInductive ==
  ASSUME RecipesTyped, [HealerNext]_vars
  PROVE  RecipesTyped'
<1> USE CountedTyped, UpsertedTyped DEF RecipesTyped
<1>1. ASSUME NEW h \in Heals, Begin(h) PROVE RecipesTyped'
  BY <1>1 DEF Begin
<1>2. ASSUME NEW h \in Heals, Match(h) PROVE RecipesTyped'
  BY <1>2 DEF Match
<1>3. ASSUME NEW h \in Heals, Stale(h) PROVE RecipesTyped'
  BY <1>3, CountedTyped DEF Stale
<1>4. ASSUME NEW h \in Heals, PlanFix(h) PROVE RecipesTyped'
  BY <1>4 DEF PlanFix
<1>5. ASSUME NEW h \in Heals, Reproduce(h) PROVE RecipesTyped'
  BY <1>5 DEF Reproduce
<1>6. ASSUME NEW h \in Heals, ComputeDiff(h) PROVE RecipesTyped'
  BY <1>6 DEF ComputeDiff
<1>7. ASSUME NEW h \in Heals, BurnRun(h) PROVE RecipesTyped'
  BY <1>7 DEF BurnRun
<1>8. ASSUME NEW h \in Heals, Bump(h) PROVE RecipesTyped'
  BY <1>8, CountedTyped DEF Bump
<1>9. ASSUME NEW h \in Heals, Fallback(h) PROVE RecipesTyped'
  BY <1>9 DEF Fallback
<1>10. ASSUME NEW h \in Heals, Persist(h) PROVE RecipesTyped'
  BY <1>10, UpsertedTyped DEF Persist, RecipesTyped
<1>11. ASSUME NEW h \in Heals, Record(h) PROVE RecipesTyped'
  BY <1>11 DEF Record
<1>12. ASSUME NEW h \in Heals, Status(h) PROVE RecipesTyped'
  BY <1>12 DEF Status
<1>13. ASSUME NEW h \in Heals, Refs(h) PROVE RecipesTyped'
  BY <1>13 DEF Refs
<1>14. ASSUME NEW h \in Heals, GitStep(h) PROVE RecipesTyped'
  BY <1>14 DEF GitStep
<1>15. ASSUME NEW h \in Heals, GitFails(h) PROVE RecipesTyped'
  BY <1>15 DEF GitFails
<1>16. ASSUME NEW h \in Heals, Undo(h) PROVE RecipesTyped'
  BY <1>16 DEF Undo
<1>17. ASSUME NEW h \in Heals, Drop(h) PROVE RecipesTyped'
  BY <1>17 DEF Drop
<1>18. ASSUME UserStep PROVE RecipesTyped'
  BY <1>18 DEF UserStep
<1>19. ASSUME Over PROVE RecipesTyped'
  BY <1>19 DEF Over, vars
<1>20. ASSUME UNCHANGED vars PROVE RecipesTyped'
  BY <1>20 DEF vars
<1> QED
  BY <1>1, <1>2, <1>3, <1>4, <1>5, <1>6, <1>7, <1>8, <1>9, <1>10, <1>11, <1>12, <1>13,
     <1>14, <1>15, <1>16, <1>17, <1>18, <1>19, <1>20
  DEF HealerNext

\* A commit makes the branch longer, and is its tip.
LEMMA AppendListed ==
  ASSUME NEW s, s \in Seq(Range(s)), NEW e
  PROVE  /\ Append(s, e) \in Seq(Range(Append(s, e)))
         /\ Last(Append(s, e)) = e
<1>1. s \in Seq(Range(s) \cup {e})
  BY SeqMonotonic
<1>2. Append(s, e) \in Seq(Range(s) \cup {e}) /\ Len(Append(s, e)) = Len(s) + 1
      /\ Append(s, e)[Len(s) + 1] = e
  BY <1>1, AppendProperties
<1> QED
  BY <1>2, SeqOfRange DEF Last

\* What the writes do to the branches, one by one.
LEMMA CheckoutGit ==
  ASSUME GitTyped, NEW h \in Heals, git' = Checkout(h)
  PROVE  /\ GitTyped'
         /\ git'.tree = git.tree /\ git'.index = git.index /\ git'.head = Branch(h)
         /\ git'.branches[Branch(h)] = git.branches[git.head]
         /\ DOMAIN git'.branches = DOMAIN git.branches \cup {Branch(h)}
         /\ \A b \in DOMAIN git.branches : b # Branch(h) => git'.branches[b] = git.branches[b]
<1>1. git'.branches = With(git.branches, Branch(h), git.branches[git.head])
  BY DEF Checkout, GitTyped
<1>2. /\ git'.branches[Branch(h)] = git.branches[git.head]
      /\ DOMAIN git'.branches = DOMAIN git.branches \cup {Branch(h)}
      /\ \A b \in DOMAIN git.branches : b # Branch(h) => git'.branches[b] = git.branches[b]
  BY <1>1 DEF With
<1>3. /\ git'.tree = git.tree /\ git'.index = git.index /\ git'.head = Branch(h)
      /\ DOMAIN git' = DOMAIN git
  BY DEF Checkout, GitTyped
<1> QED
  BY <1>2, <1>3 DEF GitTyped

\* Applying the patch file changes the working tree and the index alone.
LEMMA ApplyingGit ==
  ASSUME GitTyped, NEW h \in Heals, git' = Applying(h)
  PROVE  /\ GitTyped'
         /\ git'.tree = Applied(git.tree, patches[Branch(h)]).src /\ git'.index = git'.tree
         /\ git'.head = git.head /\ git'.branches = git.branches
BY DEF Applying, GitTyped

\* A commit puts the index at the tip of the branch checked out, and moves no other.
LEMMA CommittingGit ==
  ASSUME GitTyped, git' = Committing
  PROVE  /\ GitTyped'
         /\ git'.tree = git.tree /\ git'.index = git.index /\ git'.head = git.head
         /\ DOMAIN git'.branches = DOMAIN git.branches
         /\ Last(git'.branches[git.head]) = git.index
         /\ \A b \in DOMAIN git.branches : b # git.head => git'.branches[b] = git.branches[b]
<1>1. git'.branches = [git.branches EXCEPT ![git.head] = Append(@, git.index)]
  BY DEF Committing, GitTyped
<1>2. /\ git'.tree = git.tree /\ git'.index = git.index /\ git'.head = git.head
      /\ DOMAIN git' = DOMAIN git
  BY DEF Committing, GitTyped
<1>3. /\ git'.branches[git.head] = Append(git.branches[git.head], git.index)
      /\ DOMAIN git'.branches = DOMAIN git.branches
      /\ \A b \in DOMAIN git.branches : b # git.head => git'.branches[b] = git.branches[b]
  BY <1>1 DEF GitTyped
<1>4. /\ git'.branches[git.head] \in Seq(Range(git'.branches[git.head]))
      /\ Last(git'.branches[git.head]) = git.index
  BY <1>3, AppendListed DEF GitTyped
<1> QED
  BY <1>2, <1>3, <1>4 DEF GitTyped

\* A push changes the remote alone.
LEMMA PushingGit ==
  ASSUME GitTyped, NEW h \in Heals, git' = Pushing(h)
  PROVE  /\ GitTyped'
         /\ git'.tree = git.tree /\ git'.index = git.index /\ git'.head = git.head
         /\ git'.branches = git.branches
BY DEF Pushing, GitTyped

\* A forced checkout of a branch puts its content in the tree and the index.
LEMMA UndoneGit ==
  ASSUME GitTyped, NEW branch \in DOMAIN git.branches, NEW back,
         git' = [git EXCEPT !.head = branch, !.tree = back, !.index = back]
  PROVE  /\ GitTyped'
         /\ git'.head = branch /\ git'.tree = back /\ git'.index = back
         /\ git'.branches = git.branches
BY DEF GitTyped

\* Deleting the fix branch, which is not checked out, leaves every other branch.
LEMMA DroppedGit ==
  ASSUME GitTyped, NEW h \in Heals, Branch(h) # git.head,
         git' = [git EXCEPT !.branches = Restrict(@, DOMAIN @ \ {Branch(h)})]
  PROVE  /\ GitTyped'
         /\ git'.tree = git.tree /\ git'.index = git.index /\ git'.head = git.head
         /\ DOMAIN git'.branches = DOMAIN git.branches \ {Branch(h)}
         /\ \A b \in DOMAIN git'.branches : git'.branches[b] = git.branches[b]
<1>1. git'.branches = Restrict(git.branches, DOMAIN git.branches \ {Branch(h)})
  BY DEF GitTyped
<1>2. /\ DOMAIN git'.branches = DOMAIN git.branches \ {Branch(h)}
      /\ \A b \in DOMAIN git'.branches : git'.branches[b] = git.branches[b]
  BY <1>1 DEF Restrict
<1>3. /\ git'.tree = git.tree /\ git'.index = git.index /\ git'.head = git.head
      /\ DOMAIN git' = DOMAIN git
  BY DEF GitTyped
<1>4. Branch(h) # Base
  BY DEF Branch, Base
<1> QED
  BY <1>2, <1>3, <1>4 DEF GitTyped

\* The user edits, commits and switches branches, and deletes none.
LEMMA UserGit ==
  ASSUME GitTyped, UserStep
  PROVE  GitTyped'
<1>1. ASSUME NEW edit, git' = [git EXCEPT !.tree = edit] PROVE GitTyped'
  BY <1>1 DEF GitTyped
<1>2. ASSUME git' = [git EXCEPT !.index = git.tree, !.branches[git.head] = Append(@, git.tree)]
      PROVE  GitTyped'
  <2>1. git'.branches = [git.branches EXCEPT ![git.head] = Append(@, git.tree)]
        /\ git'.head = git.head /\ DOMAIN git' = DOMAIN git
    BY <1>2 DEF GitTyped
  <2>2. /\ git'.branches[git.head] = Append(git.branches[git.head], git.tree)
        /\ DOMAIN git'.branches = DOMAIN git.branches
        /\ \A b \in DOMAIN git.branches : b # git.head => git'.branches[b] = git.branches[b]
    BY <2>1 DEF GitTyped
  <2>3. git'.branches[git.head] \in Seq(Range(git'.branches[git.head]))
    BY <2>2, AppendListed DEF GitTyped
  <2> QED
    BY <2>1, <2>2, <2>3 DEF GitTyped
<1>3. ASSUME git' = [git EXCEPT !.head = Base, !.tree = Tip(Base), !.index = Tip(Base)]
      PROVE  GitTyped'
  BY <1>3, UndoneGit DEF GitTyped
<1> QED
  BY <1>1, <1>2, <1>3 DEF UserStep

\* Whatever the git flow and the user do, a branch is checked out that exists, and the base branch
\* stays.
LEMMA GitTypedInductive ==
  ASSUME GitTyped, [HealerNext]_vars
  PROVE  GitTyped'
<1> USE DEF Writes
<1>0. git' = git => GitTyped'
  BY DEF GitTyped
<1>1. ASSUME NEW h \in Heals, Begin(h) PROVE GitTyped'
  BY <1>1, <1>0 DEF Begin
<1>2. ASSUME NEW h \in Heals, Match(h) PROVE GitTyped'
  BY <1>2, <1>0 DEF Match
<1>3. ASSUME NEW h \in Heals, Stale(h) PROVE GitTyped'
  BY <1>3, <1>0 DEF Stale
<1>4. ASSUME NEW h \in Heals, PlanFix(h) PROVE GitTyped'
  BY <1>4, <1>0 DEF PlanFix
<1>5. ASSUME NEW h \in Heals, Reproduce(h) PROVE GitTyped'
  BY <1>5, <1>0 DEF Reproduce
<1>6. ASSUME NEW h \in Heals, ComputeDiff(h) PROVE GitTyped'
  BY <1>6, <1>0 DEF ComputeDiff
<1>7. ASSUME NEW h \in Heals, BurnRun(h) PROVE GitTyped'
  BY <1>7, <1>0 DEF BurnRun
<1>8. ASSUME NEW h \in Heals, Bump(h) PROVE GitTyped'
  BY <1>8, <1>0 DEF Bump
<1>9. ASSUME NEW h \in Heals, Fallback(h) PROVE GitTyped'
  BY <1>9, <1>0 DEF Fallback
<1>10. ASSUME NEW h \in Heals, Persist(h) PROVE GitTyped'
  BY <1>10, <1>0 DEF Persist
<1>11. ASSUME NEW h \in Heals, Record(h) PROVE GitTyped'
  BY <1>11, <1>0 DEF Record
<1>12. ASSUME NEW h \in Heals, Status(h) PROVE GitTyped'
  BY <1>12, <1>0 DEF Status
<1>13. ASSUME NEW h \in Heals, Refs(h) PROVE GitTyped'
  BY <1>13, <1>0 DEF Refs
<1>14. ASSUME NEW h \in Heals, GitStep(h) PROVE GitTyped'
  <2>1. \/ git' = Checkout(h) \/ git' = Applying(h) \/ git' = Committing
        \/ git' = Pushing(h) \/ git' = git
    BY <1>14 DEF GitStep, Set, Go, At, Writes
  <2> QED
    BY <2>1, CheckoutGit, ApplyingGit, CommittingGit, PushingGit DEF GitTyped
<1>15. ASSUME NEW h \in Heals, GitFails(h) PROVE GitTyped'
  BY <1>15, <1>0 DEF GitFails
<1>16. ASSUME NEW h \in Heals, Undo(h) PROVE GitTyped'
  BY <1>16, <1>0, UndoneGit DEF Undo
<1>17. ASSUME NEW h \in Heals, Drop(h) PROVE GitTyped'
  BY <1>17, <1>0, DroppedGit DEF Drop
<1>18. ASSUME UserStep PROVE GitTyped'
  BY <1>18, UserGit
<1>19. ASSUME Over PROVE GitTyped'
  BY <1>19, <1>0 DEF Over, vars
<1>20. ASSUME UNCHANGED vars PROVE GitTyped'
  BY <1>20, <1>0 DEF vars
<1> QED
  BY <1>1, <1>2, <1>3, <1>4, <1>5, <1>6, <1>7, <1>8, <1>9, <1>10, <1>11, <1>12, <1>13,
     <1>14, <1>15, <1>16, <1>17, <1>18, <1>19, <1>20
  DEF HealerNext

-----------------------------------------------------------------------------
(* The steps up to a pull request.                                         *)

Preparing == Unproven \cup {"bump", "persist", "record", "status"}

\* A step that takes a heal on without a burn-in and without the repository.
Quiet(h) ==
  LET s == heals[h]
      z == heals'[h]
  IN  /\ UNCHANGED <<git, earned>>
      /\ z.t = s.t /\ (s.t.trace => z.signature = s.signature)
      /\ z.stable = s.stable /\ z.disturbed = s.disturbed /\ z.failed = s.failed
      /\ z.pushed = s.pushed /\ z.tested = s.tested /\ z.diff = s.diff
      /\ z.ops = s.ops \/ ~s.stable
      /\ s.pc \in Preparing
      /\ z.pc \in (Preparing \cup {"done"}) \ {"idle", "burn", "persist", "bump"}
      /\ z.pc \in Unproven => s.pc \in Unproven \/ ~s.stable
      /\ z.pc \in Publishing => s.stable

\* Such a step keeps what the heal claims.
LEMMA QuietOK ==
  ASSUME NEW h \in Heals, HealOK(h), Quiet(h)
  PROVE  HealOK(h)'
<1>0. Signed(heals[h]) /\ Coherent(heals[h]) /\ Tried(heals[h]) /\ Flow(h)
  BY DEF HealOK
<1> USE DEF Quiet, Preparing, Unproven, Publishing
<1>1. Signed(heals[h])'
  BY <1>0 DEF Signed
<1>2. Coherent(heals[h])'
  BY <1>0 DEF Coherent
<1>3. Tried(heals[h])'
  BY <1>0 DEF Tried, Coherent
<1>4. Flow(h)'
  BY <1>0 DEF Flow
<1> QED
  BY <1>1, <1>2, <1>3, <1>4 DEF HealOK

\* The quiet steps of a heal, one by one.
LEMMA GoQuiet ==
  ASSUME HealsTyped, NEW h \in Heals, NEW pc \in (Preparing \cup {"done"}) \ {"idle", "burn", "persist", "bump"},
         heals[h].pc \in Preparing, UNCHANGED <<git, earned>>, Go(h, pc),
         pc \in Unproven => ~heals[h].stable, pc \in Publishing => heals[h].stable
  PROVE  Quiet(h)
<1> DEFINE s == heals[h]
<1>1. heals'[h] = [s EXCEPT !.pc = pc] /\ DOMAIN s = HealFields
  BY DEF Go, Set, HealsTyped, Shaped
<1> QED
  BY <1>1 DEF Quiet, HealFields

\* A heal that fails goes on record.
LEMMA FailQuiet ==
  ASSUME HealsTyped, NEW h \in Heals, heals[h].pc \in Preparing, UNCHANGED <<git, earned>>, Fail(h)
  PROVE  Quiet(h)
<1> DEFINE s == heals[h]
<1>1. heals'[h] = [s EXCEPT !.error = TRUE, !.pc = "record"] /\ DOMAIN s = HealFields
  BY DEF Fail, Set, HealsTyped, Shaped
<1> QED
  BY <1>1 DEF Quiet, HealFields, Preparing, Unproven, Publishing

\* What a heal signs its recipe with, and what its report says of it.
SameSigns(s, z) == z.t = s.t /\ z.signature = s.signature
SameFlags(s, z) ==
  (z.stable <=> s.stable) /\ (z.failed <=> s.failed) /\ (z.disturbed <=> s.disturbed)

\* What a step that only plans leaves alone in a report.
SameEvidence(s, z) ==
  /\ z.t = s.t /\ z.stable = s.stable /\ z.disturbed = s.disturbed /\ z.failed = s.failed
  /\ z.pushed = s.pushed /\ z.tested = s.tested /\ z.diff = s.diff

\* A recipe that matches gives a plan, and no result yet.
LEMMA MatchQuiet ==
  ASSUME HealsTyped, NEW h \in Heals, HealOK(h), Match(h)
  PROVE  Quiet(h)
<1> DEFINE s == heals[h]
<1>0. ~s.stable /\ s.pc = "match" /\ UNCHANGED <<git, earned>> /\ DOMAIN s = HealFields
      /\ \A r : Set(h, r) => heals'[h] = r
  BY DEF HealOK, Coherent, Unproven, Match, At, HealsTyped, Shaped, Set
<1>1. \/ Go(h, "plan")
      \/ \E g, ops :
            \/ Set(h, [s EXCEPT !.recipe = g, !.pc = "stale"])
            \/ Set(h, [Proposed([s EXCEPT !.recipe = g, !.used = TRUE],
                         recipes[g].diagnosis, recipes[g].strategy, ops)
                       EXCEPT !.pc = "reproduce"])
  BY DEF Match
<1>2. CASE Go(h, "plan")
  BY <1>0, <1>2, GoQuiet DEF Preparing, Unproven, Publishing
<1>3. ASSUME NEW g, heals'[h] = [s EXCEPT !.recipe = g, !.pc = "stale"] PROVE Quiet(h)
  BY <1>0, <1>3 DEF Quiet, HealFields, Preparing, Unproven, Publishing
<1>4. ASSUME NEW g, NEW ops,
             heals'[h] = [Proposed([s EXCEPT !.recipe = g, !.used = TRUE],
                            recipes[g].diagnosis, recipes[g].strategy, ops)
                          EXCEPT !.pc = "reproduce"]
      PROVE  Quiet(h)
  <2>1. /\ heals'[h].pc = "reproduce" /\ SameEvidence(s, heals'[h])
        /\ heals'[h].signature = s.signature
    BY <1>0, <1>4 DEF Proposed, HealFields, SameEvidence
  <2> QED
    BY <1>0, <2>1 DEF Quiet, SameEvidence, Preparing, Unproven, Publishing
<1> QED
  BY <1>0, <1>1, <1>2, <1>3, <1>4

\* A heal with a trace keeps the trace's signature.
TraceSigns(s, sig) == s.t.trace => sig = s.signature

\* The report with a new plan.
Replanned(s, sig, d, p) == Proposed([s EXCEPT !.signature = sig], d, p.strategy, p.ops)

\* A diagnosis gives a plan, and signs a heal without a trace.
LEMMA PlanQuiet ==
  ASSUME HealsTyped, NEW h \in Heals, HealOK(h), PlanFix(h)
  PROVE  Quiet(h)
<1> DEFINE s == heals[h]
<1>0. ~s.stable /\ s.pc = "plan" /\ UNCHANGED <<git, earned>> /\ DOMAIN s = HealFields
      /\ \A r : Set(h, r) => heals'[h] = r
  BY DEF HealOK, Coherent, Unproven, PlanFix, At, HealsTyped, Shaped, Set
<1>1. ASSUME NEW sig, NEW d, NEW p
      PROVE  LET r == Replanned(s, sig, d, p)
             IN  SameEvidence(s, r) /\ r.signature = sig /\ DOMAIN r = HealFields
  BY <1>0 DEF Replanned, Proposed, HealFields, SameEvidence
<1>2. PICK sig, d, p : /\ TraceSigns(s, sig)
                        /\ \/ Set(h, [Replanned(s, sig, d, p) EXCEPT !.error = TRUE, !.pc = "record"])
                           \/ Set(h, [Replanned(s, sig, d, p) EXCEPT !.pc = "reproduce"])
  BY DEF PlanFix, Replanned, TraceSigns
<1>3. \/ heals'[h] = [Replanned(s, sig, d, p) EXCEPT !.error = TRUE, !.pc = "record"]
      \/ heals'[h] = [Replanned(s, sig, d, p) EXCEPT !.pc = "reproduce"]
  BY <1>2 DEF Set, HealsTyped
<1>4. ASSUME heals'[h] = [Replanned(s, sig, d, p) EXCEPT !.error = TRUE, !.pc = "record"]
      PROVE  Quiet(h)
  <2>1. heals'[h].pc = "record" /\ SameEvidence(s, heals'[h]) /\ heals'[h].signature = sig
    BY <1>1, <1>4 DEF HealFields, SameEvidence
  <2> QED
    BY <1>0, <1>2, <2>1 DEF TraceSigns, Quiet, SameEvidence, Preparing, Unproven, Publishing
<1>5. ASSUME heals'[h] = [Replanned(s, sig, d, p) EXCEPT !.pc = "reproduce"]
      PROVE  Quiet(h)
  <2>1. heals'[h].pc = "reproduce" /\ SameEvidence(s, heals'[h]) /\ heals'[h].signature = sig
    BY <1>1, <1>5 DEF HealFields, SameEvidence
  <2> QED
    BY <1>0, <1>2, <2>1 DEF TraceSigns, Quiet, SameEvidence, Preparing, Unproven, Publishing
<1> QED
  BY <1>4, <1>5, <1>3

\* A fresh plan after a failed recipe keeps the failed result until it has run.
LEMMA FallbackQuiet ==
  ASSUME HealsTyped, NEW h \in Heals, HealOK(h), Fallback(h)
  PROVE  Quiet(h)
<1> DEFINE s == heals[h]
           again(p, d) == [s EXCEPT !.second = TRUE, !.strategy = p.strategy, !.plan = p.ops,
                             !.fresh = [cause |-> d.cause, selector |-> d.selector], !.pc = "diff"]
           same(p) == [s EXCEPT !.strategy = p.strategy, !.plan = p.ops, !.pc = "record"]
<1>0. ~s.stable /\ s.pc = "fallback" /\ UNCHANGED <<git, earned>> /\ DOMAIN s = HealFields
      /\ \A r : Set(h, r) => heals'[h] = r
  BY DEF HealOK, Coherent, Unproven, Fallback, At, HealsTyped, Shaped, Set
<1>1. \E p, d : Set(h, again(p, d)) \/ Set(h, same(p)) \/ Set(h, [s EXCEPT !.pc = "record"])
  BY DEF Fallback
<1>2. ASSUME NEW p, NEW d, heals'[h] = again(p, d) PROVE Quiet(h)
  <2>1. /\ heals'[h].pc = "diff" /\ SameEvidence(s, heals'[h])
        /\ heals'[h].signature = s.signature
    BY <1>0, <1>2 DEF HealFields, SameEvidence
  <2> QED
    BY <1>0, <2>1 DEF Quiet, SameEvidence, Preparing, Unproven, Publishing
<1>3. ASSUME heals'[h] = [s EXCEPT !.pc = "record"] PROVE Quiet(h)
  BY <1>0, <1>3 DEF Quiet, HealFields, Preparing, Unproven, Publishing
<1>4. ASSUME NEW p, heals'[h] = same(p) PROVE Quiet(h)
  <2>1. /\ heals'[h].pc = "record" /\ SameEvidence(s, heals'[h])
        /\ heals'[h].signature = s.signature
    BY <1>0, <1>4 DEF HealFields, SameEvidence
  <2> QED
    BY <1>0, <2>1 DEF Quiet, SameEvidence, Preparing, Unproven, Publishing
<1> QED
  BY <1>0, <1>1, <1>2, <1>3, <1>4

\* Every step that neither burns in nor touches the repository is quiet.
LEMMA QuietSteps ==
  ASSUME HealsTyped, NEW h \in Heals, HealOK(h),
         \/ Match(h) \/ Stale(h) \/ PlanFix(h) \/ Reproduce(h) \/ Bump(h)
         \/ Fallback(h) \/ Persist(h) \/ Record(h)
  PROVE  HealOK(h)'
<1> SUFFICES Quiet(h)
  BY QuietOK
<1> USE DEF At, Preparing, Unproven, Publishing
<1>0. heals[h].pc \in Unproven => ~heals[h].stable
  BY DEF HealOK, Coherent
<1>1. CASE Match(h)
  BY <1>1, MatchQuiet
<1>2. CASE Stale(h)
  BY <1>0, <1>2, GoQuiet DEF Stale
<1>3. CASE PlanFix(h)
  BY <1>3, PlanQuiet
<1>4. CASE Reproduce(h)
  BY <1>0, <1>4, GoQuiet, FailQuiet DEF Reproduce
<1>5. CASE Bump(h)
  BY <1>5, GoQuiet DEF Bump
<1>6. CASE Fallback(h)
  BY <1>6, FallbackQuiet
<1>7. CASE Persist(h)
  BY <1>7, GoQuiet DEF Persist
<1>8. CASE Record(h)
  BY <1>8, GoQuiet DEF Record, MayPublish
<1> QED
  BY <1>1, <1>2, <1>3, <1>4, <1>5, <1>6, <1>7, <1>8

\* A new heal starts with an empty report.
LEMMA BeginOK ==
  ASSUME HealsTyped, NEW h \in Heals, Begin(h)
  PROVE  HealOK(h)'
<1>1. PICK request \in Requests :
        LET t == IF request.trace = <<>> THEN NoTrace ELSE Summary(request.trace)
            report == [NoReport EXCEPT !.request = request, !.t = t, !.source = git.tree,
                         !.signature = PartsOfTrace(t)]
        IN  Set(h, CASE request.spec = "missing" -> [report EXCEPT !.error = TRUE, !.pc = "record"]
                     [] request.isolation = "unreachable" -> [NoReport EXCEPT !.pc = "done"]
                     [] OTHER -> [report EXCEPT !.pc = "match"])
  BY DEF Begin
<1> DEFINE t == IF request.trace = <<>> THEN NoTrace ELSE Summary(request.trace)
           report == [NoReport EXCEPT !.request = request, !.t = t, !.source = git.tree,
                        !.signature = PartsOfTrace(t)]
           z == heals'[h]
<1>2. /\ DOMAIN report = HealFields /\ report.t = t /\ report.signature = PartsOfTrace(t)
      /\ ~report.stable /\ ~report.failed /\ report.pushed = <<>>
  BY NoReportFields DEF Shaped, HealFields
<1>3. \/ z = [report EXCEPT !.error = TRUE, !.pc = "record"]
      \/ z = [NoReport EXCEPT !.pc = "done"]
      \/ z = [report EXCEPT !.pc = "match"]
  BY <1>1 DEF report, Set, HealsTyped
<1> HIDE DEF report
<1>4. ASSUME NEW pc, z = [report EXCEPT !.pc = pc] \/ z = [report EXCEPT !.error = TRUE, !.pc = pc]
      PROVE  /\ z.pc = pc /\ ~z.stable /\ ~z.failed /\ z.pushed = <<>>
             /\ z.t = t /\ z.signature = PartsOfTrace(t)
  BY <1>2, <1>4 DEF HealFields
<1>5. ASSUME z = [NoReport EXCEPT !.pc = "done"]
      PROVE  z.pc = "done" /\ ~z.stable /\ ~z.failed /\ z.pushed = <<>> /\ ~z.t.trace
  BY <1>5, NoReportFields DEF Shaped, HealFields
<1>6. /\ z.pc \in {"record", "done", "match"} /\ ~z.stable /\ ~z.failed /\ z.pushed = <<>>
      /\ z.t.trace => z.signature = PartsOfTrace(z.t)
  BY <1>3, <1>4, <1>5
<1> QED
  BY <1>6 DEF HealOK, Signed, Coherent, Tried, Flow, Unproven, Publishing

-----------------------------------------------------------------------------
(* The diff and the burn-in.                                               *)

\* A diff is of the tree as it is now.
LEMMA DiffOK ==
  ASSUME HealsTyped, NEW h \in Heals, HealOK(h), ComputeDiff(h)
  PROVE  HealOK(h)'
<1> DEFINE s == heals[h]
           z == heals'[h]
           after == Applied(git.tree, s.plan)
<1>0. ~s.stable /\ s.pc = "diff" /\ UNCHANGED <<git, earned, patches>> /\ DOMAIN s = HealFields
  BY DEF HealOK, Coherent, Unproven, ComputeDiff, At, HealsTyped, Shaped
<1>1. CASE Fail(h)
  BY <1>0, <1>1, FailQuiet, QuietOK DEF Preparing, Unproven
<1>2. ASSUME after.ok, heals'[h] = [s EXCEPT !.trial = <<git.tree, after.src>>, !.runs = 0,
                                      !.green = TRUE, !.tested = {}, !.pc = "burn"]
      PROVE  HealOK(h)'
  <2>1. /\ z.pc = "burn" /\ z.trial = <<git.tree, after.src>> /\ z.runs = 0 /\ z.tested = {}
        /\ z.plan = s.plan /\ z.signature = s.signature /\ z.pushed = s.pushed
        /\ SameSigns(s, z) /\ SameFlags(s, z)
    BY <1>0, <1>2 DEF HealFields, SameSigns, SameFlags
  <2>2. Turns(z.trial[1], z.plan, z.trial[2])
    BY <1>2, <2>1 DEF Turns
  <2>3. Signed(heals[h])'
    BY <2>1 DEF HealOK, Signed, SameSigns
  <2>4. Coherent(heals[h])'
    BY <1>0, <2>1, <2>2 DEF Coherent, SameFlags, Publishing
  <2>5. Tried(heals[h])'
    BY <1>0, <2>1 DEF Tried, SameFlags
  <2>6. Flow(h)'
    BY <1>0, <2>1 DEF HealOK, Flow, SameFlags
  <2> QED
    BY <2>3, <2>4, <2>5, <2>6 DEF HealOK
<1>3. \/ Fail(h)
      \/ /\ after.ok
         /\ Set(h, [s EXCEPT !.trial = <<git.tree, after.src>>, !.runs = 0,
                      !.green = TRUE, !.tested = {}, !.pc = "burn"])
  BY DEF ComputeDiff
<1> QED
  BY <1>1, <1>2, <1>3 DEF Set, HealsTyped

\* A burn-in runs the patched tree, and a green one is on record before it counts.
LEMMA BurnOK ==
  ASSUME HealsTyped, NEW h \in Heals, HealOK(h), BurnRun(h)
  PROVE  HealOK(h)'
<1> DEFINE s == heals[h]
           z == heals'[h]
           ran(src, passed) == [s EXCEPT !.copy = src, !.runs = @ + 1,
                                  !.tested = @ \cup {src}, !.green = @ /\ passed]
           entry == [signature |-> s.signature, strategy |-> s.strategy, ops |-> s.plan]
<1>0. ~s.stable /\ s.pc = "burn" /\ UNCHANGED <<git, patches>> /\ Shaped(s)
      /\ Turns(s.trial[1], s.plan, s.trial[2]) /\ s.pushed = <<>> /\ ~s.failed
  BY DEF HealOK, Coherent, Flow, Unproven, BurnRun, At, HealsTyped
<1>1. CASE Fail(h) /\ UNCHANGED earned
  BY <1>0, <1>1, FailQuiet, QuietOK DEF Preparing, Unproven
<1>2. CASE ~(Fail(h) /\ UNCHANGED earned)
  <2> DEFINE work == IF s.runs = 0 \/ s.request.parallel THEN Applied(git.tree, s.plan)
                     ELSE [ok |-> TRUE, src |-> s.copy]
             src == work.src
  <2>a. src = IF s.runs = 0 \/ s.request.parallel THEN Applied(git.tree, s.plan).src ELSE s.copy
    OBVIOUS
  <2>1. PICK passed \in BOOLEAN :
           LET done == [s EXCEPT !.copy = work.src, !.runs = @ + 1,
                          !.tested = @ \cup {work.src}, !.green = @ /\ passed]
               over == done.runs = Repeats
           IN  /\ Set(h, IF over THEN BurnedIn(done) ELSE done)
               /\ earned' = IF over /\ done.green THEN earned \cup {entry} ELSE earned
    BY <1>2 DEF BurnRun
  <2> DEFINE r == ran(src, passed)
  <2>b. /\ Set(h, IF r.runs = Repeats THEN BurnedIn(r) ELSE r)
        /\ earned' = IF r.runs = Repeats /\ r.green THEN earned \cup {entry} ELSE earned
    BY <2>1
  <2> HIDE DEF src, work
  <2>2. /\ DOMAIN r = HealFields /\ r.pc = "burn" /\ r.runs = s.runs + 1 /\ r.copy = src
        /\ r.tested = s.tested \cup {src} /\ r.trial = s.trial /\ r.plan = s.plan
        /\ r.strategy = s.strategy /\ r.pushed = s.pushed
    BY <1>0 DEF Shaped, HealFields
  <2>3. SameSigns(s, r) /\ SameFlags(s, r)
    BY <1>0 DEF Shaped, HealFields, SameSigns, SameFlags
  <2>4. s.runs \in Nat /\ r.runs # 0
    BY <1>0, <2>2, HealerAssumption DEF Shaped
  <2>5. ~s.disturbed => src = s.trial[2] /\ r.tested = {s.trial[2]} /\ s.trial[1] = git.tree
    <3>1. ASSUME ~s.disturbed
          PROVE  /\ s.trial[1] = git.tree /\ (s.runs = 0 => s.tested = {})
                 /\ s.runs # 0 => s.copy = s.trial[2] /\ s.tested = {s.trial[2]}
      BY <1>0, <3>1 DEF HealOK, Tried
    <3> HIDE DEF s, r
    <3>2. ASSUME ~s.disturbed PROVE src = s.trial[2]
      BY <1>0, <2>a, <3>1, <3>2 DEF Turns
    <3> QED
      BY <2>2, <3>1, <3>2
  <2>6. Signed(s)
    BY DEF HealOK
  <2>7. HealsTyped /\ heals' = [heals EXCEPT ![h] = IF r.runs = Repeats THEN BurnedIn(r) ELSE r]
    BY <2>b DEF Set
  <2>8. z = IF r.runs = Repeats THEN BurnedIn(r) ELSE r
    BY <2>7 DEF HealsTyped
  <2> HIDE DEF r
  <2>9. CASE r.runs # Repeats
    <3>1. z = r
      BY <2>8, <2>9
    <3>2. Signed(heals[h])'
      BY <2>2, <2>3, <2>6, <3>1 DEF Signed, SameSigns
    <3>3. Coherent(heals[h])'
      BY <1>0, <2>2, <2>3, <3>1 DEF Coherent, SameFlags, Publishing
    <3>4. Tried(heals[h])'
      BY <1>0, <2>2, <2>3, <2>4, <2>5, <3>1 DEF Tried, SameFlags
    <3>5. Flow(h)'
      BY <1>0, <2>2, <2>3, <3>1 DEF Flow, SameFlags
    <3> QED
      BY <3>2, <3>3, <3>4, <3>5 DEF HealOK
  <2>10. CASE r.runs = Repeats
    <3>1. z = BurnedIn(r) /\ (r.green => entry \in earned')
      BY <2>b, <2>8, <2>10
    <3>2. /\ z.diff = s.trial /\ z.ops = s.plan /\ z.strategy = s.strategy /\ z.pushed = s.pushed
          /\ z.tested = r.tested
          /\ z.pc \in {"bump", "persist", "record"}
      BY <2>2, <3>1 DEF BurnedIn, HealFields
    <3>3. SameSigns(s, z)
      BY <2>2, <2>3, <3>1 DEF BurnedIn, HealFields, SameSigns
    <3>4. (z.failed <=> r.failed) /\ (z.disturbed <=> r.disturbed)
      BY <2>2, <3>1 DEF BurnedIn, HealFields
    <3>5. ~z.failed /\ (z.disturbed <=> s.disturbed)
      BY <1>0, <2>3, <3>4 DEF SameFlags
    <3>6. z.pc = "persist" => r.green /\ r.t.trace
      BY <2>2, <3>1 DEF BurnedIn, HealFields
    <3>7. z.pc = "persist" => entry \in earned' /\ z.t.trace
      BY <2>3, <3>1, <3>3, <3>6 DEF SameSigns
    <3>8. Signed(heals[h])'
      BY <2>6, <3>2, <3>3, <3>7 DEF Signed, SameSigns
    <3>9. Coherent(heals[h])'
      BY <1>0, <3>2 DEF Coherent, Unproven, Publishing
    <3>10. Tried(heals[h])'
      BY <1>0, <2>5, <3>2, <3>5 DEF Tried
    <3>11. Flow(h)'
      BY <1>0, <3>2, <3>5 DEF Flow
    <3> QED
      BY <3>8, <3>9, <3>10, <3>11 DEF HealOK
  <2> QED
    BY <2>9, <2>10
<1> QED
  BY <1>1, <1>2

-----------------------------------------------------------------------------
(* The git flow.                                                           *)

\* Two reports of the same trial.
SameTrial(s, z) ==
  /\ SameSigns(s, z) /\ z.diff = s.diff /\ z.ops = s.ops /\ z.tested = s.tested
  /\ (z.stable <=> s.stable) /\ (z.disturbed <=> s.disturbed)

\* The preflight reads: a clean tree goes on, anything else ends the flow.
LEMMA StatusOK ==
  ASSUME HealsTyped, NEW h \in Heals, HealOK(h), Status(h)
  PROVE  HealOK(h)'
<1> DEFINE s == heals[h]
           z == heals'[h]
<1>0. s.pc = "status" /\ UNCHANGED <<git, earned, patches>> /\ DOMAIN s = HealFields
  BY DEF Status, At, HealsTyped, Shaped
<1>1. CASE Go(h, "done")
  <2>1. Quiet(h)
    BY <1>0, <1>1, GoQuiet DEF Preparing, Unproven, Publishing
  <2> QED
    BY <2>1, QuietOK
<1>2. ASSUME Go(h, "refs"), git.tree = git.index, git.index = Tip(git.head)
      PROVE  HealOK(h)'
  <2>1. z = [s EXCEPT !.pc = "refs"]
    BY <1>2 DEF Go, Set, HealsTyped
  <2>2. /\ z.pc = "refs" /\ SameTrial(s, z) /\ z.pushed = s.pushed
        /\ (z.failed <=> s.failed)
    BY <1>0, <2>1 DEF HealFields, SameTrial, SameSigns
  <2>3. Signed(heals[h])'
    BY <2>2 DEF HealOK, Signed, SameTrial, SameSigns
  <2>4. Coherent(heals[h])'
    BY <1>0, <2>2 DEF HealOK, Coherent, SameTrial, Unproven, Publishing
  <2>5. Tried(heals[h])'
    BY <1>0, <2>2 DEF HealOK, Tried, SameTrial
  <2>6. s.pushed = <<>> /\ ~s.failed
    BY <1>0 DEF HealOK, Flow
  <2>7. (git.tree = git.index /\ git.index = Tip(git.head))'
    BY <1>0, <1>2 DEF Tip
  <2>8. Flow(h)'
    BY <2>2, <2>6, <2>7 DEF Flow
  <2> QED
    BY <2>3, <2>4, <2>5, <2>8 DEF HealOK
<1> QED
  BY <1>1, <1>2 DEF Status

\* The flow notes where it starts, and writes the patch file of its branch.
LEMMA RefsOK ==
  ASSUME HealsTyped, GitTyped, NEW h \in Heals, HealOK(h), Refs(h)
  PROVE  HealOK(h)'
<1> DEFINE s == heals[h]
           z == heals'[h]
<1>0. /\ s.pc = "refs" /\ UNCHANGED <<git, earned>> /\ DOMAIN s = HealFields
      /\ s.pushed = <<>> /\ ~s.failed
  BY DEF HealOK, Flow, Refs, At, HealsTyped, Shaped
<1>1. CASE Go(h, "done")
  <2>1. z = [s EXCEPT !.pc = "done"]
    BY <1>1 DEF Go, Set, HealsTyped
  <2>2. /\ z.pc = "done" /\ SameTrial(s, z) /\ z.pushed = s.pushed
        /\ (z.failed <=> s.failed)
    BY <1>0, <2>1 DEF HealFields, SameTrial, SameSigns
  <2>3. Signed(heals[h])'
    BY <2>2 DEF HealOK, Signed, SameTrial, SameSigns
  <2>4. Coherent(heals[h])'
    BY <1>0, <2>2 DEF HealOK, Coherent, SameTrial, Unproven, Publishing
  <2>5. Tried(heals[h])'
    BY <1>0, <2>2 DEF HealOK, Tried, SameTrial
  <2>6. Flow(h)'
    BY <1>0, <2>2 DEF Flow
  <2> QED
    BY <2>3, <2>4, <2>5, <2>6 DEF HealOK
<1>2. ASSUME z = [s EXCEPT !.original = git.head, !.start = Tip(git.head), !.pc = "checkout"],
             patches' = With(patches, Branch(h), s.ops)
      PROVE  HealOK(h)'
  <2>1. /\ z.pc = "checkout" /\ SameTrial(s, z) /\ z.pushed = s.pushed
        /\ z.original = git.head /\ z.start = Tip(git.head)
        /\ (z.failed <=> s.failed)
    BY <1>0, <1>2 DEF HealFields, SameTrial, SameSigns
  <2>2. Signed(heals[h])'
    BY <2>1 DEF HealOK, Signed, SameTrial, SameSigns
  <2>3. Coherent(heals[h])'
    BY <1>0, <2>1 DEF HealOK, Coherent, SameTrial, Unproven, Publishing
  <2>4. Tried(heals[h])'
    BY <1>0, <2>1 DEF HealOK, Tried, SameTrial
  <2>5. Branch(h)' = Branch(h)
    BY <2>1 DEF Branch, SameTrial, SameSigns
  <2>6. Branch(h) \in DOMAIN patches' /\ patches'[Branch(h)] = s.ops
    BY <1>2 DEF With
  <2>7. git.head \in DOMAIN git.branches /\ (\A b : Tip(b)' = Tip(b))
    BY <1>0 DEF GitTyped, Tip
  <2>8. z.ops = s.ops
    BY <2>1 DEF SameTrial
  <2>9. git' = git
    BY <1>0
  <2> HIDE DEF z, s
  <2>10. Flow(h)'
    BY <1>0, <2>1, <2>5, <2>6, <2>7, <2>8, <2>9 DEF Flow, z
  <2> QED
    BY <2>2, <2>3, <2>4, <2>10 DEF HealOK
<1>3. Go(h, "done") \/ /\ z = [s EXCEPT !.original = git.head, !.start = Tip(git.head), !.pc = "checkout"]
                       /\ patches' = With(patches, Branch(h), s.ops)
  BY DEF Refs
<1> QED
  BY <1>1, <1>2, <1>3

\* A write is the heal's own, and leaves what it reports.
LEMMA WritesKeeps ==
  ASSUME HealsTyped, NEW h \in Heals, NEW pc, NEW change, Writes(h, pc, change)
  PROVE  LET s == heals[h]
             z == heals'[h]
         IN  /\ z.pc = pc /\ SameTrial(s, z) /\ z.pushed = s.pushed
             /\ z.original = s.original /\ z.start = s.start /\ Branch(h)' = Branch(h)
             /\ (z.failed <=> s.failed) /\ (z.cleaned <=> s.cleaned)
<1>1. heals'[h] = [heals[h] EXCEPT !.pc = pc] /\ DOMAIN heals[h] = HealFields
  BY DEF Writes, HealsTyped, Shaped
<1>2. Branch(h)' = Branch(h)
  BY <1>1 DEF Branch, HealFields
<1> QED
  BY <1>1, <1>2 DEF HealFields, SameTrial, SameSigns

\* A step inside the flow that keeps the trial, and what is left to show of it.
LEMMA InFlow ==
  ASSUME NEW h \in Heals, HealOK(h), heals[h].pc \in Publishing, UNCHANGED earned,
         SameTrial(heals[h], heals'[h]),
         heals'[h].pc \in {"apply", "commit", "push", "pr", "undo", "drop", "done"},
         ~heals[h].disturbed /\ heals'[h].pc = "apply" => git'.tree = git.tree
  PROVE  /\ heals[h].stable /\ Turns(heals[h].diff[1], heals[h].ops, heals[h].diff[2])
         /\ ~heals[h].failed /\ (heals[h].pc # "pr" => heals[h].pushed = <<>>)
         /\ heals[h].pc = "checkout" => Signed(heals[h])' /\ Coherent(heals[h])' /\ Tried(heals[h])'
         /\ heals'[h].pc # "apply" => Signed(heals[h])' /\ Coherent(heals[h])' /\ Tried(heals[h])'
<1> DEFINE s == heals[h]
           z == heals'[h]
<1>1. Signed(s) /\ Coherent(s) /\ Tried(s) /\ Flow(h)
  BY DEF HealOK
<1>2. s.stable /\ ~s.failed /\ Turns(s.diff[1], s.ops, s.diff[2]) /\ (s.pc # "pr" => s.pushed = <<>>)
  BY <1>1 DEF Coherent, Flow, Publishing
<1>3. Signed(heals[h])'
  BY <1>1 DEF Signed, SameTrial, SameSigns
<1>4. Coherent(heals[h])'
  BY <1>1, <1>2 DEF Coherent, SameTrial, Unproven, Publishing
<1>5. s.pc = "checkout" \/ z.pc # "apply" => Tried(heals[h])'
  BY <1>1 DEF Tried, SameTrial
<1> QED
  BY <1>2, <1>3, <1>4, <1>5

\* checkout, apply and commit leave the tested source at the tip of the fix branch; push sends it.
LEMMA GitStepOK ==
  ASSUME HealsTyped, GitTyped, NEW h \in Heals, HealOK(h), GitStep(h)
  PROVE  HealOK(h)'
<1> DEFINE s == heals[h]
           z == heals'[h]
<1>0. /\ UNCHANGED <<earned, patches>> /\ DOMAIN s = HealFields
      /\ Signed(s) /\ Coherent(s) /\ Tried(s) /\ Flow(h) /\ s.pc \in Publishing
  BY DEF HealOK, GitStep, HealsTyped, Shaped, Publishing
<1>a. \A b : Tip(b) = Last(git.branches[b]) /\ Tip(b)' = Last(git'.branches[b])
  BY DEF Tip
<1>1. CASE s.pc = "checkout"
  <2>1. Writes(h, "apply", Checkout(h))
    BY <1>1 DEF GitStep, At
  <2>2. /\ z.pc = "apply" /\ SameTrial(s, z) /\ z.pushed = s.pushed
        /\ z.original = s.original /\ z.start = s.start /\ Branch(h)' = Branch(h)
        /\ (z.failed <=> s.failed)
    BY <2>1, WritesKeeps
  <2>3. /\ git'.tree = git.tree /\ git'.index = git.index /\ git'.head = Branch(h)
        /\ git'.branches[Branch(h)] = git.branches[git.head]
        /\ DOMAIN git'.branches = DOMAIN git.branches \cup {Branch(h)}
        /\ \A b \in DOMAIN git.branches : b # Branch(h) => git'.branches[b] = git.branches[b]
    BY <2>1, CheckoutGit DEF Writes
  <2>4. /\ ~s.failed /\ s.pushed = <<>>
        /\ Signed(heals[h])' /\ Coherent(heals[h])' /\ Tried(heals[h])'
    BY <1>0, <1>1, <2>2, <2>3, InFlow
  <2>5. z.ops = s.ops /\ (z.disturbed <=> s.disturbed)
    BY <2>2 DEF SameTrial
  <2>6. ~s.disturbed =>
           /\ Branch(h) \in DOMAIN patches /\ patches[Branch(h)] = s.ops
           /\ s.original \in DOMAIN git.branches
           /\ s.original # Branch(h) => Tip(s.original) = s.start
    BY <1>0, <1>1 DEF Flow
  <2> HIDE DEF s, z
  <2>7. ~s.disturbed =>
           /\ Branch(h)' \in DOMAIN patches' /\ patches'[Branch(h)'] = z.ops
           /\ z.original \in DOMAIN git'.branches
           /\ z.original # Branch(h)' => Last(git'.branches[z.original]) = z.start
    BY <1>0, <1>a, <2>2, <2>3, <2>5, <2>6
  <2> USE DEF s, z
  <2>8. Flow(h)'
    BY <2>2, <2>3, <2>4, <2>5, <2>7 DEF Flow, Tip
  <2> QED
    BY <2>4, <2>8 DEF HealOK
<1>2. CASE s.pc = "apply"
  <2>1. Writes(h, "commit", Applying(h))
    BY <1>2 DEF GitStep, At
  <2>2. /\ z.pc = "commit" /\ SameTrial(s, z) /\ z.pushed = s.pushed
        /\ z.original = s.original /\ z.start = s.start /\ Branch(h)' = Branch(h)
        /\ (z.failed <=> s.failed)
    BY <2>1, WritesKeeps
  <2>3. /\ git'.tree = Applied(git.tree, patches[Branch(h)]).src /\ git'.index = git'.tree
        /\ git'.head = git.head /\ git'.branches = git.branches
    BY <2>1, ApplyingGit DEF Writes
  <2>4. /\ ~s.failed /\ s.pushed = <<>> /\ s.stable
        /\ Turns(s.diff[1], s.ops, s.diff[2])
        /\ Signed(heals[h])' /\ Coherent(heals[h])' /\ Tried(heals[h])'
    BY <1>0, <1>2, <2>2, InFlow
  <2>5. z.ops = s.ops /\ z.diff = s.diff /\ (z.disturbed <=> s.disturbed)
    BY <2>2 DEF SameTrial
  <2>6. ~s.disturbed =>
           /\ patches[Branch(h)] = s.ops /\ git.head = Branch(h)
           /\ s.original \in DOMAIN git.branches
           /\ s.original # Branch(h) => Tip(s.original) = s.start
    BY <1>0, <1>2 DEF Flow
  <2>7. ~s.disturbed => git.tree = s.diff[1]
    BY <1>0, <1>2, <2>4 DEF Tried
  <2> HIDE DEF s, z
  <2>8. ~s.disturbed =>
           /\ git'.index = z.diff[2] /\ git'.head = Branch(h)'
           /\ z.original \in DOMAIN git'.branches
           /\ z.original # Branch(h)' => Last(git'.branches[z.original]) = z.start
    BY <1>0, <1>a, <2>2, <2>3, <2>4, <2>5, <2>6, <2>7 DEF Turns
  <2> USE DEF s, z
  <2>9. Flow(h)'
    BY <2>2, <2>4, <2>5, <2>8 DEF Flow, Tip
  <2> QED
    BY <2>4, <2>9 DEF HealOK
<1>3. CASE s.pc = "commit"
  <2>1. Writes(h, "push", Committing)
    BY <1>3 DEF GitStep, At
  <2>2. /\ z.pc = "push" /\ SameTrial(s, z) /\ z.pushed = s.pushed
        /\ z.original = s.original /\ z.start = s.start /\ Branch(h)' = Branch(h)
        /\ (z.failed <=> s.failed)
    BY <2>1, WritesKeeps
  <2>3. /\ git'.head = git.head
        /\ DOMAIN git'.branches = DOMAIN git.branches
        /\ Last(git'.branches[git.head]) = git.index
        /\ \A b \in DOMAIN git.branches : b # git.head => git'.branches[b] = git.branches[b]
    BY <2>1, CommittingGit DEF Writes
  <2>4. /\ ~s.failed /\ s.pushed = <<>>
        /\ Signed(heals[h])' /\ Coherent(heals[h])' /\ Tried(heals[h])'
    BY <1>0, <1>3, <2>2, InFlow
  <2>5. z.diff = s.diff /\ (z.disturbed <=> s.disturbed)
    BY <2>2 DEF SameTrial
  <2>6. ~s.disturbed =>
           /\ git.head = Branch(h) /\ git.index = s.diff[2]
           /\ s.original \in DOMAIN git.branches
           /\ s.original # Branch(h) => Tip(s.original) = s.start
    BY <1>0, <1>3 DEF Flow
  <2> HIDE DEF s, z
  <2>7. ~s.disturbed =>
           /\ Last(git'.branches[Branch(h)']) = z.diff[2] /\ git'.head = Branch(h)'
           /\ z.original \in DOMAIN git'.branches
           /\ z.original # Branch(h)' => Last(git'.branches[z.original]) = z.start
    BY <1>a, <2>2, <2>3, <2>5, <2>6
  <2> USE DEF s, z
  <2>8. Flow(h)'
    BY <2>2, <2>4, <2>5, <2>7 DEF Flow, Tip
  <2> QED
    BY <2>4, <2>8 DEF HealOK
<1>4. CASE s.pc = "push"
  <2>1. git' = Pushing(h) /\ Set(h, [s EXCEPT !.pushed = Tip(Branch(h)), !.pc = "pr"])
    BY <1>4 DEF GitStep, At
  <2>2. z = [s EXCEPT !.pushed = Tip(Branch(h)), !.pc = "pr"]
    BY <2>1 DEF Set, HealsTyped
  <2>3. /\ z.pc = "pr" /\ SameTrial(s, z) /\ z.pushed = Tip(Branch(h))
        /\ z.original = s.original /\ z.start = s.start
        /\ (z.failed <=> s.failed)
    BY <1>0, <2>2 DEF HealFields, SameTrial, SameSigns
  <2>4. Branch(h)' = Branch(h)
    BY <2>3 DEF Branch, SameTrial, SameSigns
  <2>5. git'.branches = git.branches
    BY <2>1, PushingGit
  <2>6. /\ ~s.failed /\ s.stable
        /\ Signed(heals[h])' /\ Coherent(heals[h])' /\ Tried(heals[h])'
    BY <1>0, <1>4, <2>3, InFlow
  <2>7. z.diff = s.diff /\ (z.stable <=> s.stable) /\ (z.disturbed <=> s.disturbed)
    BY <2>3 DEF SameTrial
  <2>8. ~s.disturbed =>
           /\ Tip(Branch(h)) = s.diff[2]
           /\ s.original \in DOMAIN git.branches
           /\ s.original # Branch(h) => Tip(s.original) = s.start
    BY <1>0, <1>4 DEF Flow
  <2> HIDE DEF s, z
  <2>9. ~s.disturbed =>
           /\ z.pushed = z.diff[2]
           /\ z.original \in DOMAIN git'.branches
           /\ z.original # Branch(h)' => Last(git'.branches[z.original]) = z.start
    BY <1>a, <2>3, <2>4, <2>5, <2>7, <2>8
  <2> USE DEF s, z
  <2>10. Flow(h)'
    BY <2>3, <2>6, <2>7, <2>9 DEF Flow, Tip
  <2> QED
    BY <2>6, <2>10 DEF HealOK
<1>5. CASE s.pc = "pr"
  <2>1. z = [s EXCEPT !.pc = "done"]
    BY <1>5 DEF GitStep, At, Go, Set, HealsTyped
  <2>2. /\ z.pc = "done" /\ SameTrial(s, z) /\ z.pushed = s.pushed
        /\ (z.failed <=> s.failed)
    BY <1>0, <2>1 DEF HealFields, SameTrial, SameSigns
  <2>3. ~s.failed /\ Signed(heals[h])' /\ Coherent(heals[h])' /\ Tried(heals[h])'
    BY <1>0, <1>5, <2>2, InFlow
  <2>4. Flow(h)'
    BY <1>0, <1>5, <2>2, <2>3 DEF Flow, SameTrial
  <2> QED
    BY <2>3, <2>4 DEF HealOK
<1> QED
  BY <1>1, <1>2, <1>3, <1>4, <1>5 DEF GitStep

\* A dispatch that fails starts the cleanup, with nothing written since the flow began but its own.
LEMMA GitFailsOK ==
  ASSUME HealsTyped, NEW h \in Heals, HealOK(h), GitFails(h)
  PROVE  HealOK(h)'
<1> DEFINE s == heals[h]
           z == heals'[h]
<1>0. /\ UNCHANGED <<git, earned, patches>> /\ DOMAIN s = HealFields /\ Flow(h)
      /\ s.pc \in {"checkout", "apply", "commit", "push", "pr"}
  BY DEF HealOK, GitFails, HealsTyped, Shaped
<1>1. z = [s EXCEPT !.failed = TRUE, !.pc = "undo"]
  BY DEF GitFails, Set, HealsTyped
<1>2. /\ z.pc = "undo" /\ SameTrial(s, z) /\ z.pushed = s.pushed
      /\ z.original = s.original /\ z.start = s.start
  BY <1>0, <1>1 DEF HealFields, SameTrial, SameSigns
<1>3. Branch(h)' = Branch(h)
  BY <1>2 DEF Branch, SameTrial, SameSigns
<1>4. s.stable /\ Signed(heals[h])' /\ Coherent(heals[h])' /\ Tried(heals[h])'
  BY <1>0, <1>2, InFlow DEF Publishing
<1>5. ~s.disturbed =>
         /\ s.pushed # <<>> => s.pushed = s.diff[2]
         /\ s.original \in DOMAIN git.branches
         /\ s.original # Branch(h) => Tip(s.original) = s.start
  BY <1>0 DEF Flow
<1>6. z.diff = s.diff /\ (z.stable <=> s.stable) /\ (z.disturbed <=> s.disturbed)
  BY <1>2 DEF SameTrial
<1> HIDE DEF s, z
<1>7. ~s.disturbed =>
         /\ z.pushed # <<>> => z.pushed = z.diff[2]
         /\ z.original \in DOMAIN git'.branches
         /\ z.original # Branch(h)' => Last(git'.branches[z.original]) = z.start
  BY <1>0, <1>2, <1>3, <1>5, <1>6 DEF Tip
<1> USE DEF s, z
<1>8. Flow(h)'
  BY <1>2, <1>4, <1>6, <1>7 DEF Flow, Tip
<1> QED
  BY <1>4, <1>8 DEF HealOK

\* The cleanup keeps what the report says of the trial.
LEMMA InCleanup ==
  ASSUME NEW h \in Heals, HealOK(h), heals[h].pc \in {"undo", "drop"}, UNCHANGED earned,
         SameTrial(heals[h], heals'[h]), heals'[h].pc \in {"drop", "done"}
  PROVE  Signed(heals[h])' /\ Coherent(heals[h])' /\ Tried(heals[h])'
<1> DEFINE s == heals[h]
           z == heals'[h]
<1>1. Signed(s) /\ Coherent(s) /\ Tried(s)
  BY DEF HealOK
<1>2. Signed(heals[h])'
  BY <1>1 DEF Signed, SameTrial, SameSigns
<1>3. Coherent(heals[h])'
  BY <1>1 DEF Coherent, SameTrial, Unproven, Publishing
<1>4. Tried(heals[h])'
  BY <1>1 DEF Tried, SameTrial
<1> QED
  BY <1>2, <1>3, <1>4

\* What a report carries through the cleanup.
Carried(s, z) ==
  /\ SameTrial(s, z) /\ z.pushed = s.pushed /\ z.original = s.original /\ z.start = s.start

\* The original branch is forced back into the tree, or the report says it was not.
LEMMA UndoOK ==
  ASSUME HealsTyped, GitTyped, NEW h \in Heals, HealOK(h), Undo(h)
  PROVE  HealOK(h)'
<1> DEFINE s == heals[h]
           z == heals'[h]
<1>0. /\ UNCHANGED <<earned, patches>> /\ DOMAIN s = HealFields /\ Flow(h) /\ s.pc = "undo"
  BY DEF HealOK, Undo, At, HealsTyped, Shaped
<1>1. CASE /\ s.original \in DOMAIN git.branches
           /\ Writes(h, "drop", [git EXCEPT !.head = s.original, !.tree = Tip(s.original),
                                            !.index = Tip(s.original)])
  <2>1. /\ git'.head = s.original /\ git'.tree = Tip(s.original) /\ git'.index = Tip(s.original)
        /\ git'.branches = git.branches
    BY <1>1, UndoneGit DEF Writes
  <2>2. z.pc = "drop" /\ Carried(s, z) /\ Branch(h)' = Branch(h)
    BY <1>1, WritesKeeps DEF Carried
  <2>3. Signed(heals[h])' /\ Coherent(heals[h])' /\ Tried(heals[h])'
    BY <1>0, <2>2, InCleanup DEF Carried
  <2>4. ~s.disturbed =>
           /\ s.pushed # <<>> => s.stable /\ s.pushed = s.diff[2]
           /\ s.original \in DOMAIN git.branches
           /\ s.original # Branch(h) => Tip(s.original) = s.start
    BY <1>0 DEF Flow
  <2>5. /\ z.diff = s.diff /\ (z.stable <=> s.stable) /\ (z.disturbed <=> s.disturbed)
        /\ z.pushed = s.pushed /\ z.original = s.original /\ z.start = s.start
    BY <2>2 DEF Carried, SameTrial
  <2> HIDE DEF s, z
  <2>6. ~s.disturbed =>
           /\ z.pushed # <<>> => z.pushed = z.diff[2]
           /\ z.original \in DOMAIN git'.branches
           /\ z.original # Branch(h)' => /\ Last(git'.branches[z.original]) = z.start
                                         /\ git'.head = z.original /\ git'.tree = z.start
                                         /\ git'.index = z.start
    BY <2>1, <2>2, <2>4, <2>5 DEF Tip
  <2>7. ~s.disturbed /\ z.pushed # <<>> => z.stable
    BY <2>4, <2>5
  <2> USE DEF s, z
  <2>8. Flow(h)'
    BY <2>2, <2>5, <2>6, <2>7 DEF Flow, Tip
  <2> QED
    BY <2>3, <2>8 DEF HealOK
<1>2. CASE Set(h, [s EXCEPT !.cleaned = FALSE, !.pc = "drop"]) /\ UNCHANGED git
  <2>1. z = [s EXCEPT !.cleaned = FALSE, !.pc = "drop"]
    BY <1>2 DEF Set, HealsTyped
  <2>2. z.pc = "drop" /\ Carried(s, z) /\ ~z.cleaned
    BY <1>0, <2>1 DEF HealFields, Carried, SameTrial, SameSigns
  <2>3. Branch(h)' = Branch(h)
    BY <2>2 DEF Branch, Carried, SameTrial, SameSigns
  <2>4. Signed(heals[h])' /\ Coherent(heals[h])' /\ Tried(heals[h])'
    BY <1>0, <2>2, InCleanup DEF Carried
  <2>5. ~s.disturbed =>
           /\ s.pushed # <<>> => s.stable /\ s.pushed = s.diff[2]
           /\ s.original \in DOMAIN git.branches
           /\ s.original # Branch(h) => Tip(s.original) = s.start
    BY <1>0 DEF Flow
  <2>6. /\ z.diff = s.diff /\ (z.stable <=> s.stable) /\ (z.disturbed <=> s.disturbed)
        /\ z.pushed = s.pushed /\ z.original = s.original /\ z.start = s.start
    BY <2>2 DEF Carried, SameTrial
  <2> HIDE DEF s, z
  <2>7. ~s.disturbed =>
           /\ z.pushed # <<>> => z.pushed = z.diff[2]
           /\ z.original \in DOMAIN git'.branches
           /\ z.original # Branch(h)' => Last(git'.branches[z.original]) = z.start
    BY <1>2, <2>3, <2>5, <2>6 DEF Tip
  <2>8. ~s.disturbed /\ z.pushed # <<>> => z.stable
    BY <2>5, <2>6
  <2> USE DEF s, z
  <2>9. Flow(h)'
    BY <2>2, <2>6, <2>7, <2>8 DEF Flow, Tip
  <2> QED
    BY <2>4, <2>9 DEF HealOK
<1> QED
  BY <1>1, <1>2 DEF Undo

\* The fix branch goes last; where it is gone and the original is back, nothing is left of the flow.
LEMMA DropOK ==
  ASSUME HealsTyped, GitTyped, NEW h \in Heals, HealOK(h), Drop(h)
  PROVE  HealOK(h)'
<1> DEFINE s == heals[h]
           z == heals'[h]
           may == Branch(h) # git.head /\ Branch(h) \in DOMAIN git.branches
<1>0. /\ UNCHANGED <<earned, patches>> /\ DOMAIN s = HealFields /\ Flow(h) /\ s.pc = "drop"
  BY DEF HealOK, Drop, At, HealsTyped, Shaped
<1>1. /\ ~s.disturbed => /\ s.pushed # <<>> => s.stable /\ s.pushed = s.diff[2]
                         /\ s.original # Branch(h) => Tip(s.original) = s.start
      /\ ~s.disturbed => /\ s.original \in DOMAIN git.branches
                         /\ s.cleaned /\ s.original # Branch(h) =>
                              git.head = s.original /\ git.tree = s.start /\ git.index = s.start
  BY <1>0 DEF Flow
<1>2. ASSUME z.pc = "done", Carried(s, z), Branch(h)' = Branch(h), z.cleaned => s.cleaned,
             z.cleaned /\ ~s.disturbed /\ s.original # Branch(h) =>
               /\ git'.head = s.original /\ Last(git'.branches[s.original]) = s.start
               /\ git'.tree = s.start /\ git'.index = s.start
               /\ Branch(h) \notin DOMAIN git'.branches
      PROVE  HealOK(h)'
  <2>1. Signed(heals[h])' /\ Coherent(heals[h])' /\ Tried(heals[h])'
    BY <1>0, <1>2, InCleanup DEF Carried
  <2>2. /\ z.diff = s.diff /\ (z.stable <=> s.stable) /\ (z.disturbed <=> s.disturbed)
        /\ z.pushed = s.pushed /\ z.original = s.original /\ z.start = s.start
    BY <1>2 DEF Carried, SameTrial
  <2> HIDE DEF s, z
  <2>3. ~s.disturbed => (z.pushed # <<>> => z.pushed = z.diff[2])
    BY <1>1, <2>2
  <2>4. ~s.disturbed /\ z.pushed # <<>> => z.stable
    BY <1>1, <2>2
  <2>5. z.cleaned /\ ~s.disturbed /\ z.original # Branch(h)' =>
           /\ git'.head = z.original /\ Last(git'.branches[git'.head]) = z.start
           /\ git'.tree = z.start /\ git'.index = z.start
           /\ Branch(h)' \notin DOMAIN git'.branches
    BY <1>2, <2>2
  <2> USE DEF s, z
  <2>6. Flow(h)'
    BY <1>2, <2>2, <2>3, <2>4, <2>5 DEF Flow, PutBack, Tip
  <2> QED
    BY <2>1, <2>6 DEF HealOK
<1>3. CASE may /\ Writes(h, "done", [git EXCEPT !.branches = Restrict(@, DOMAIN @ \ {Branch(h)})])
  <2>1. /\ git'.tree = git.tree /\ git'.index = git.index /\ git'.head = git.head
        /\ DOMAIN git'.branches = DOMAIN git.branches \ {Branch(h)}
        /\ \A b \in DOMAIN git'.branches : git'.branches[b] = git.branches[b]
    BY <1>3, DroppedGit DEF Writes
  <2>2. z.pc = "done" /\ Carried(s, z) /\ Branch(h)' = Branch(h) /\ (z.cleaned => s.cleaned)
    BY <1>3, WritesKeeps DEF Carried
  <2> HIDE DEF s, z
  <2>3. z.cleaned /\ ~s.disturbed /\ s.original # Branch(h) =>
           /\ git'.head = s.original /\ Last(git'.branches[s.original]) = s.start
           /\ git'.tree = s.start /\ git'.index = s.start
           /\ Branch(h) \notin DOMAIN git'.branches
    BY <1>1, <2>1, <2>2 DEF Tip
  <2> USE DEF s, z
  <2> QED
    BY <1>2, <2>2, <2>3
<1>4. CASE ~may /\ Go(h, "done") /\ UNCHANGED git
  <2>1. z = [s EXCEPT !.pc = "done"]
    BY <1>4 DEF Go, Set, HealsTyped
  <2>2. z.pc = "done" /\ Carried(s, z) /\ (z.cleaned => s.cleaned)
    BY <1>0, <2>1 DEF HealFields, Carried, SameTrial, SameSigns
  <2>3. Branch(h)' = Branch(h)
    BY <2>2 DEF Branch, Carried, SameTrial, SameSigns
  <2> HIDE DEF s, z
  <2>4. z.cleaned /\ ~s.disturbed /\ s.original # Branch(h) =>
           /\ git'.head = s.original /\ Last(git'.branches[s.original]) = s.start
           /\ git'.tree = s.start /\ git'.index = s.start
           /\ Branch(h) \notin DOMAIN git'.branches
    BY <1>1, <1>4, <2>2 DEF Tip
  <2> USE DEF s, z
  <2> QED
    BY <1>2, <2>2, <2>3, <2>4
<1>5. CASE Set(h, [s EXCEPT !.cleaned = FALSE, !.pc = "done"])
  <2>1. z = [s EXCEPT !.cleaned = FALSE, !.pc = "done"]
    BY <1>5 DEF Set, HealsTyped
  <2>2. z.pc = "done" /\ Carried(s, z) /\ ~z.cleaned
    BY <1>0, <2>1 DEF HealFields, Carried, SameTrial, SameSigns
  <2>3. Branch(h)' = Branch(h)
    BY <2>2 DEF Branch, Carried, SameTrial, SameSigns
  <2> QED
    BY <1>2, <2>2, <2>3
<1> QED
  BY <1>3, <1>4, <1>5 DEF Drop

-----------------------------------------------------------------------------
(* What the others and the user do.                                        *)

\* A step beside a heal: it reports what it did, and unless it is told that it was
\* disturbed, its repository and its patch file are as they were.
Aside(h) ==
  LET s == heals[h]
      z == heals'[h]
  IN  /\ SameTrial(s, [z EXCEPT !.disturbed = s.disturbed]) /\ z.pc = s.pc
      /\ z.strategy = s.strategy /\ z.trial = s.trial /\ z.plan = s.plan /\ z.copy = s.copy
      /\ z.runs = s.runs /\ z.pushed = s.pushed /\ z.original = s.original /\ z.start = s.start
      /\ (z.failed <=> s.failed) /\ (z.cleaned <=> s.cleaned)
      /\ earned \subseteq earned'
      /\ ~z.disturbed =>
           /\ ~s.disturbed
           /\ git'.tree = git.tree /\ git'.index = git.index /\ git'.head = git.head
           /\ git'.branches = git.branches
           /\ Branch(h) \in DOMAIN patches =>
                Branch(h) \in DOMAIN patches' /\ patches'[Branch(h)] = patches[Branch(h)]

\* Such a step keeps what the heal claims.
LEMMA AsideOK ==
  ASSUME HealsTyped, HealsTyped', NEW h \in Heals, HealOK(h), Aside(h)
  PROVE  HealOK(h)'
<1> DEFINE s == heals[h]
           z == heals'[h]
<1>0. Signed(s) /\ Coherent(s) /\ Tried(s) /\ Flow(h) /\ DOMAIN z = HealFields
  BY DEF HealOK, HealsTyped, Shaped
<1>1. /\ z.pc = s.pc /\ z.t = s.t /\ z.signature = s.signature
      /\ z.diff = s.diff /\ z.ops = s.ops /\ z.tested = s.tested
      /\ z.strategy = s.strategy /\ z.trial = s.trial /\ z.plan = s.plan /\ z.copy = s.copy
      /\ z.runs = s.runs /\ z.pushed = s.pushed /\ z.original = s.original /\ z.start = s.start
  BY <1>0 DEF Aside, SameTrial, SameSigns, HealFields
<1>2. (z.stable <=> s.stable) /\ (z.failed <=> s.failed) /\ (z.cleaned <=> s.cleaned)
  BY <1>0 DEF Aside, SameTrial, HealFields
<1>3. earned \subseteq earned'
  BY DEF Aside
<1>4. ~z.disturbed =>
        /\ ~s.disturbed
        /\ git'.tree = git.tree /\ git'.index = git.index /\ git'.head = git.head
        /\ git'.branches = git.branches
        /\ Branch(h) \in DOMAIN patches =>
             Branch(h) \in DOMAIN patches' /\ patches'[Branch(h)] = patches[Branch(h)]
  BY DEF Aside
<1>5. Branch(h)' = Branch(h)
  BY <1>1 DEF Branch
<1>6. Signed(heals[h])'
  BY <1>0, <1>1, <1>3 DEF Signed
<1>7. Coherent(heals[h])'
  BY <1>0, <1>1, <1>2 DEF Coherent
<1>8. Tried(heals[h])'
  BY <1>0, <1>1, <1>2, <1>4 DEF Tried
<1>9. Flow(h)'
  <2>1. /\ s.pc \notin {"pr", "undo", "drop", "done"} => s.pushed = <<>>
        /\ s.pc \notin {"undo", "drop", "done"} => ~s.failed
    BY <1>0 DEF Flow
  <2>2. CASE z.disturbed
    BY <1>1, <1>2, <2>1, <2>2 DEF Flow
  <2>3. CASE ~z.disturbed
    <3>1. ~s.disturbed
      BY <1>4, <2>3
    <3>2. /\ s.pushed # <<>> => s.stable /\ s.pushed = s.diff[2]
          /\ s.pc = "refs" => git.tree = git.index /\ git.index = Tip(git.head)
          /\ s.pc \in {"checkout", "apply"} =>
               Branch(h) \in DOMAIN patches /\ patches[Branch(h)] = s.ops
          /\ s.pc = "checkout" => git.head = s.original
          /\ s.pc \in {"checkout", "apply", "commit", "push", "pr", "undo", "drop"} =>
               /\ s.original \in DOMAIN git.branches
               /\ s.original # Branch(h) => Tip(s.original) = s.start
      BY <1>0, <3>1 DEF Flow
    <3>3. /\ s.pc \in {"apply", "commit", "push"} => git.head = Branch(h)
          /\ s.pc = "commit" => git.index = s.diff[2]
          /\ s.pc = "push" => Tip(Branch(h)) = s.diff[2]
          /\ s.pc = "drop" /\ s.cleaned /\ s.original # Branch(h) =>
               git.head = s.original /\ git.tree = s.start /\ git.index = s.start
          /\ s.pc = "done" /\ s.failed /\ s.cleaned /\ s.original # Branch(h) => PutBack(h)
      BY <1>0, <3>1 DEF Flow
    <3>4. PutBack(h)' <=> PutBack(h)
      BY <1>1, <1>4, <1>5, <2>3 DEF PutBack, Tip
    <3> HIDE DEF s, z
    <3>5. /\ z.pushed # <<>> => z.stable /\ z.pushed = z.diff[2]
          /\ z.pc = "refs" => git'.tree = git'.index /\ git'.index = Last(git'.branches[git'.head])
          /\ z.pc \in {"checkout", "apply"} =>
               Branch(h)' \in DOMAIN patches' /\ patches'[Branch(h)'] = z.ops
          /\ z.pc = "checkout" => git'.head = z.original
          /\ z.pc \in {"checkout", "apply", "commit", "push", "pr", "undo", "drop"} =>
               /\ z.original \in DOMAIN git'.branches
               /\ z.original # Branch(h)' => Last(git'.branches[z.original]) = z.start
      BY <1>1, <1>2, <1>4, <1>5, <2>3, <3>2 DEF Tip
    <3>6. /\ z.pc \in {"apply", "commit", "push"} => git'.head = Branch(h)'
          /\ z.pc = "commit" => git'.index = z.diff[2]
          /\ z.pc = "push" => Last(git'.branches[Branch(h)']) = z.diff[2]
          /\ z.pc = "drop" /\ z.cleaned /\ z.original # Branch(h)' =>
               git'.head = z.original /\ git'.tree = z.start /\ git'.index = z.start
          /\ z.pc = "done" /\ z.failed /\ z.cleaned /\ z.original # Branch(h)' => PutBack(h)'
      BY <1>1, <1>2, <1>4, <1>5, <2>3, <3>3, <3>4 DEF Tip
    <3>7. z.pc \notin {"pr", "undo", "drop", "done"} => z.pushed = <<>>
      BY <1>1, <2>1
    <3>8. z.pc \notin {"undo", "drop", "done"} => ~z.failed
      BY <1>1, <1>2, <2>1
    <3> USE DEF s, z
    <3> QED
      BY <3>5, <3>6, <3>7, <3>8 DEF Flow, Tip
  <2> QED
    BY <2>2, <2>3
<1> QED
  BY <1>6, <1>7, <1>8, <1>9 DEF HealOK

\* A step that leaves a heal and its repository alone is one beside it.
LEMMA AsideSame ==
  ASSUME HealsTyped, NEW h \in Heals, heals'[h] = heals[h], patches' = patches,
         git'.tree = git.tree, git'.index = git.index, git'.head = git.head,
         git'.branches = git.branches, earned \subseteq earned'
  PROVE  Aside(h)
BY DEF Aside, SameTrial, SameSigns, HealsTyped, Shaped, HealFields

\* So is one that tells it that it was disturbed.
LEMMA AsideDisturbed ==
  ASSUME HealsTyped, NEW h \in Heals, heals'[h] = [heals[h] EXCEPT !.disturbed = TRUE],
         UNCHANGED earned
  PROVE  Aside(h)
BY DEF Aside, SameTrial, SameSigns, HealsTyped, Shaped, HealFields

\* A step of one heal.
HealStep(h) ==
  \/ Begin(h) \/ Match(h) \/ Stale(h) \/ PlanFix(h) \/ Reproduce(h) \/ ComputeDiff(h)
  \/ BurnRun(h) \/ Bump(h) \/ Fallback(h) \/ Persist(h) \/ Record(h)
  \/ Status(h) \/ Refs(h) \/ GitStep(h) \/ GitFails(h) \/ Undo(h) \/ Drop(h)

\* Every step of one heal is beside the others.
LEMMA OthersAside ==
  ASSUME HealsTyped, GitTyped, NEW h \in Heals, NEW o \in Heals, o # h, HealStep(h)
  PROVE  Aside(o)
<1>a. /\ \A r : Set(h, r) /\ UNCHANGED <<git, patches, earned>> => Aside(o)
      /\ \A pc : Go(h, pc) /\ UNCHANGED <<git, patches, earned>> => Aside(o)
      /\ Fail(h) /\ UNCHANGED <<git, patches, earned>> => Aside(o)
  BY AsideSame DEF Set, Go, Fail, HealsTyped
<1>b. \A r : heals' = [heals EXCEPT ![h] = r] /\ UNCHANGED <<git, patches>> /\ earned \subseteq earned'
             => Aside(o)
  BY AsideSame DEF HealsTyped
<1>c. \A pc, change : Writes(h, pc, change) /\ UNCHANGED earned => Aside(o)
  BY AsideDisturbed DEF Writes
<1>1. CASE Begin(h)
  <2>1. /\ UNCHANGED <<git, patches>> /\ earned \subseteq earned'
        /\ \E r : heals' = [heals EXCEPT ![h] = r]
    BY <1>1 DEF Begin, Set, Go, Fail
  <2> QED
    BY <2>1, <1>b
<1>2. CASE Match(h)
  <2>1. /\ UNCHANGED <<git, patches>> /\ earned \subseteq earned'
        /\ \E r : heals' = [heals EXCEPT ![h] = r]
    BY <1>2 DEF Match, Set, Go, Fail
  <2> QED
    BY <2>1, <1>b
<1>3. CASE Stale(h)
  BY <1>3, <1>a DEF Stale
<1>4. CASE PlanFix(h)
  <2>1. /\ UNCHANGED <<git, patches>> /\ earned \subseteq earned'
        /\ \E r : heals' = [heals EXCEPT ![h] = r]
    BY <1>4 DEF PlanFix, Set, Go, Fail
  <2> QED
    BY <2>1, <1>b
<1>5. CASE Reproduce(h)
  BY <1>5, <1>a DEF Reproduce
<1>6. CASE ComputeDiff(h)
  BY <1>6, <1>a DEF ComputeDiff
<1>7. CASE BurnRun(h)
  <2>1. /\ UNCHANGED <<git, patches>> /\ earned \subseteq earned'
        /\ \E r : heals' = [heals EXCEPT ![h] = r]
    BY <1>7 DEF BurnRun, Set, Go, Fail
  <2> QED
    BY <2>1, <1>b
<1>8. CASE Bump(h)
  BY <1>8, <1>a DEF Bump
<1>9. CASE Fallback(h)
  <2>1. /\ UNCHANGED <<git, patches>> /\ earned \subseteq earned'
        /\ \E r : heals' = [heals EXCEPT ![h] = r]
    BY <1>9 DEF Fallback, Set, Go, Fail
  <2> QED
    BY <2>1, <1>b
<1>10. CASE Persist(h)
  BY <1>10, <1>a DEF Persist
<1>11. CASE Record(h)
  BY <1>11, <1>a DEF Record
<1>12. CASE Status(h)
  BY <1>12, <1>a DEF Status
<1>13. CASE Refs(h)
  <2>1. UNCHANGED <<git, earned>>
    BY <1>13 DEF Refs
  <2>2. CASE Go(h, "done") /\ UNCHANGED patches
    BY <2>1, <2>2, <1>a
  <2>3. CASE /\ heals'[o] = [heals[o] EXCEPT !.disturbed = @ \/ Branch(o) = Branch(h)]
             /\ patches' = With(patches, Branch(h), heals[h].ops)
    <3>1. CASE Branch(o) = Branch(h)
      <4>1. heals'[o] = [heals[o] EXCEPT !.disturbed = TRUE]
        BY <2>3, <3>1
      <4> QED
        BY <2>1, <4>1, AsideDisturbed
    <3>2. CASE Branch(o) # Branch(h)
      <4>1. heals'[o] = [heals[o] EXCEPT !.disturbed = @ \/ FALSE] /\ DOMAIN heals[o] = HealFields
        BY <2>3, <3>2 DEF HealsTyped, Shaped
      <4>2. ~heals'[o].disturbed => ~heals[o].disturbed
        BY <4>1 DEF HealFields
      <4>3. Branch(o) \in DOMAIN patches =>
               Branch(o) \in DOMAIN patches' /\ patches'[Branch(o)] = patches[Branch(o)]
        BY <2>3, <3>2 DEF With
      <4> QED
        BY <2>1, <4>1, <4>2, <4>3 DEF Aside, SameTrial, SameSigns, HealFields
    <3> QED
      BY <3>1, <3>2
  <2> QED
    BY <1>13, <2>2, <2>3 DEF Refs
<1>14. CASE GitStep(h)
  <2>1. patches' = patches /\ UNCHANGED earned
    BY <1>14 DEF GitStep
  <2>2. CASE git' = Pushing(h) /\ \E r : Set(h, r)
    BY <2>1, <2>2, PushingGit, AsideSame DEF Set, HealsTyped
  <2>3. CASE Go(h, "done") /\ UNCHANGED git
    BY <2>1, <2>3, <1>a
  <2>4. CASE \E pc, change : Writes(h, pc, change)
    BY <2>1, <2>4, <1>c
  <2> QED
    BY <1>14, <2>2, <2>3, <2>4 DEF GitStep, At
<1>15. CASE GitFails(h)
  BY <1>15, <1>a DEF GitFails
<1>16. CASE Undo(h)
  BY <1>16, <1>a, <1>c DEF Undo
<1>17. CASE Drop(h)
  BY <1>17, <1>a, <1>c DEF Drop
<1> QED
  BY <1>1, <1>2, <1>3, <1>4, <1>5, <1>6, <1>7, <1>8, <1>9, <1>10, <1>11, <1>12, <1>13,
     <1>14, <1>15, <1>16, <1>17
  DEF HealStep

-----------------------------------------------------------------------------
(* The invariant and the theorems.                                         *)

\* What a heal claims survives its own steps, the other heals and the user.
LEMMA HealsOKInductive ==
  ASSUME HealsTyped, GitTyped, HealsOK, [HealerNext]_vars
  PROVE  HealsOK'
<1>0. HealsTyped'
  BY HealsTypedInductive
<1> SUFFICES ASSUME NEW o \in Heals PROVE HealOK(o)'
  BY DEF HealsOK
<1>1. HealOK(o)
  BY DEF HealsOK
<1>2. ASSUME NEW h \in Heals, HealStep(h) PROVE HealOK(o)'
  <2>1. CASE o = h
    BY <1>1, <1>2, <2>1, BeginOK, QuietSteps, DiffOK, BurnOK, StatusOK, RefsOK, GitStepOK,
       GitFailsOK, UndoOK, DropOK DEF HealStep
  <2>2. CASE o # h
    BY <1>0, <1>1, <1>2, <2>2, OthersAside, AsideOK
  <2> QED
    BY <2>1, <2>2
<1>3. ASSUME UserStep PROVE HealOK(o)'
  <2>1. heals'[o] = [heals[o] EXCEPT !.disturbed = TRUE] /\ UNCHANGED earned
    BY <1>3 DEF UserStep
  <2> QED
    BY <1>0, <1>1, <2>1, AsideDisturbed, AsideOK
<1>4. ASSUME UNCHANGED vars PROVE HealOK(o)'
  BY <1>0, <1>1, <1>4, AsideSame, AsideOK DEF vars
<1> QED
  BY <1>2, <1>3, <1>4 DEF HealerNext, HealStep, Over

\* Counting an outcome changes no procedure.
LEMMA CountedEarned ==
  ASSUME RecipesTyped, RecipesEarned, NEW g, NEW success, recipes' = Counted(g, success), UNCHANGED earned
  PROVE  RecipesEarned'
<1>1. DOMAIN recipes' = DOMAIN recipes
  BY DEF Counted
<1>2. ASSUME NEW x \in DOMAIN recipes
      PROVE  recipes'[x].strategy = recipes[x].strategy /\ recipes'[x].ops = recipes[x].ops
  <2>1. DOMAIN recipes[x] = {"strategy", "ops", "diagnosis", "hits", "successes", "failures"}
    BY DEF RecipesTyped, RecipeTyped
  <2> QED
    BY <2>1 DEF Counted
<1> QED
  BY <1>1, <1>2 DEF RecipesEarned

\* A recipe that is stored is the one that has just gone green, under its own signature.
LEMMA RecipesEarnedInductive ==
  ASSUME RecipesTyped, HealsOK, RecipesEarned, [HealerNext]_vars
  PROVE  RecipesEarned'
<1>0. recipes' = recipes /\ earned \subseteq earned' => RecipesEarned'
  BY DEF RecipesEarned
<1> USE <1>0
<1>1. ASSUME NEW h \in Heals, Stale(h) PROVE RecipesEarned'
  BY <1>1, CountedEarned DEF Stale
<1>2. ASSUME NEW h \in Heals, Bump(h) PROVE RecipesEarned'
  BY <1>2, CountedEarned DEF Bump
<1>3. ASSUME NEW h \in Heals, Persist(h) PROVE RecipesEarned'
  <2> DEFINE s == heals[h]
  <2>1. /\ UNCHANGED earned
        /\ recipes' = IF IsDegenerate(PartsOfTrace(s.t)) THEN recipes
                      ELSE Upserted(s.signature, s.strategy, s.ops, s.diagnosis)
    BY <1>3 DEF Persist
  <2>2. /\ s.signature = PartsOfTrace(s.t)
        /\ [signature |-> s.signature, strategy |-> s.strategy, ops |-> s.ops] \in earned
    BY <1>3 DEF HealsOK, HealOK, Signed, Persist, At
  <2>3. CASE recipes' = Upserted(s.signature, s.strategy, s.ops, s.diagnosis)
             /\ ~IsDegenerate(s.signature)
    <3>1. /\ DOMAIN recipes' = DOMAIN recipes \cup {s.signature}
          /\ recipes'[s.signature].strategy = s.strategy /\ recipes'[s.signature].ops = s.ops
          /\ \A g \in DOMAIN recipes : g # s.signature => recipes'[g] = recipes[g]
      BY <2>3 DEF Upserted, With
    <3> QED
      BY <2>1, <2>2, <2>3, <3>1 DEF RecipesEarned
  <2> QED
    BY <2>1, <2>2, <2>3
<1>4. ASSUME NEW h \in Heals, BurnRun(h) PROVE RecipesEarned'
  BY <1>4 DEF BurnRun
<1>5. ASSUME NEW h \in Heals,
             \/ Begin(h) \/ Match(h) \/ PlanFix(h) \/ Reproduce(h) \/ ComputeDiff(h) \/ Fallback(h)
             \/ Record(h) \/ Status(h) \/ Refs(h) \/ GitStep(h) \/ GitFails(h) \/ Undo(h) \/ Drop(h)
      PROVE  RecipesEarned'
  BY <1>5 DEF Begin, Match, PlanFix, Reproduce, ComputeDiff, Fallback, Record, Status, Refs,
     GitStep, GitFails, Undo, Drop
<1>6. ASSUME UserStep \/ UNCHANGED vars PROVE RecipesEarned'
  BY <1>6 DEF UserStep, vars
<1> QED
  BY <1>1, <1>2, <1>3, <1>4, <1>5, <1>6 DEF HealerNext, Over

HealerInv == Typed /\ HealsOK /\ RecipesEarned

\* A repository with one commit on the base branch, the stored recipes, and no heal.
LEMMA HealerInitInv == HealerInit => HealerInv
<1> SUFFICES ASSUME HealerInit PROVE HealerInv
  OBVIOUS
<1>1. HealsTyped /\ HealsOK
  BY NoReportFields DEF HealerInit, HealsTyped, HealsOK, HealOK, Signed, Coherent, Tried, Flow,
     Unproven, Publishing
<1>2. RecipesTyped
  <2> SUFFICES ASSUME NEW g \in DOMAIN recipes PROVE RecipeTyped(recipes[g])
    BY DEF RecipesTyped
  <2> QED
    BY HealerAssumption DEF HealerInit, RecipeTyped
<1>3. RecipesEarned
  BY HealerAssumption DEF HealerInit, RecipesEarned
<1>4. GitTyped
  <2>1. PICK s \in Sources :
          LET main == [b \in {Base} |-> <<s>>]
          IN  git = [tree |-> s, index |-> s, head |-> Base, branches |-> main, remote |-> main]
    BY DEF HealerInit
  <2>2. /\ DOMAIN git = {"tree", "index", "head", "branches", "remote"} /\ git.head = Base
        /\ git.branches = [b \in {Base} |-> <<s>>]
    BY <2>1
  <2>3. Range(<<s>>) = {s} /\ <<s>> \in Seq({s})
    BY DEF Range
  <2> QED
    BY <2>2, <2>3 DEF GitTyped
<1> QED
  BY <1>1, <1>2, <1>3, <1>4 DEF HealerInv, Typed

\* The healer keeps the invariant.
THEOREM HealerInvariance == HealerSpec => []HealerInv
<1>1. HealerInit => HealerInv
  BY HealerInitInv
<1>2. HealerInv /\ [HealerNext]_vars => HealerInv'
  BY HealsTypedInductive, GitTypedInductive, RecipesTypedInductive, HealsOKInductive,
     RecipesEarnedInductive DEF HealerInv, Typed
<1> QED
  BY <1>1, <1>2, PTL DEF HealerSpec

\* A branch is checked out that exists, a heal is at one of its steps and within its runs, and
\* every hit of a recipe is a success or a failure.
THEOREM HealerTyping == HealerSpec => []HealerTypeOK
<1>1. HealerInv => HealerTypeOK
  BY DEF HealerInv, Typed, HealsTyped, Shaped, GitTyped, RecipesTyped, RecipeTyped, HealerTypeOK
<1> QED
  BY <1>1, HealerInvariance, PTL

\* A stored recipe went fully green under its own signature, whatever failed or fell back.
THEOREM RecipesGoGreen == HealerSpec => []RecipesEarned
<1>1. HealerInv => RecipesEarned
  BY DEF HealerInv
<1> QED
  BY <1>1, HealerInvariance, PTL

\* A stable report's ops turn its diff's old side into its new one, and that ran green.
THEOREM ReportsCohere == HealerSpec => []ReportCoherent
<1>1. HealerInv => ReportCoherent
  BY DEF HealerInv, HealsOK, HealOK, Coherent, Tried, ReportCoherent
<1> QED
  BY <1>1, HealerInvariance, PTL

\* What is pushed is what the burn-in ran green on.
THEOREM PushesValidated == HealerSpec => []PublishedValidated
<1>1. HealerInv => PublishedValidated
  <2> SUFFICES ASSUME HealerInv, NEW h \in Heals, heals[h].pushed # <<>>, ~heals[h].disturbed
               PROVE  heals[h].stable /\ heals[h].tested = {heals[h].pushed}
    BY DEF PublishedValidated
  <2>1. Tried(heals[h]) /\ Flow(h)
    BY DEF HealerInv, HealsOK, HealOK
  <2>2. heals[h].stable /\ heals[h].pushed = heals[h].diff[2]
    BY <2>1 DEF Flow
  <2> QED
    BY <2>1, <2>2 DEF Tried
<1> QED
  BY <1>1, HealerInvariance, PTL

\* A git flow that failed, and whose cleanup went through, leaves the user where it found him.
THEOREM FailuresRestore == HealerSpec => []Restored
<1>1. HealerInv => Restored
  BY DEF HealerInv, HealsOK, HealOK, Flow, Restored, Restorable, At
<1> QED
  BY <1>1, HealerInvariance, PTL

-----------------------------------------------------------------------------
(* Operators of the model: the elements of a trace, patches and plans.     *)

\* Of some numbers one is the least.
LEMMA Least ==
  ASSUME NEW T \in SUBSET Nat, T # {}
  PROVE  \E n \in T : \A m \in T : n <= m
<1>1. PICK n \in T : \A m \in T : ~(<<m, n>> \in OpToRel(<, Nat))
  BY WFMin, NatLessThanWellFounded
<1>2. \A k, m \in Nat : k < m => <<k, m>> \in OpToRel(<, Nat)
  BY DEF OpToRel
<1>3. n \in Nat /\ \A m \in T : m \in Nat
  OBVIOUS
<1>4. \A m \in T : ~(m < n)
  BY ONLY <1>1, <1>2, <1>3
<1> QED
  BY <1>3, <1>4

\* As many numbers as a set has come first, second and so on in it.
LEMMA NthFound ==
  ASSUME NEW at \in SUBSET Int, IsFiniteSet(at), NEW n \in 1..Cardinality(at)
  PROVE  Nth(at, n) \in at
<1> DEFINE before(i) == { j \in at : j < i }
           rank == [i \in at |-> Cardinality(before(i))]
           c == Cardinality(at)
           ranks == 0..(c - 1)
<1>1. c \in Nat /\ c >= 1
  BY FS_CardinalityType
<1>2. \A i \in at : IsFiniteSet(before(i)) /\ before(i) \subseteq at /\ before(i) # at
  BY FS_Subset
<1>3. ASSUME NEW i \in at PROVE rank[i] \in ranks
  <2>1. rank[i] \in Nat /\ rank[i] < c
    BY <1>2, FS_Subset, FS_CardinalityType
  <2> QED
    BY <1>1, <2>1
<1>4. ASSUME NEW i \in at, NEW j \in at, i < j PROVE rank[i] < rank[j]
  <2>0. i \in Int /\ j \in Int /\ \A k \in at : k \in Int
    OBVIOUS
  <2>1. \A k \in at : k < i => k < j
    BY <1>4, <2>0
  <2>2. before(i) \subseteq before(j)
    BY <2>1
  <2>3. i \in before(j) /\ i \notin before(i)
    BY <1>4, <2>0
  <2>4. IsFiniteSet(before(j)) /\ before(i) # before(j)
    BY <1>2, <2>3
  <2> HIDE DEF before
  <2>5. Cardinality(before(i)) < Cardinality(before(j))
    BY <2>2, <2>4, FS_Subset, FS_CardinalityType
  <2> QED
    BY <2>5
<1>5. \A i, j \in at : rank[i] = rank[j] => i = j
  BY <1>3, <1>4
<1>6. IsFiniteSet(ranks) /\ Cardinality(ranks) = c
  <2>1. 0 \in Int /\ c - 1 \in Int
    BY <1>1
  <2>2. IsFiniteSet(ranks) /\ Cardinality(ranks) = IF 0 > c - 1 THEN 0 ELSE (c - 1) - 0 + 1
    BY <2>1, FS_Interval
  <2> QED
    BY <1>1, <2>2
<1> HIDE DEF ranks
<1>7. rank \in Injection(at, ranks)
  BY <1>3, <1>5 DEF Injection, IsInjective
<1> HIDE DEF rank
<1>8. rank \in Surjection(at, ranks)
  BY <1>6, <1>7, FS_Injection
<1>9. \E i \in at : rank[i] = n - 1
  BY <1>1, <1>8 DEF Surjection, ranks
<1>10. \E i \in at : Cardinality({ j \in at : j < i }) = n - 1
  BY <1>9 DEF rank
<1> QED
  BY <1>10 DEF Nth

\* A text, or a list of operations.
Listed(x) == x \in Seq(Range(x))

\* What Applied has done after k operations, and a table of that.
Patched(src, ops, g, k) ==
  IF k = 0 THEN [ok |-> TRUE, src |-> src]
  ELSE IF ~g[k - 1].ok \/ AnchorAt(g[k - 1].src, ops[k]) = {} THEN [ok |-> FALSE, src |-> src]
       ELSE [ok |-> TRUE, src |-> ApplyOp(g[k - 1].src, ops[k])]
Patches(src, ops, g, n) == g = [k \in 0..n |-> Patched(src, ops, g, k)]

\* There is such a table for any number of operations.
LEMMA PatchesExist ==
  ASSUME NEW src, NEW ops, NEW n \in Nat
  PROVE  \E g : Patches(src, ops, g, n)
<1> DEFINE bad == { m \in Nat : ~\E g : Patches(src, ops, g, m) }
<1>1. ASSUME bad # {} PROVE FALSE
  <2>1. PICK m \in bad : \A k \in bad : m <= k
    BY <1>1, Least
  <2>2. CASE m = 0
    <3> DEFINE g == [k \in 0..0 |-> [ok |-> TRUE, src |-> src]]
    <3>1. \A k \in 0..0 : Patched(src, ops, g, k) = [ok |-> TRUE, src |-> src]
      BY DEF Patched
    <3>2. Patches(src, ops, g, 0)
      BY <3>1 DEF Patches
    <3> QED
      BY <2>2, <3>2
  <2>3. CASE m # 0
    <3>1. m \in Nat /\ m - 1 \in Nat /\ m - 1 \notin bad
      BY <2>1, <2>3
    <3>2. PICK g : Patches(src, ops, g, m - 1)
      BY <3>1
    <3> DEFINE z == [k \in 0..m |-> IF k = m THEN Patched(src, ops, g, m) ELSE g[k]]
    <3>3. \A k \in 0..m : z[k] = IF k = m THEN Patched(src, ops, g, m) ELSE g[k]
      OBVIOUS
    <3>4. \A k \in 0..(m - 1) : g[k] = Patched(src, ops, g, k)
      BY <3>2 DEF Patches
    <3> HIDE DEF z
    <3>5. ASSUME NEW k \in 0..m PROVE Patched(src, ops, z, k) = Patched(src, ops, g, k)
      <4>1. k # 0 => k - 1 \in 0..m /\ k - 1 # m
        BY <3>1
      <4>2. k # 0 => z[k - 1] = g[k - 1]
        BY <3>3, <4>1
      <4> QED
        BY <4>2 DEF Patched
    <3>6. \A k \in 0..m : z[k] = Patched(src, ops, z, k)
      BY <3>1, <3>3, <3>4, <3>5
    <3>7. z = [k \in 0..m |-> z[k]]
      BY DEF z
    <3>8. Patches(src, ops, z, m)
      BY <3>6, <3>7 DEF Patches
    <3> QED
      BY <2>1, <3>8
  <2> QED
    BY <2>2, <2>3
<1> QED
  BY <1>1

\* One operation turns a text into a text.
LEMMA ApplyOpListed ==
  ASSUME NEW src, Listed(src), NEW op, AnchorAt(src, op) # {}
  PROVE  Listed(ApplyOp(src, op))
<1> DEFINE i == Min(AnchorAt(src, op))
           S == Range(src) \cup {op.new}
<1>1. src \in Seq(S) /\ DOMAIN src = 1..Len(src) /\ Len(src) \in Nat
  BY SeqMonotonic DEF Listed
<1>2. i \in 1..Len(src)
  <2>1. AnchorAt(src, op) \in SUBSET Nat
    BY <1>1 DEF AnchorAt
  <2>2. PICK n \in AnchorAt(src, op) : \A m \in AnchorAt(src, op) : n <= m
    BY <2>1, Least
  <2>3. i \in AnchorAt(src, op)
    BY <2>2 DEF Min
  <2> QED
    BY <1>1, <2>3 DEF AnchorAt
<1> HIDE DEF i
<1>3. [src EXCEPT ![i] = op.new] \in Seq(S)
  BY <1>1, <1>2
<1>4. SubSeq(src, 1, i - 1) \o <<op.new>> \o SubSeq(src, i, Len(src)) \in Seq(S)
  <2>1. SubSeq(src, 1, i - 1) \in Seq(S)
    BY <1>1, <1>2
  <2>2. SubSeq(src, i, Len(src)) \in Seq(S)
    BY <1>1, <1>2
  <2>3. <<op.new>> \in Seq(S)
    OBVIOUS
  <2> HIDE DEF S
  <2> QED
    BY <2>1, <2>2, <2>3
<1>5. ApplyOp(src, op) \in Seq(S)
  BY <1>3, <1>4 DEF ApplyOp, i
<1> QED
  BY <1>5, SeqOfRange DEF Listed

\* A list of operations turns a text into a text.
LEMMA AppliedListed ==
  ASSUME NEW src, Listed(src), NEW ops, Listed(ops)
  PROVE  Listed(Applied(src, ops).src)
<1> DEFINE n == Len(ops)
           g == CHOOSE g : Patches(src, ops, g, n)
<1>1. n \in Nat
  BY DEF Listed
<1>2. Patches(src, ops, g, n)
  BY <1>1, PatchesExist
<1>3. Applied(src, ops) = g[n]
  BY DEF Applied, Patches, Patched
<1> HIDE DEF g
<1>4. \A k \in 0..n : g[k] = Patched(src, ops, g, k)
  BY <1>2 DEF Patches
<1> DEFINE bad == { k \in 0..n : ~Listed(g[k].src) }
<1>5. ASSUME bad # {} PROVE FALSE
  <2>1. bad \in SUBSET Nat
    OBVIOUS
  <2>2. PICK m \in bad : \A k \in bad : m <= k
    BY <1>5, <2>1, Least
  <2>3. m # 0
    <3>1. Patched(src, ops, g, 0).src = src
      BY DEF Patched
    <3>2. 0 \in 0..n /\ g[0].src = src
      BY <1>1, <1>4, <3>1
    <3> QED
      BY <2>2, <3>2
  <2>4. m - 1 \in 0..n /\ m - 1 \notin bad
    BY <1>1, <2>2, <2>3
  <2>5. Listed(g[m - 1].src)
    BY <2>4
  <2>6. Listed(Patched(src, ops, g, m).src)
    BY <2>3, <2>5, ApplyOpListed DEF Patched
  <2> QED
    BY <1>4, <2>2, <2>6
<1> QED
  BY <1>1, <1>3, <1>5

\* The image of a finite set is finite.
LEMMA FiniteImage ==
  ASSUME NEW S, IsFiniteSet(S), NEW f, DOMAIN f = S
  PROVE  IsFiniteSet({ f[x] : x \in S })
<1> DEFINE g == [x \in S |-> f[x]]
           T == { f[x] : x \in S }
<1>1. g \in Surjection(S, T)
  BY DEF Surjection
<1> HIDE DEF g
<1> QED
  BY <1>1, FS_Surjection

\* A trace as it is read: lists of events and of elements.
TraceListed(tr) ==
  /\ Listed(tr)
  /\ \A i \in {i \in DOMAIN tr : tr[i].kind = "frame-snapshot"} :
       /\ Listed(tr[i].elements)
       /\ \A e \in Range(tr[i].elements) : e = [id |-> e.id, testid |-> e.testid]

\* A trace shows finitely many elements.
LEMMA PlacesFinite ==
  ASSUME NEW tr, TraceListed(tr)
  PROVE  /\ IsFiniteSet(Places(tr)) /\ IsFiniteSet(FirstPlaces(tr))
         /\ \A p \in Places(tr) :
              /\ p[1] \in Int /\ p[2] \in Int
              /\ ElementAt(tr, p) = [id |-> ElementAt(tr, p).id, testid |-> ElementAt(tr, p).testid]
<1> DEFINE shots == {i \in DOMAIN tr : tr[i].kind = "frame-snapshot"}
           shown == [i \in shots |-> {<<i, j>> : j \in DOMAIN tr[i].elements}]
<1>1. DOMAIN tr = 1..Len(tr) /\ Len(tr) \in Nat
  BY DEF TraceListed, Listed
<1>2. IsFiniteSet(1..Len(tr))
  BY <1>1, FS_Interval
<1>3. IsFiniteSet(shots)
  BY <1>1, <1>2, FS_Subset
<1>4. ASSUME NEW i \in shots
      PROVE  IsFiniteSet(shown[i]) /\ \A j \in DOMAIN tr[i].elements : j \in Int
  <2> DEFINE f == [j \in DOMAIN tr[i].elements |-> <<i, j>>]
  <2>1. DOMAIN tr[i].elements = 1..Len(tr[i].elements) /\ Len(tr[i].elements) \in Nat
    BY DEF TraceListed, Listed
  <2>2. IsFiniteSet(DOMAIN tr[i].elements)
    BY <2>1, FS_Interval
  <2>3. DOMAIN f = DOMAIN tr[i].elements /\ shown[i] = { f[j] : j \in DOMAIN tr[i].elements }
    OBVIOUS
  <2>4. \A j \in DOMAIN tr[i].elements : j \in Int
    BY <2>1
  <2> HIDE DEF f, shown, shots
  <2>5. IsFiniteSet(shown[i])
    BY <2>2, <2>3, FiniteImage
  <2> QED
    BY <2>4, <2>5
<1>5. Places(tr) = UNION { shown[i] : i \in shots } /\ DOMAIN shown = shots
  <2>1. { shown[i] : i \in shots } = { {<<i, j>> : j \in DOMAIN tr[i].elements} : i \in shots }
    OBVIOUS
  <2>2. DOMAIN shown = shots
    OBVIOUS
  <2> QED
    BY <2>1, <2>2 DEF Places
<1>6. ASSUME NEW p \in Places(tr)
      PROVE  /\ p[1] \in Int /\ p[2] \in Int
             /\ ElementAt(tr, p) = [id |-> ElementAt(tr, p).id, testid |-> ElementAt(tr, p).testid]
  <2>1. PICK i \in shots : p \in shown[i]
    BY <1>5
  <2>2. PICK j \in DOMAIN tr[i].elements : p = <<i, j>>
    BY <2>1
  <2>3. ElementAt(tr, p) = tr[i].elements[j] /\ p[1] = i /\ p[2] = j
    BY <2>2 DEF ElementAt
  <2>4. tr[i].elements[j] \in Range(tr[i].elements)
    BY DEF Range
  <2>5. i \in Int /\ j \in Int
    <3>1. i \in 1..Len(tr)
      BY <1>1
    <3>2. i \in Int
      BY <1>1, <3>1
    <3>3. j \in Int
      BY <1>4
    <3> QED
      BY <3>2, <3>3
  <2>6. \A e \in Range(tr[i].elements) : e = [id |-> e.id, testid |-> e.testid]
    BY DEF TraceListed
  <2> HIDE DEF shots
  <2> QED
    BY <2>3, <2>4, <2>5, <2>6
<1> HIDE DEF shown, shots
<1>7. IsFiniteSet({ shown[i] : i \in shots })
  BY <1>3, <1>5, FiniteImage
<1>8. IsFiniteSet(Places(tr))
  BY <1>4, <1>5, <1>7, FS_UNION
<1>9. FirstPlaces(tr) \subseteq Places(tr)
  BY DEF FirstPlaces
<1> QED
  BY <1>6, <1>8, <1>9, FS_Subset

\* As long as no id is cut off, the table of elements is that of all ids as first seen.
LEMMA DomIdsWhole ==
  ASSUME NEW tr, TraceListed(tr), Cardinality(FirstPlaces(tr)) <= MaxDomKeys
  PROVE  DomIds(tr) = {ElementAt(tr, p) : p \in FirstPlaces(tr)}
<1> DEFINE seen == FirstPlaces(tr)
           before(p) == {q \in seen : Precedes(q, p)}
<1>1. IsFiniteSet(seen) /\ \A p \in seen : p[1] \in Int /\ p[2] \in Int
  BY PlacesFinite DEF FirstPlaces
<1>2. ASSUME NEW p \in seen PROVE Cardinality(before(p)) < MaxDomKeys
  <2>1. before(p) \subseteq seen /\ p \notin before(p)
    BY <1>1 DEF Precedes
  <2> HIDE DEF before
  <2>2. /\ Cardinality(before(p)) \in Nat /\ Cardinality(seen) \in Nat
        /\ Cardinality(before(p)) < Cardinality(seen)
    BY <1>1, <2>1, FS_Subset, FS_CardinalityType
  <2> QED
    BY <2>2, DiagnosisAssumption
<1>3. {p \in seen : Cardinality(before(p)) < MaxDomKeys} = seen
  BY <1>2
<1> QED
  BY <1>3 DEF DomIds

\* A test id the parser finds on a target is proven by the trace.
LEMMA TestidProven ==
  ASSUME NEW tr, TraceListed(tr), Cardinality(FirstPlaces(tr)) <= MaxDomKeys, NEW selector,
         TestidOnTarget(tr, selector) # None
  PROVE  Proves(tr, selector.id, TestidOnTarget(tr, selector))
<1> DEFINE first == {ElementAt(tr, p) : p \in FirstPlaces(tr)}
           exact == {e \in first : e.id = selector.id}
           named == {e \in first : e.id.shape = selector.id.shape /\ e.testid # None}
           like == {e.testid : e \in named}
           testid == TestidOnTarget(tr, selector)
<1>1. /\ IsFiniteSet(FirstPlaces(tr))
      /\ \A e \in first : e = [id |-> e.id, testid |-> e.testid]
  BY PlacesFinite DEF FirstPlaces
<1>2. IsFiniteSet(like)
  <2> DEFINE f == [p \in FirstPlaces(tr) |-> ElementAt(tr, p)]
             g == [e \in named |-> e.testid]
  <2>1. first = { f[p] : p \in FirstPlaces(tr) } /\ DOMAIN f = FirstPlaces(tr)
    OBVIOUS
  <2>2. like = { g[e] : e \in named } /\ DOMAIN g = named /\ named \subseteq first
    OBVIOUS
  <2> HIDE DEF f, g, like, named, first
  <2>3. IsFiniteSet(first)
    BY <1>1, <2>1, FiniteImage
  <2> QED
    BY <2>2, <2>3, FS_Subset, FiniteImage
<1>3. testid = CASE selector.form # "id" -> None
                 [] selector.form = "id" /\ exact # {} -> (CHOOSE e \in exact : TRUE).testid
                 [] selector.form = "id" /\ exact = {} /\ Cardinality(like) = 1 ->
                      CHOOSE t \in like : TRUE
                 [] OTHER -> None
  BY DomIdsWhole DEF TestidOnTarget
<1>4. Proves(tr, selector.id, testid) <=>
        \/ [id |-> selector.id, testid |-> testid] \in first
        \/ (\A e \in first : e.id # selector.id) /\ like = {testid}
  BY DEF Proves
<1> HIDE DEF first, testid, like
<1>5. CASE exact # {}
  <2> DEFINE e == CHOOSE e \in exact : TRUE
  <2>1. e \in exact
    BY <1>5
  <2>2. testid = e.testid
    BY <1>3, <1>5 DEF testid
  <2> HIDE DEF e
  <2>3. e = [id |-> selector.id, testid |-> testid] /\ e \in first
    BY <1>1, <2>1, <2>2
  <2> QED
    BY <1>4, <2>3 DEF testid
<1>6. CASE exact = {}
  <2>1. Cardinality(like) = 1 /\ testid = CHOOSE t \in like : TRUE
    BY <1>3, <1>6 DEF testid
  <2>2. PICK t : like = {t}
    BY <1>2, <2>1, FS_Singleton
  <2>3. like = {testid}
    BY <2>1, <2>2
  <2> QED
    BY <1>4, <1>6, <2>3 DEF testid
<1> QED
  BY <1>5, <1>6

\* An operation that rewrites a locator does it for the parser's test id, on the failing selector.
Rewrites(op, t) ==
  /\ t.trace /\ t.testid # None /\ op.anchor.selector = t.selector
  /\ op.new = ByTestid(op.anchor, t.testid)

\* A sequence by its members.
LEMMA ByMembers ==
  ASSUME NEW n \in Nat, NEW f, f = [k \in 1..n |-> f[k]]
  PROVE  Listed(f) /\ \A x \in Range(f) : \E k \in 1..n : x = f[k]
<1>1. f \in Seq(Range(f))
  BY DEF Range
<1> QED
  BY <1>1 DEF Listed, Range

\* A bumped wait is one operation or none.
LEMMA BumpListed ==
  ASSUME NEW line, NEW field
  PROVE  Listed(BumpOn(line, field))
<1>1. BumpOn(line, field) = <<>> \/ \E x : BumpOn(line, field) = <<x>>
  BY DEF BumpOn
<1>2. Listed(<<>>) /\ \A x : Listed(<<x>>)
  BY DEF Listed, Range
<1> QED
  BY <1>1, <1>2

\* Whatever strategy plans for whatever diagnosis, its patch is a list, and test ids come in only
\* by the parser's proof.
LEMMA PlanSound ==
  ASSUME NEW name, NEW src, Listed(src), NEW d, NEW t
  PROVE  /\ Listed(Plan(name, src, d, t))
         /\ name = "testid_selector" => \A op \in Range(Plan(name, src, d, t)) : Rewrites(op, t)
<1>1. Listed(<<>>) /\ \A x : Listed(<<x>>)
  BY DEF Listed, Range
<1>2. Listed(PlanBump(src, d, t))
  BY <1>1, BumpListed DEF PlanBump
<1>3. Listed(PlanAwait(src, d, t))
  BY <1>1 DEF PlanAwait
<1>4. Listed(PlanTestid(src, d, t)) /\ \A op \in Range(PlanTestid(src, d, t)) : Rewrites(op, t)
  <2>1. CASE PlanTestid(src, d, t) = <<>>
    BY <1>1, <2>1 DEF Range
  <2>2. CASE PlanTestid(src, d, t) # <<>>
    <3> DEFINE hits == {i \in DOMAIN src : src[i].selector = t.selector}
               line(k) == src[Nth(hits, k)]
               n == Cardinality(hits)
               ops == [k \in 1..n |-> [op |-> "replace", anchor |-> line(k),
                                       new |-> ByTestid(line(k), t.testid)]]
    <3>1. PlanTestid(src, d, t) = ops /\ t.trace /\ t.testid # None
      BY <2>2 DEF PlanTestid
    <3>2. DOMAIN src = 1..Len(src) /\ Len(src) \in Nat
      BY DEF Listed
    <3>3. hits \in SUBSET Int /\ IsFiniteSet(hits)
      <4>1. IsFiniteSet(1..Len(src))
        BY <3>2, FS_Interval
      <4> QED
        BY <3>2, <4>1, FS_Subset
    <3>4. n \in Nat
      BY <3>3, FS_CardinalityType
    <3>5. ASSUME NEW k \in 1..n PROVE Rewrites(ops[k], t)
      <4> HIDE DEF hits
      <4>1. Nth(hits, k) \in hits
        BY <3>3, NthFound
      <4>2. line(k).selector = t.selector
        BY <4>1 DEF hits
      <4>3. ops[k].anchor = line(k) /\ ops[k].new = ByTestid(line(k), t.testid)
        OBVIOUS
      <4> QED
        BY <3>1, <4>2, <4>3 DEF Rewrites
    <3>6. ops = [k \in 1..n |-> ops[k]]
      OBVIOUS
    <3> HIDE DEF ops, n
    <3>7. Listed(ops) /\ \A x \in Range(ops) : \E k \in 1..n : x = ops[k]
      BY <3>4, <3>6, ByMembers
    <3> QED
      BY <3>1, <3>5, <3>7
  <2> QED
    BY <2>1, <2>2
<1>5. \/ Plan(name, src, d, t) \in {PlanBump(src, d, t), PlanAwait(src, d, t), <<>>}
          /\ name # "testid_selector"
      \/ Plan(name, src, d, t) = PlanTestid(src, d, t)
  BY DEF Plan
<1> QED
  BY <1>1, <1>2, <1>3, <1>4, <1>5

\* So does the planner, under the name of the strategy it chose.
LEMMA PlannedSound ==
  ASSUME NEW src, Listed(src), NEW d, NEW t, NEW override
  PROVE  LET p == Planned(d, t, src, override)
         IN  Listed(p.ops) /\ (p.strategy = "testid_selector" => \A op \in Range(p.ops) : Rewrites(op, t))
<1>1. \/ Planned(d, t, src, override) = NoPlan
      \/ \E name : Planned(d, t, src, override) = [strategy |-> name, ops |-> Plan(name, src, d, t)]
  BY DEF Planned
<1>2. Listed(NoPlan.ops) /\ NoPlan.strategy # "testid_selector"
  BY DEF NoPlan, None, Listed, Range
<1>3. ASSUME NEW name,
             Planned(d, t, src, override) = [strategy |-> name, ops |-> Plan(name, src, d, t)]
      PROVE  LET p == Planned(d, t, src, override)
             IN  p.strategy = name /\ p.ops = Plan(name, src, d, t)
  BY <1>3
<1>4. \A name : /\ Listed(Plan(name, src, d, t))
                /\ name = "testid_selector" => \A op \in Range(Plan(name, src, d, t)) : Rewrites(op, t)
  BY PlanSound
<1> QED
  BY <1>1, <1>2, <1>3, <1>4

\* The summary of a trace says what the parser found on the target of its selector.
LEMMA SummaryTestid ==
  ASSUME NEW tr, Summary(tr).testid # None
  PROVE  Summary(tr).testid = TestidOnTarget(tr, Summary(tr).selector)
BY DEF Summary

-----------------------------------------------------------------------------
(* What a report rests on.                                                 *)

\* What a report's patch rests on: the trace of its request, a source that is a text, and for a
\* rewritten locator the parser's proof.
Founded(s) ==
  /\ s.t.trace => s.request \in Requests /\ s.t = Summary(s.request.trace)
  /\ Listed(s.source) /\ Listed(s.plan) /\ Listed(s.ops)
  /\ s.strategy = "testid_selector" => \A op \in Range(s.plan) : Rewrites(op, s.t)

\* The repository holds texts, the patch directory lists of operations.
GitListed ==
  /\ Listed(git.tree) /\ Listed(git.index)
  /\ \A b \in DOMAIN git.branches :
       git.branches[b] # <<>> /\ \A text \in Range(git.branches[b]) : Listed(text)
ContentsListed == GitListed /\ \A b \in DOMAIN patches : Listed(patches[b])

\* A heal that checks out or applies has its patch file.
Filed(h) == heals[h].pc \in {"checkout", "apply"} => Branch(h) \in DOMAIN patches

Grounded == ContentsListed /\ \A h \in Heals : Founded(heals[h]) /\ Filed(h)

\* A step that leaves a report's grounds alone; a burn-in may list the plan's operations.
Kept(s, z) ==
  /\ z.request = s.request /\ z.t = s.t /\ z.source = s.source /\ z.signature = s.signature
  /\ z.strategy = s.strategy /\ z.plan = s.plan /\ z.ops \in {s.ops, s.plan}

\* A report that is kept rests on what it rested on.
LEMMA KeptFounded ==
  ASSUME NEW s, NEW z, Founded(s), Kept(s, z)
  PROVE  Founded(z)
BY DEF Founded, Kept

\* The ways in which steps change the reports.
LEMMA SetKeeps ==
  ASSUME HealsTyped, NEW h \in Heals, NEW r, Set(h, r)
  PROVE  heals'[h] = r /\ \A o \in Heals \ {h} : heals'[o] = heals[o]
BY DEF Set, HealsTyped

\* Moving a heal on keeps every report.
LEMMA GoKeeps ==
  ASSUME HealsTyped, NEW h \in Heals, NEW pc, Go(h, pc)
  PROVE  /\ \A o \in Heals : Kept(heals[o], heals'[o])
         /\ heals'[h].pc = pc /\ \A o \in Heals \ {h} : heals'[o].pc = heals[o].pc
<1>1. heals'[h] = [heals[h] EXCEPT !.pc = pc] /\ \A o \in Heals \ {h} : heals'[o] = heals[o]
  BY SetKeeps DEF Go
<1>2. \A o \in Heals : DOMAIN heals[o] = HealFields
  BY DEF HealsTyped, Shaped
<1> QED
  BY <1>1, <1>2 DEF Kept, HealFields

\* So does a heal that fails.
LEMMA FailKeeps ==
  ASSUME HealsTyped, NEW h \in Heals, Fail(h)
  PROVE  /\ \A o \in Heals : Kept(heals[o], heals'[o])
         /\ heals'[h].pc = "record" /\ \A o \in Heals \ {h} : heals'[o].pc = heals[o].pc
<1>1. /\ heals'[h] = [heals[h] EXCEPT !.error = TRUE, !.pc = "record"]
      /\ \A o \in Heals \ {h} : heals'[o] = heals[o]
  BY SetKeeps DEF Fail
<1>2. \A o \in Heals : DOMAIN heals[o] = HealFields
  BY DEF HealsTyped, Shaped
<1>3. Kept(heals[h], heals'[h]) /\ heals'[h].pc = "record"
  BY <1>1, <1>2 DEF Kept, HealFields
<1>4. \A o \in Heals \ {h} : Kept(heals[o], heals'[o]) /\ heals'[o].pc = heals[o].pc
  BY <1>1 DEF Kept
<1> QED
  BY <1>3, <1>4

\* So does a write to the repository.
LEMMA WritesKeep ==
  ASSUME HealsTyped, NEW h \in Heals, NEW pc, NEW change, Writes(h, pc, change)
  PROVE  /\ \A o \in Heals : Kept(heals[o], heals'[o])
         /\ heals'[h].pc = pc /\ \A o \in Heals \ {h} : heals'[o].pc = heals[o].pc
<1>1. \A o \in Heals : DOMAIN heals[o] = HealFields
  BY DEF HealsTyped, Shaped
<1>2. heals' = [o \in Heals |-> IF o = h THEN [heals[o] EXCEPT !.pc = pc]
                                ELSE [heals[o] EXCEPT !.disturbed = TRUE]]
  BY DEF Writes
<1>3. Kept(heals[h], heals'[h]) /\ heals'[h].pc = pc
  BY <1>1, <1>2 DEF Kept, HealFields
<1>4. \A o \in Heals \ {h} : Kept(heals[o], heals'[o]) /\ heals'[o].pc = heals[o].pc
  BY <1>1, <1>2 DEF Kept, HealFields
<1> QED
  BY <1>3, <1>4

\* A step that leaves the patch files and every report's grounds alone, and files none.
Rests ==
  /\ \A o \in Heals : Kept(heals[o], heals'[o])
  /\ \A o \in Heals : heals'[o].pc \in {"checkout", "apply"} => heals[o].pc \in {"checkout", "apply"}
  /\ UNCHANGED patches

\* Such a step leaves every report grounded.
LEMMA RestsGrounded ==
  ASSUME Grounded, Rests
  PROVE  \A h \in Heals : (Founded(heals[h]))' /\ Filed(h)'
<1> SUFFICES ASSUME NEW h \in Heals PROVE (Founded(heals[h]))' /\ Filed(h)'
  OBVIOUS
<1>1. (Founded(heals[h]))'
  <2>1. Founded(heals'[h])
    BY KeptFounded DEF Grounded, Rests
  <2> QED
    BY <2>1 DEF Founded
<1>2. heals'[h].signature = heals[h].signature
  BY DEF Rests, Kept
<1>3. Filed(h)'
  BY <1>2 DEF Grounded, Rests, Filed, Branch
<1> QED
  BY <1>1, <1>3

\* Most steps are of that kind.
LEMMA MostRest ==
  ASSUME HealsTyped, NEW h \in Heals,
         \/ Stale(h) \/ Reproduce(h) \/ ComputeDiff(h) \/ BurnRun(h) \/ Bump(h) \/ Persist(h)
         \/ Record(h) \/ Status(h) \/ GitStep(h) \/ GitFails(h) \/ Undo(h) \/ Drop(h)
  PROVE  Rests
<1> DEFINE s == heals[h]
<1>0. \A o \in Heals : DOMAIN heals[o] = HealFields /\ Kept(heals[o], heals[o])
  BY DEF HealsTyped, Shaped, Kept
<1>a. ASSUME NEW pc, Go(h, pc), UNCHANGED patches, pc \notin {"checkout", "apply"} PROVE Rests
  BY <1>a, GoKeeps DEF Rests
<1>b. ASSUME Fail(h), UNCHANGED patches PROVE Rests
  BY <1>b, FailKeeps DEF Rests
<1>c. ASSUME NEW pc, NEW change, Writes(h, pc, change), UNCHANGED patches,
             pc \in {"checkout", "apply"} => s.pc \in {"checkout", "apply"}
      PROVE  Rests
  BY <1>c, WritesKeep DEF Rests
<1>d. ASSUME NEW r, Set(h, r), Kept(s, r), UNCHANGED patches, r.pc \notin {"checkout", "apply"}
      PROVE  Rests
  BY <1>0, <1>d, SetKeeps DEF Rests
<1>1. CASE Stale(h)
  BY <1>1, <1>a DEF Stale
<1>2. CASE Reproduce(h)
  BY <1>2, <1>a, <1>b DEF Reproduce
<1>3. CASE ComputeDiff(h)
  <2> DEFINE r == [s EXCEPT !.trial = <<git.tree, Applied(git.tree, s.plan).src>>, !.runs = 0,
                     !.green = TRUE, !.tested = {}, !.pc = "burn"]
  <2>1. Kept(s, r) /\ r.pc = "burn"
    BY <1>0 DEF Kept, HealFields
  <2>2. (Set(h, r) \/ Fail(h)) /\ UNCHANGED patches
    BY <1>3 DEF ComputeDiff
  <2> HIDE DEF r
  <2> QED
    BY <2>1, <2>2, <1>b, <1>d
<1>4. CASE BurnRun(h)
  <2>1. PICK src, passed :
          /\ UNCHANGED patches
          /\ LET ran == [s EXCEPT !.copy = src, !.runs = @ + 1, !.tested = @ \cup {src},
                           !.green = @ /\ passed]
             IN  Fail(h) \/ (Set(h, BurnedIn(ran))) \/ (Set(h, ran) /\ s.pc = "burn")
    BY <1>4 DEF BurnRun, At
  <2> DEFINE ran == [s EXCEPT !.copy = src, !.runs = @ + 1, !.tested = @ \cup {src},
                       !.green = @ /\ passed]
  <2>2. Kept(s, ran) /\ ran.pc = s.pc /\ DOMAIN ran = HealFields
    BY <1>0 DEF Kept, HealFields
  <2> HIDE DEF ran
  <2>3. Kept(s, BurnedIn(ran)) /\ BurnedIn(ran).pc \in {"bump", "persist", "record"}
    <3>1. /\ BurnedIn(ran).pc \in {"bump", "persist", "record"} /\ BurnedIn(ran).request = ran.request
          /\ BurnedIn(ran).t = ran.t /\ BurnedIn(ran).source = ran.source
          /\ BurnedIn(ran).signature = ran.signature /\ BurnedIn(ran).strategy = ran.strategy
          /\ BurnedIn(ran).plan = ran.plan /\ BurnedIn(ran).ops = ran.plan
      BY <2>2 DEF BurnedIn, HealFields
    <3> QED
      BY <2>2, <3>1 DEF Kept
  <2>4. Fail(h) \/ Set(h, BurnedIn(ran)) \/ (Set(h, ran) /\ s.pc = "burn")
    BY <2>1 DEF ran
  <2>5. ASSUME Set(h, ran), s.pc = "burn" PROVE Rests
    BY <2>1, <2>2, <2>5, <1>d
  <2>6. ASSUME Set(h, BurnedIn(ran)) PROVE Rests
    BY <2>1, <2>3, <2>6, <1>d
  <2> QED
    BY <2>1, <2>4, <2>5, <2>6, <1>b
<1>5. CASE Bump(h)
  <2>1. (Go(h, "record") \/ Go(h, "fallback")) /\ UNCHANGED patches
    BY <1>5 DEF Bump
  <2> QED
    BY <2>1, <1>a
<1>6. CASE Persist(h)
  BY <1>6, <1>a DEF Persist
<1>7. CASE Record(h)
  <2>1. (Go(h, "status") \/ Go(h, "done")) /\ UNCHANGED patches
    BY <1>7 DEF Record
  <2> QED
    BY <2>1, <1>a
<1>8. CASE Status(h)
  <2>1. (Go(h, "refs") \/ Go(h, "done")) /\ UNCHANGED patches
    BY <1>8 DEF Status
  <2> QED
    BY <2>1, <1>a
<1>9. CASE GitStep(h)
  <2>1. /\ UNCHANGED patches
        /\ \/ s.pc = "checkout" /\ Writes(h, "apply", Checkout(h))
           \/ Writes(h, "commit", Applying(h))
           \/ Writes(h, "push", Committing)
           \/ Set(h, [s EXCEPT !.pushed = Tip(Branch(h)), !.pc = "pr"])
           \/ Go(h, "done")
    BY <1>9 DEF GitStep, At
  <2>2. Kept(s, [s EXCEPT !.pushed = Tip(Branch(h)), !.pc = "pr"])
        /\ [s EXCEPT !.pushed = Tip(Branch(h)), !.pc = "pr"].pc = "pr"
    BY <1>0 DEF Kept, HealFields
  <2> QED
    BY <2>1, <2>2, <1>a, <1>c, <1>d
<1>10. CASE GitFails(h)
  <2>1. Set(h, [s EXCEPT !.failed = TRUE, !.pc = "undo"]) /\ UNCHANGED patches
    BY <1>10 DEF GitFails
  <2>2. Kept(s, [s EXCEPT !.failed = TRUE, !.pc = "undo"])
        /\ [s EXCEPT !.failed = TRUE, !.pc = "undo"].pc = "undo"
    BY <1>0 DEF Kept, HealFields
  <2> QED
    BY <2>1, <2>2, <1>d
<1>11. CASE Undo(h)
  <2>1. /\ UNCHANGED patches
        /\ (\E change : Writes(h, "drop", change)) \/ Set(h, [s EXCEPT !.cleaned = FALSE, !.pc = "drop"])
    BY <1>11 DEF Undo
  <2>2. Kept(s, [s EXCEPT !.cleaned = FALSE, !.pc = "drop"])
        /\ [s EXCEPT !.cleaned = FALSE, !.pc = "drop"].pc = "drop"
    BY <1>0 DEF Kept, HealFields
  <2> QED
    BY <2>1, <2>2, <1>c, <1>d
<1>12. CASE Drop(h)
  <2>1. /\ UNCHANGED patches
        /\ \/ \E change : Writes(h, "done", change)
           \/ Go(h, "done")
           \/ Set(h, [s EXCEPT !.cleaned = FALSE, !.pc = "done"])
    BY <1>12 DEF Drop
  <2>2. Kept(s, [s EXCEPT !.cleaned = FALSE, !.pc = "done"])
        /\ [s EXCEPT !.cleaned = FALSE, !.pc = "done"].pc = "done"
    BY <1>0 DEF Kept, HealFields
  <2> QED
    BY <2>1, <2>2, <1>a, <1>c, <1>d
<1> QED
  BY <1>1, <1>2, <1>3, <1>4, <1>5, <1>6, <1>7, <1>8, <1>9, <1>10, <1>11, <1>12

\* A report that rests on what it should, and files nothing, takes the place of another.
LEMMA SetGrounded ==
  ASSUME HealsTyped, Grounded, NEW h \in Heals, NEW r, Set(h, r), Founded(r),
         r.pc \notin {"checkout", "apply"}, UNCHANGED patches
  PROVE  \A o \in Heals : (Founded(heals[o]))' /\ Filed(o)'
<1> SUFFICES ASSUME NEW o \in Heals PROVE (Founded(heals[o]))' /\ Filed(o)'
  OBVIOUS
<1>1. heals'[h] = r /\ (o # h => heals'[o] = heals[o])
  BY SetKeeps
<1>2. Founded(heals[o]) /\ Filed(o)
  BY DEF Grounded
<1>3. Founded(heals'[o])
  BY <1>1, <1>2
<1>4. (Founded(heals[o]))'
  BY <1>3 DEF Founded
<1>5. Filed(o)'
  BY <1>1, <1>2 DEF Filed, Branch
<1> QED
  BY <1>4, <1>5

\* A heal begins on a trace of its request and the tree as it is.
LEMMA BeginGrounded ==
  ASSUME HealsTyped, Grounded, NEW h \in Heals, Begin(h)
  PROVE  \A o \in Heals : (Founded(heals[o]))' /\ Filed(o)'
<1>0. /\ Listed(<<>>) /\ DOMAIN NoReport = HealFields /\ NoReport.source = <<>>
      /\ NoReport.plan = <<>> /\ NoReport.ops = <<>> /\ NoReport.strategy # "testid_selector"
      /\ ~NoReport.t.trace /\ ~NoTrace.trace
  <2>1. DOMAIN NoReport = HealFields /\ ~NoReport.t.trace
    BY NoReportFields DEF Shaped
  <2>2. Listed(<<>>)
    BY DEF Listed, Range
  <2>3. ~NoTrace.trace
    BY DEF NoTrace
  <2> QED
    BY <2>1, <2>2, <2>3 DEF NoReport, None
<1>1. PICK request \in Requests :
        LET t == IF request.trace = <<>> THEN NoTrace ELSE Summary(request.trace)
            report == [NoReport EXCEPT !.request = request, !.t = t, !.source = git.tree,
                         !.signature = PartsOfTrace(t)]
        IN  Set(h, CASE request.spec = "missing" -> [report EXCEPT !.error = TRUE, !.pc = "record"]
                     [] request.isolation = "unreachable" -> [NoReport EXCEPT !.pc = "done"]
                     [] OTHER -> [report EXCEPT !.pc = "match"])
  BY DEF Begin
<1> DEFINE t == IF request.trace = <<>> THEN NoTrace ELSE Summary(request.trace)
           report == [NoReport EXCEPT !.request = request, !.t = t, !.source = git.tree,
                        !.signature = PartsOfTrace(t)]
           late == [report EXCEPT !.error = TRUE, !.pc = "record"]
           none == [NoReport EXCEPT !.pc = "done"]
           first == [report EXCEPT !.pc = "match"]
<1>2. t.trace => t = Summary(request.trace)
  BY <1>0
<1> HIDE DEF t
<1>3. /\ DOMAIN report = HealFields /\ report.request = request /\ report.t = t
      /\ report.source = git.tree /\ report.plan = <<>> /\ report.ops = <<>>
      /\ report.strategy # "testid_selector"
  BY <1>0 DEF HealFields
<1> HIDE DEF report
<1>4. /\ late.request = request /\ late.t = t /\ late.source = git.tree /\ late.plan = <<>>
      /\ late.ops = <<>> /\ late.strategy # "testid_selector" /\ late.pc = "record"
  BY <1>3 DEF HealFields
<1>a. /\ first.request = request /\ first.t = t /\ first.source = git.tree /\ first.plan = <<>>
      /\ first.ops = <<>> /\ first.strategy # "testid_selector" /\ first.pc = "match"
  BY <1>3 DEF HealFields
<1>5. /\ none.source = <<>> /\ none.plan = <<>> /\ none.ops = <<>> /\ ~none.t.trace
      /\ none.strategy # "testid_selector" /\ none.pc = "done"
  BY <1>0 DEF HealFields
<1>6. Listed(git.tree)
  BY DEF Grounded, ContentsListed, GitListed
<1>7. Set(h, late) \/ Set(h, none) \/ Set(h, first)
  BY <1>1 DEF report, t
<1> HIDE DEF late, none, first
<1>8. \A r \in {late, none, first} : Founded(r) /\ r.pc \notin {"checkout", "apply"}
  BY <1>0, <1>2, <1>4, <1>a, <1>5, <1>6 DEF Founded
<1>9. UNCHANGED patches
  BY DEF Begin
<1> QED
  BY <1>7, <1>8, <1>9, SetGrounded

\* A new patch under a report: it is a list, and a rewrite is for the parser's test id.
LEMMA PlannedFounded ==
  ASSUME NEW s, Founded(s), NEW z, z.request = s.request, z.t = s.t, z.source = s.source,
         Listed(z.plan), z.ops \in {s.ops, z.plan},
         z.strategy = "testid_selector" => \A op \in Range(z.plan) : Rewrites(op, s.t)
  PROVE  Founded(z)
BY DEF Founded

\* A recipe's procedure, instantiated in the source the heal has read.
LEMMA MatchGrounded ==
  ASSUME HealsTyped, Grounded, NEW h \in Heals, Match(h)
  PROVE  \A o \in Heals : (Founded(heals[o]))' /\ Filed(o)'
<1> DEFINE s == heals[h]
<1>0. DOMAIN s = HealFields /\ Founded(s) /\ UNCHANGED patches
  BY DEF HealsTyped, Shaped, Grounded, Match
<1>1. CASE Go(h, "plan")
  <2>1. Founded([s EXCEPT !.pc = "plan"]) /\ [s EXCEPT !.pc = "plan"].pc = "plan"
    BY <1>0, KeptFounded DEF Kept, HealFields
  <2> QED
    BY <1>0, <1>1, <2>1, SetGrounded DEF Go
<1>2. CASE \E g : Set(h, [s EXCEPT !.recipe = g, !.pc = "stale"])
  <2>1. PICK g : Set(h, [s EXCEPT !.recipe = g, !.pc = "stale"])
    BY <1>2
  <2>2. /\ Founded([s EXCEPT !.recipe = g, !.pc = "stale"])
        /\ [s EXCEPT !.recipe = g, !.pc = "stale"].pc = "stale"
    BY <1>0, KeptFounded DEF Kept, HealFields
  <2> QED
    BY <1>0, <2>1, <2>2, SetGrounded
<1>3. CASE \E g : Set(h, [Proposed([s EXCEPT !.recipe = g, !.used = TRUE], recipes[g].diagnosis,
                            recipes[g].strategy,
                            Plan(recipes[g].strategy, s.source, recipes[g].diagnosis, s.t))
                          EXCEPT !.pc = "reproduce"])
  <2>1. PICK g : Set(h, [Proposed([s EXCEPT !.recipe = g, !.used = TRUE], recipes[g].diagnosis,
                            recipes[g].strategy,
                            Plan(recipes[g].strategy, s.source, recipes[g].diagnosis, s.t))
                          EXCEPT !.pc = "reproduce"])
    BY <1>3
  <2> DEFINE ops == Plan(recipes[g].strategy, s.source, recipes[g].diagnosis, s.t)
             r == [Proposed([s EXCEPT !.recipe = g, !.used = TRUE], recipes[g].diagnosis,
                            recipes[g].strategy, ops) EXCEPT !.pc = "reproduce"]
  <2>2. /\ Listed(ops)
        /\ recipes[g].strategy = "testid_selector" => \A op \in Range(ops) : Rewrites(op, s.t)
    BY <1>0, PlanSound DEF Founded
  <2>3. Set(h, r)
    BY <2>1
  <2> HIDE DEF ops
  <2>4. /\ r.request = s.request /\ r.t = s.t /\ r.source = s.source /\ r.plan = ops /\ r.ops = ops
        /\ r.strategy = recipes[g].strategy /\ r.pc = "reproduce"
    BY <1>0 DEF Proposed, HealFields
  <2> HIDE DEF r
  <2>5. Founded(r)
    BY <1>0, <2>2, <2>4, PlannedFounded
  <2> QED
    BY <1>0, <2>3, <2>4, <2>5, SetGrounded
<1> QED
  BY <1>1, <1>2, <1>3 DEF Match

\* A diagnosis and its plan.
LEMMA PlanFixGrounded ==
  ASSUME HealsTyped, Grounded, NEW h \in Heals, PlanFix(h)
  PROVE  \A o \in Heals : (Founded(heals[o]))' /\ Filed(o)'
<1> DEFINE s == heals[h]
<1>0. DOMAIN s = HealFields /\ Founded(s) /\ UNCHANGED patches
  BY DEF HealsTyped, Shaped, Grounded, PlanFix
<1>1. PICK answer \in Answers :
        LET d == Diagnose(s.t, s.request.log, answer)
            p == Planned(d, s.t, s.source, s.request.override)
            said == [NoParts EXCEPT !.message = d.cause,
                       !.selector = <<d.selector.form, d.selector.id.shape>>]
            report == Proposed([s EXCEPT !.signature = IF s.t.trace THEN @ ELSE said],
                               [cause |-> d.cause, selector |-> d.selector], p.strategy, p.ops)
        IN  Set(h, IF p.ops = <<>> THEN [report EXCEPT !.error = TRUE, !.pc = "record"]
                   ELSE [report EXCEPT !.pc = "reproduce"])
  BY DEF PlanFix
<1> DEFINE d == Diagnose(s.t, s.request.log, answer)
           p == Planned(d, s.t, s.source, s.request.override)
           said == [NoParts EXCEPT !.message = d.cause,
                      !.selector = <<d.selector.form, d.selector.id.shape>>]
           report == Proposed([s EXCEPT !.signature = IF s.t.trace THEN @ ELSE said],
                              [cause |-> d.cause, selector |-> d.selector], p.strategy, p.ops)
           late == [report EXCEPT !.error = TRUE, !.pc = "record"]
           next == [report EXCEPT !.pc = "reproduce"]
<1>2. Set(h, late) \/ Set(h, next)
  BY <1>1
<1> HIDE DEF d, said
<1>3. /\ Listed(p.ops)
      /\ p.strategy = "testid_selector" => \A op \in Range(p.ops) : Rewrites(op, s.t)
  BY <1>0, PlannedSound DEF Founded
<1> HIDE DEF p
<1>4. /\ DOMAIN report = HealFields
      /\ report.request = s.request /\ report.t = s.t /\ report.source = s.source
      /\ report.plan = p.ops /\ report.ops = p.ops /\ report.strategy = p.strategy
  BY <1>0 DEF Proposed, HealFields
<1> HIDE DEF report
<1>5. /\ late.request = s.request /\ late.t = s.t /\ late.source = s.source
      /\ late.plan = p.ops /\ late.ops = p.ops /\ late.strategy = p.strategy /\ late.pc = "record"
  BY <1>4 DEF HealFields
<1>a. /\ next.request = s.request /\ next.t = s.t /\ next.source = s.source
      /\ next.plan = p.ops /\ next.ops = p.ops /\ next.strategy = p.strategy /\ next.pc = "reproduce"
  BY <1>4 DEF HealFields
<1> HIDE DEF late, next
<1>6. Founded(late) /\ Founded(next)
  BY <1>0, <1>3, <1>5, <1>a, PlannedFounded
<1> QED
  BY <1>0, <1>2, <1>5, <1>a, <1>6, SetGrounded

\* A fallback lists its own patch only once it has been tried.
LEMMA FallbackGrounded ==
  ASSUME HealsTyped, Grounded, NEW h \in Heals, Fallback(h)
  PROVE  \A o \in Heals : (Founded(heals[o]))' /\ Filed(o)'
<1> DEFINE s == heals[h]
<1>0. DOMAIN s = HealFields /\ Founded(s) /\ UNCHANGED patches
  BY DEF HealsTyped, Shaped, Grounded, Fallback
<1>1. PICK answer \in Answers :
        LET d == Diagnose(s.t, s.request.log, answer)
            p == Planned(d, s.t, s.source, None)
        IN  Set(h, IF p.ops = <<>> THEN [s EXCEPT !.pc = "record"]
                   ELSE IF p.ops = s.ops
                   THEN [s EXCEPT !.strategy = p.strategy, !.plan = p.ops, !.pc = "record"]
                   ELSE [s EXCEPT !.second = TRUE, !.strategy = p.strategy, !.plan = p.ops,
                           !.fresh = [cause |-> d.cause, selector |-> d.selector],
                           !.pc = "diff"])
  BY DEF Fallback
<1> DEFINE d == Diagnose(s.t, s.request.log, answer)
           p == Planned(d, s.t, s.source, None)
           last == [s EXCEPT !.pc = "record"]
           same == [s EXCEPT !.strategy = p.strategy, !.plan = p.ops, !.pc = "record"]
           again == [s EXCEPT !.second = TRUE, !.strategy = p.strategy, !.plan = p.ops,
                       !.fresh = [cause |-> d.cause, selector |-> d.selector], !.pc = "diff"]
<1>2. Set(h, last) \/ Set(h, same) \/ Set(h, again)
  BY <1>1
<1> HIDE DEF d
<1>3. /\ Listed(p.ops)
      /\ p.strategy = "testid_selector" => \A op \in Range(p.ops) : Rewrites(op, s.t)
  BY <1>0, PlannedSound DEF Founded
<1> HIDE DEF p
<1>4. Founded(last) /\ last.pc = "record"
  BY <1>0, KeptFounded DEF Kept, HealFields
<1>5. /\ again.request = s.request /\ again.t = s.t /\ again.source = s.source
      /\ again.plan = p.ops /\ again.ops = s.ops /\ again.strategy = p.strategy /\ again.pc = "diff"
  BY <1>0 DEF HealFields
<1>7. /\ same.request = s.request /\ same.t = s.t /\ same.source = s.source
      /\ same.plan = p.ops /\ same.ops = s.ops /\ same.strategy = p.strategy /\ same.pc = "record"
  BY <1>0 DEF HealFields
<1> HIDE DEF again, same, last
<1>6. Founded(again) /\ Founded(same)
  BY <1>0, <1>3, <1>5, <1>7, PlannedFounded
<1> QED
  BY <1>0, <1>2, <1>4, <1>5, <1>6, <1>7, SetGrounded

\* The refs step files the patch the branch is about to get.
LEMMA RefsGrounded ==
  ASSUME HealsTyped, Grounded, NEW h \in Heals, Refs(h)
  PROVE  /\ \A o \in Heals : (Founded(heals[o]))' /\ Filed(o)'
         /\ \A b \in DOMAIN patches' : Listed(patches'[b])
<1> DEFINE s == heals[h]
<1>0. \A o \in Heals : DOMAIN heals[o] = HealFields /\ Founded(heals[o]) /\ Filed(o)
  BY DEF HealsTyped, Shaped, Grounded
<1>1. CASE Go(h, "done") /\ UNCHANGED patches
  <2>1. Founded([s EXCEPT !.pc = "done"]) /\ [s EXCEPT !.pc = "done"].pc = "done"
    BY <1>0, KeptFounded DEF Kept, HealFields
  <2>2. \A o \in Heals : (Founded(heals[o]))' /\ Filed(o)'
    BY <1>1, <2>1, SetGrounded DEF Go
  <2>3. \A b \in DOMAIN patches : Listed(patches[b])
    BY DEF Grounded, ContentsListed
  <2> QED
    BY <1>1, <2>2, <2>3
<1>2. CASE /\ heals' = [o \in Heals |->
                IF o = h THEN [s EXCEPT !.original = git.head, !.start = Tip(git.head),
                                        !.pc = "checkout"]
                ELSE [heals[o] EXCEPT !.disturbed = @ \/ Branch(o) = Branch(h)]]
           /\ patches' = With(patches, Branch(h), s.ops)
  <2>1. Kept(s, heals'[h])
    BY <1>0, <1>2 DEF Kept, HealFields
  <2>2. ASSUME NEW o \in Heals, o # h PROVE Kept(heals[o], heals'[o]) /\ heals'[o].pc = heals[o].pc
    BY <1>0, <1>2, <2>2 DEF Kept, HealFields
  <2>3. DOMAIN patches' = DOMAIN patches \cup {Branch(h)}
        /\ \A b \in DOMAIN patches' : patches'[b] = IF b = Branch(h) THEN s.ops ELSE patches[b]
    BY <1>2 DEF With
  <2>4. \A b \in DOMAIN patches' : Listed(patches'[b])
    BY <1>0, <2>3 DEF Grounded, ContentsListed, Founded
  <2>5. ASSUME NEW o \in Heals PROVE (Founded(heals[o]))' /\ Filed(o)'
    <3>1. Founded(heals'[o])
      BY <1>0, <2>1, <2>2, KeptFounded
    <3>2. (Founded(heals[o]))'
      BY <3>1 DEF Founded
    <3>3. heals'[o].signature = heals[o].signature
      BY <2>1, <2>2 DEF Kept
    <3>4. Filed(o)'
      BY <1>0, <2>2, <2>3, <3>3 DEF Filed, Branch
    <3> QED
      BY <3>2, <3>4
  <2> QED
    BY <2>4, <2>5
<1> QED
  BY <1>1, <1>2 DEF Refs

\* A commit adds its content to a branch and nothing else.
LEMMA AppendHolds ==
  ASSUME NEW s, s \in Seq(Range(s)), \A x \in Range(s) : Listed(x), NEW e, Listed(e)
  PROVE  Append(s, e) # <<>> /\ \A x \in Range(Append(s, e)) : Listed(x)
<1>1. Append(s, e) \in Seq(Range(s) \cup {e}) /\ Len(Append(s, e)) = Len(s) + 1
  <2>1. s \in Seq(Range(s) \cup {e})
    BY SeqMonotonic
  <2> QED
    BY <2>1, AppendProperties
<1>2. Len(s) \in Nat /\ DOMAIN Append(s, e) = 1..Len(Append(s, e))
  BY <1>1
<1>3. \A i \in DOMAIN Append(s, e) : Append(s, e)[i] \in Range(s) \cup {e}
  BY <1>1
<1>4. Len(Append(s, e)) # 0
  BY <1>1, <1>2
<1>5. Append(s, e) # <<>>
  <2> DEFINE a == Append(s, e)
  <2>1. Len(<<>>) = 0
    OBVIOUS
  <2>2. Len(a) # 0
    BY <1>4
  <2> HIDE DEF a
  <2>3. a # <<>>
    BY <2>1, <2>2
  <2> QED
    BY <2>3 DEF a
<1> QED
  BY <1>3, <1>5 DEF Range

\* The tip of a branch is one of its contents.
LEMMA TipListed ==
  ASSUME GitTyped, GitListed, NEW b \in DOMAIN git.branches
  PROVE  Listed(Tip(b))
<1> DEFINE s == git.branches[b]
<1>1. s # <<>> /\ s \in Seq(Range(s)) /\ \A x \in Range(s) : Listed(x)
  BY DEF GitTyped, GitListed
<1>2. Len(s) \in Nat /\ DOMAIN s = 1..Len(s) /\ Len(s) # 0
  BY <1>1
<1>3. Len(s) \in DOMAIN s
  BY <1>2
<1> QED
  BY <1>1, <1>3 DEF Tip, Last, Range

\* What the repository holds are texts, whatever the git flow and the user do to it.
LEMMA GitListedInductive ==
  ASSUME HealsTyped, GitTyped, Grounded, [HealerNext]_vars
  PROVE  GitListed'
<1>0. GitListed /\ (\A b \in DOMAIN patches : Listed(patches[b]))
  BY DEF Grounded, ContentsListed
<1>a. git' = git => GitListed'
  BY <1>0 DEF GitListed
<1>b. ASSUME NEW h \in Heals, git' = Checkout(h) PROVE GitListed'
  <2>1. /\ git'.tree = git.tree /\ git'.index = git.index
        /\ DOMAIN git'.branches = DOMAIN git.branches \cup {Branch(h)}
        /\ git'.branches[Branch(h)] = git.branches[git.head]
        /\ \A b \in DOMAIN git.branches : b # Branch(h) => git'.branches[b] = git.branches[b]
    BY <1>b, CheckoutGit
  <2>2. git.head \in DOMAIN git.branches
    BY DEF GitTyped
  <2>3. \A b \in DOMAIN git'.branches : \E c \in DOMAIN git.branches : git'.branches[b] = git.branches[c]
    BY <2>1, <2>2
  <2> QED
    BY <1>0, <2>1, <2>3 DEF GitListed
<1>c. ASSUME NEW h \in Heals, git' = Applying(h), Branch(h) \in DOMAIN patches PROVE GitListed'
  <2>1. Listed(Applied(git.tree, patches[Branch(h)]).src)
    BY <1>0, <1>c, AppliedListed DEF GitListed
  <2> QED
    BY <1>0, <1>c, <2>1, ApplyingGit DEF GitListed
<1>d. ASSUME git' = Committing PROVE GitListed'
  <2>1. git'.branches = [git.branches EXCEPT ![git.head] = Append(@, git.index)]
    BY <1>d DEF Committing, GitTyped
  <2>2. git.head \in DOMAIN git.branches
    BY DEF GitTyped
  <2>3. git'.branches[git.head] = Append(git.branches[git.head], git.index)
    BY <2>1, <2>2
  <2>4. git'.branches[git.head] # <<>> /\ \A x \in Range(git'.branches[git.head]) : Listed(x)
    BY <1>0, <2>2, <2>3, AppendHolds DEF GitListed, GitTyped
  <2> QED
    BY <1>0, <1>d, <2>4, CommittingGit DEF GitListed
<1>e. ASSUME NEW branch \in DOMAIN git.branches,
             git' = [git EXCEPT !.head = branch, !.tree = Tip(branch), !.index = Tip(branch)]
      PROVE  GitListed'
  BY <1>0, <1>e, TipListed, UndoneGit DEF GitListed
<1>f. ASSUME NEW h \in Heals, GitStep(h) PROVE GitListed'
  <2>1. Filed(h)
    BY DEF Grounded
  <2>2. CASE git' = Applying(h) /\ heals[h].pc = "apply"
    BY <1>c, <2>1, <2>2 DEF Filed
  <2>3. CASE git' = Pushing(h)
    BY <1>0, <2>3, PushingGit DEF GitListed
  <2>4. \/ git' = Checkout(h) \/ git' = Committing \/ git' = Pushing(h) \/ git' = git
        \/ git' = Applying(h) /\ heals[h].pc = "apply"
    BY <1>f DEF GitStep, Set, Go, At, Writes
  <2> QED
    BY <1>a, <1>b, <1>d, <2>2, <2>3, <2>4
<1>g. ASSUME NEW h \in Heals, Undo(h) PROVE GitListed'
  BY <1>a, <1>e, <1>g DEF Undo, Writes
<1>h. ASSUME NEW h \in Heals, Drop(h) PROVE GitListed'
  <2>1. \/ git' = git
        \/ /\ Branch(h) # git.head
           /\ git' = [git EXCEPT !.branches = Restrict(@, DOMAIN @ \ {Branch(h)})]
    BY <1>h DEF Drop, Writes
  <2> QED
    BY <1>0, <1>a, <2>1, DroppedGit DEF GitListed
<1>i. ASSUME UserStep PROVE GitListed'
  <2>1. ASSUME NEW edit \in Edits, git' = [git EXCEPT !.tree = edit] PROVE GitListed'
    <3>1. Listed(edit)
      BY HealerAssumption DEF Listed
    <3>2. git'.tree = edit /\ git'.index = git.index /\ git'.branches = git.branches
      BY <2>1 DEF GitTyped
    <3> QED
      BY <1>0, <3>1, <3>2 DEF GitListed
  <2>2. ASSUME git' = [git EXCEPT !.index = git.tree, !.branches[git.head] = Append(@, git.tree)]
        PROVE  GitListed'
    <3>1. /\ git'.branches = [git.branches EXCEPT ![git.head] = Append(@, git.tree)]
          /\ git'.index = git.tree /\ git'.tree = git.tree
      BY <2>2 DEF GitTyped
    <3>2. git.head \in DOMAIN git.branches
      BY DEF GitTyped
    <3>3. /\ git'.branches[git.head] = Append(git.branches[git.head], git.tree)
          /\ DOMAIN git'.branches = DOMAIN git.branches
          /\ \A b \in DOMAIN git.branches : b # git.head => git'.branches[b] = git.branches[b]
      BY <3>1, <3>2
    <3>4. git'.branches[git.head] # <<>> /\ \A x \in Range(git'.branches[git.head]) : Listed(x)
      BY <1>0, <3>2, <3>3, AppendHolds DEF GitListed, GitTyped
    <3> QED
      BY <1>0, <3>1, <3>3, <3>4 DEF GitListed
  <2>3. Base \in DOMAIN git.branches
    BY DEF GitTyped
  <2> QED
    BY <1>e, <1>i, <2>1, <2>2, <2>3 DEF UserStep
<1>j. ASSUME NEW h \in Heals,
             \/ Begin(h) \/ Match(h) \/ Stale(h) \/ PlanFix(h) \/ Reproduce(h) \/ ComputeDiff(h)
             \/ BurnRun(h) \/ Bump(h) \/ Fallback(h) \/ Persist(h) \/ Record(h)
             \/ Status(h) \/ Refs(h) \/ GitFails(h)
      PROVE  git' = git
  BY <1>j DEF Begin, Match, Stale, PlanFix, Reproduce, ComputeDiff, BurnRun, Bump, Fallback,
     Persist, Record, Status, Refs, GitFails
<1>k. ASSUME Over \/ UNCHANGED vars PROVE git' = git
  BY <1>k DEF Over, vars
<1> QED
  BY <1>a, <1>f, <1>g, <1>h, <1>i, <1>j, <1>k DEF HealerNext

\* Every report and the repository keep their grounds.
LEMMA GroundedInductive ==
  ASSUME HealsTyped, GitTyped, Grounded, [HealerNext]_vars
  PROVE  Grounded'
<1>0. GitListed'
  BY GitListedInductive
<1>1. ASSUME \A o \in Heals : (Founded(heals[o]))' /\ Filed(o)', UNCHANGED patches
      PROVE  Grounded'
  BY <1>0, <1>1 DEF Grounded, ContentsListed
<1>2. Rests => Grounded'
  BY <1>1, RestsGrounded DEF Rests
<1>3. ASSUME NEW h \in Heals, HealStep(h) PROVE Grounded'
  <2>1. CASE Begin(h) \/ Match(h) \/ PlanFix(h) \/ Fallback(h)
    <3>1. UNCHANGED patches
      BY <2>1 DEF Begin, Match, PlanFix, Fallback
    <3> QED
      BY <1>1, <2>1, <3>1, BeginGrounded, MatchGrounded, PlanFixGrounded, FallbackGrounded
  <2>2. CASE Refs(h)
    BY <1>0, <2>2, RefsGrounded DEF Grounded, ContentsListed
  <2> QED
    BY <1>2, <1>3, <2>1, <2>2, MostRest DEF HealStep
<1>4. ASSUME UserStep PROVE Grounded'
  <2>1. \A o \in Heals : DOMAIN heals[o] = HealFields
    BY DEF HealsTyped, Shaped
  <2>2. \A o \in Heals : heals'[o] = [heals[o] EXCEPT !.disturbed = TRUE]
    BY <1>4 DEF UserStep
  <2>3. Rests
    BY <1>4, <2>1, <2>2 DEF UserStep, Rests, Kept, HealFields
  <2> QED
    BY <1>2, <2>3
<1>5. ASSUME UNCHANGED vars PROVE Grounded'
  <2>1. Rests
    BY <1>5 DEF vars, Rests, Kept
  <2> QED
    BY <1>2, <2>1
<1> QED
  BY <1>3, <1>4, <1>5 DEF HealerNext, HealStep, Over

\* The first contents are texts, and a report of no heal rests on nothing.
LEMMA GroundedInit == HealerInit => Grounded
<1> SUFFICES ASSUME HealerInit PROVE Grounded
  OBVIOUS
<1>1. GitListed
  <2>1. PICK s \in Sources :
          LET main == [b \in {Base} |-> <<s>>]
          IN  git = [tree |-> s, index |-> s, head |-> Base, branches |-> main, remote |-> main]
    BY DEF HealerInit
  <2>2. git.tree = s /\ git.index = s /\ git.branches = [b \in {Base} |-> <<s>>]
    BY <2>1
  <2>3. Listed(s)
    BY HealerAssumption DEF Listed
  <2>4. <<s>> # <<>> /\ Range(<<s>>) = {s}
    BY DEF Range
  <2> QED
    BY <2>2, <2>3, <2>4 DEF GitListed
<1>2. \A b \in DOMAIN patches : Listed(patches[b])
  BY DEF HealerInit
<1>3. Founded(NoReport)
  <2>1. ~NoReport.t.trace
    BY NoReportFields
  <2>2. Listed(<<>>)
    BY DEF Listed, Range
  <2>3. /\ NoReport.source = <<>> /\ NoReport.plan = <<>> /\ NoReport.ops = <<>>
        /\ NoReport.strategy # "testid_selector"
    BY DEF NoReport, None
  <2> QED
    BY <2>1, <2>2, <2>3 DEF Founded
<1>4. \A h \in Heals : Founded(heals[h]) /\ Filed(h)
  BY <1>3, NoReportFields DEF HealerInit, Filed
<1> QED
  BY <1>1, <1>2, <1>4 DEF Grounded, ContentsListed

\* A locator is rewritten to a test id only on proof in the trace.
THEOREM RewritesProven == HealerSpec => []RewriteProved
<1>1. Grounded => RewriteProved
  <2> SUFFICES ASSUME Grounded, NEW h \in Heals, heals[h].strategy = "testid_selector",
                      NEW op \in Range(heals[h].plan)
               PROVE  LET s == heals[h]
                          tr == s.request.trace
                      IN  /\ op.new = ByTestid(op.anchor, s.t.testid)
                          /\ Cardinality(FirstPlaces(tr)) <= MaxDomKeys
                               => Proves(tr, op.anchor.selector.id, s.t.testid)
    BY DEF RewriteProved
  <2> DEFINE s == heals[h]
             tr == s.request.trace
  <2>1. Founded(s) /\ Rewrites(op, s.t)
    BY DEF Grounded, Founded
  <2>2. /\ s.t.testid # None /\ op.anchor.selector = s.t.selector /\ s.t = Summary(tr)
        /\ s.request \in Requests /\ op.new = ByTestid(op.anchor, s.t.testid)
    BY <2>1 DEF Founded, Rewrites
  <2>3. TraceListed(tr)
    BY <2>2, HealerAssumption DEF TraceListed, Listed
  <2> HIDE DEF s
  <2>4. s.t.testid = TestidOnTarget(tr, op.anchor.selector)
    BY <2>2, SummaryTestid
  <2>5. Cardinality(FirstPlaces(tr)) <= MaxDomKeys => Proves(tr, op.anchor.selector.id, s.t.testid)
    BY <2>2, <2>3, <2>4, TestidProven
  <2> QED
    BY <2>2, <2>5 DEF s
<1>2. Grounded /\ HealerInv /\ HealerInv' /\ [HealerNext]_vars => Grounded'
  BY GroundedInductive DEF HealerInv, Typed
<1> QED
  BY <1>1, <1>2, GroundedInit, HealerInvariance, PTL DEF HealerSpec

=============================================================================
