-------------------------------- MODULE Healer --------------------------------
(***************************************************************************)
(* heal_flaky_test (healer/handlers.py, flaky_healer/healer.py): a recipe  *)
(* or a diagnosis gives a patch, the patch is burned in on copies of the   *)
(* project, the outcome is booked in the recipe store, and a stable heal   *)
(* in mode "pr" goes through the git flow (gitflow.py).  Several heals     *)
(* share one repository, one recipe store and one patch directory with a   *)
(* user who edits, commits and switches branches in between.               *)
(*                                                                         *)
(* The project is one spec file.  A branch is the sequence of the file's   *)
(* committed contents; tree and index are its working and staged contents. *)
(***************************************************************************)
EXTENDS Diagnosis, Functions

CONSTANTS Heals,          \* slots of heals that may run at the same time
          Requests,       \* [trace, log, override, mode, isolation, parallel, spec]
          Answers,        \* what the language model may answer
          Sources,        \* the first contents of the spec file
          Edits,          \* what the user may make of it
          RecipeStores,   \* the recipe stores a run may start from
          Repeats,        \* config.burnin()'s number of burn-in runs
          AllowSubprocessPr,
          MaxHeals, MaxTrouble, MaxUser       \* bounds: heals, failures, user steps

ASSUME HealerAssumption ==
  /\ Repeats \in Nat \ {0}
  /\ {MaxHeals, MaxTrouble, MaxUser} \subseteq Nat
  /\ AllowSubprocessPr \in BOOLEAN
  /\ \A store \in RecipeStores : \A g \in DOMAIN store :
       /\ ~IsDegenerate(g)
       /\ DOMAIN store[g] = {"strategy", "ops", "diagnosis", "hits", "successes", "failures"}
       /\ {store[g].hits, store[g].successes, store[g].failures} \subseteq Nat
       /\ store[g].hits = store[g].successes + store[g].failures
  /\ \A text \in Sources \cup Edits : text \in Seq(Range(text))
  /\ \A request \in Requests :
       LET tr == request.trace
       IN  /\ tr \in Seq(Range(tr))
           /\ \A i \in {i \in DOMAIN tr : tr[i].kind = "frame-snapshot"} :
                /\ tr[i].elements \in Seq(Range(tr[i].elements))
                /\ \A e \in Range(tr[i].elements) : e = [id |-> e.id, testid |-> e.testid]

VARIABLES heals,      \* the report and the progress of each heal
          recipes,    \* the recipes table, by signature
          rows,       \* the healer_runs table
          git,        \* [tree, index, head, branches, remote]
          patches,    \* the patch files, by branch
          left,       \* what is left of the bounds
          earned      \* ghost: signature, strategy and ops of each green burn-in

vars == <<heals, recipes, rows, git, patches, left, earned>>

NoParts == PartsOfTrace(NoTrace)
NoDiagnosis == [cause |-> None, selector |-> NoSelector]
Base == <<"main", NoParts>>
Tip(branch) == Last(git.branches[branch])

\* No heal asks for this.
NoRequest == [trace |-> <<>>, log |-> [selector |-> NoSelector, message |-> ""], override |-> None,
              mode |-> None, isolation |-> None, parallel |-> FALSE, spec |-> None]

NoReport ==
  [pc |-> "idle", request |-> NoRequest, t |-> NoTrace, source |-> <<>>,
   signature |-> NoParts, recipe |-> NoParts, used |-> FALSE, strategy |-> None,
   diagnosis |-> NoDiagnosis, ops |-> <<>>, fresh |-> NoDiagnosis, plan |-> <<>>,
   second |-> FALSE, diff |-> <<>>, trial |-> <<>>, copy |-> <<>>, runs |-> 0,
   green |-> TRUE, tested |-> {}, stable |-> FALSE, error |-> FALSE,
   original |-> Base, start |-> <<>>, cleaned |-> TRUE, failed |-> FALSE,
   pushed |-> <<>>, disturbed |-> FALSE]

\* A table with one entry added or replaced.
With(table, key, entry) ==
  [x \in DOMAIN table \cup {key} |-> IF x = key THEN entry ELSE table[x]]

Set(h, report) == heals' = [heals EXCEPT ![h] = report]
Go(h, pc) == Set(h, [heals[h] EXCEPT !.pc = pc])
Fail(h) == Set(h, [heals[h] EXCEPT !.error = TRUE, !.pc = "record"])
At(h, pc) == heals[h].pc = pc
Trouble == left.trouble > 0 /\ left' = [left EXCEPT !.trouble = @ - 1]
Calm == UNCHANGED left
Branch(h) == <<"fix", heals[h].signature>>

HealerInit ==
  /\ heals = [h \in Heals |-> NoReport]
  /\ recipes \in RecipeStores
  /\ rows = {}
  /\ \E s \in Sources :
       LET main == [b \in {Base} |-> <<s>>]
       IN  git = [tree |-> s, index |-> s, head |-> Base, branches |-> main, remote |-> main]
  /\ patches = <<>>
  /\ left = [heals |-> MaxHeals, trouble |-> MaxTrouble, user |-> MaxUser]
  /\ earned = {[signature |-> g, strategy |-> recipes[g].strategy, ops |-> recipes[g].ops] :
                 g \in DOMAIN recipes}

(***************************************************************************)
(* A heal starts: the trace is parsed, the spec resolved, a sandbox made,  *)
(* the spec read.  A spec that is missing or outside the project ends in   *)
(* an error report; a sandbox that cannot be made escapes the handler.     *)
(***************************************************************************)
Begin(h) ==
  /\ heals[h].pc \in {"idle", "done"} /\ left.heals > 0
  /\ \E request \in Requests :
       LET t == IF request.trace = <<>> THEN NoTrace ELSE Summary(request.trace)
           report == [NoReport EXCEPT !.request = request, !.t = t, !.source = git.tree,
                        !.signature = PartsOfTrace(t)]
       IN  Set(h, CASE request.spec = "missing" -> [report EXCEPT !.error = TRUE, !.pc = "record"]
                    [] request.isolation = "unreachable" -> [NoReport EXCEPT !.pc = "done"]
                    [] OTHER -> [report EXCEPT !.pc = "match"])
  /\ left' = [left EXCEPT !.heals = @ - 1]
  /\ UNCHANGED <<recipes, rows, git, patches, earned>>

(***************************************************************************)
(* The matcher: the exact signature, or else the best recipe of the        *)
(* relaxed key.  Recipes created in the same second tie.                   *)
(***************************************************************************)
Matches(parts) ==
  LET like == {g \in DOMAIN recipes : RelaxedKey(g) = RelaxedKey(parts)}
      beats(a, b) == \/ recipes[a].successes > recipes[b].successes
                     \/ /\ recipes[a].successes = recipes[b].successes
                        /\ recipes[a].failures < recipes[b].failures
  IN  CASE IsDegenerate(parts) -> {}
        [] ~IsDegenerate(parts) /\ parts \in DOMAIN recipes -> {parts}
        [] OTHER -> {g \in like : \A o \in like : ~beats(o, g)}

\* The report of a heal that has ops to try.
Proposed(s, diagnosis, strategy, ops) ==
  [s EXCEPT !.strategy = strategy, !.diagnosis = diagnosis, !.ops = ops,
            !.fresh = diagnosis, !.plan = ops]

Match(h) ==
  LET s == heals[h]
      found == IF s.request.trace = <<>> \/ s.request.override # None THEN {}
               ELSE Matches(PartsOfTrace(s.t))
  IN  /\ At(h, "match")
      /\ IF found = {} THEN Go(h, "plan")
         ELSE \E g \in found :
                LET ops == Plan(recipes[g].strategy, s.source, recipes[g].diagnosis, s.t)
                IN  Set(h, IF ops = <<>> THEN [s EXCEPT !.recipe = g, !.pc = "stale"]
                           ELSE [Proposed([s EXCEPT !.recipe = g, !.used = TRUE],
                                   recipes[g].diagnosis, recipes[g].strategy, ops)
                                 EXCEPT !.pc = "reproduce"])
      /\ UNCHANGED <<recipes, rows, git, patches, left, earned>>

\* Mutant: the hit is left to the callers that go on to a burn-in.
CountedWithoutHit(g, success) ==
  [recipes EXCEPT ![g].successes = @ + (IF success THEN 1 ELSE 0),
                  ![g].failures = @ + (IF success THEN 0 ELSE 1)]

Counted(g, success) ==
  [recipes EXCEPT ![g].hits = @ + 1, ![g].successes = @ + (IF success THEN 1 ELSE 0),
                  ![g].failures = @ + (IF success THEN 0 ELSE 1)]

\* A recipe that cannot be instantiated in this source is charged a failure.
Stale(h) ==
  /\ At(h, "stale")
  /\ recipes' = Counted(heals[h].recipe, FALSE)
  /\ Go(h, "plan")
  /\ UNCHANGED <<rows, git, patches, left, earned>>

(***************************************************************************)
(* The diagnosis path: no strategy with a patch is an error report.  A     *)
(* heal without a trace takes its signature from the diagnosis.            *)
(***************************************************************************)
PlanFix(h) ==
  LET s == heals[h]
  IN  /\ At(h, "plan")
      /\ \E answer \in Answers :
           LET d == Diagnose(s.t, s.request.log, answer)
               p == Planned(d, s.t, s.source, s.request.override)
               said == [NoParts EXCEPT !.message = d.cause,
                          !.selector = <<d.selector.form, d.selector.id.shape>>]
               report == Proposed([s EXCEPT !.signature = IF s.t.trace THEN @ ELSE said],
                                  [cause |-> d.cause, selector |-> d.selector], p.strategy, p.ops)
           IN  Set(h, IF p.ops = <<>> THEN [report EXCEPT !.error = TRUE, !.pc = "record"]
                      ELSE [report EXCEPT !.pc = "reproduce"])
      /\ UNCHANGED <<recipes, rows, git, patches, left, earned>>

\* Whether the flake reproduces only changes a note; a sandbox failure ends the heal.
Reproduce(h) ==
  /\ At(h, "reproduce")
  /\ \/ Go(h, "diff") /\ Calm
     \/ Fail(h) /\ Trouble
  /\ UNCHANGED <<recipes, rows, git, patches, earned>>

\* The diff is computed on the working tree as it is now.
ComputeDiff(h) ==
  LET s == heals[h]
      after == Applied(git.tree, s.plan)
  IN  /\ At(h, "diff")
      /\ IF after.ok
         THEN Set(h, [s EXCEPT !.trial = <<git.tree, after.src>>, !.runs = 0,
                        !.green = TRUE, !.tested = {}, !.pc = "burn"])
         ELSE Fail(h)
      /\ UNCHANGED <<recipes, rows, git, patches, left, earned>>

(***************************************************************************)
(* A burn-in makes one copy of the project and patches it, or one per run  *)
(* when runs are concurrent.  A copy the ops no longer fit and a sandbox   *)
(* that breaks end the heal; a run that fails or times out counts.         *)
(***************************************************************************)
\* Mutant: the recipe is stored before the outcome is looked at.
BurnedInStoresFirst(s) ==
  [s EXCEPT !.diff = s.trial, !.stable = s.green, !.diagnosis = s.fresh, !.ops = s.plan,
            !.used = s.used /\ ~s.second,
            !.pc = CASE s.used /\ ~s.second -> "bump"
                     [] ~(s.used /\ ~s.second) /\ s.t.trace -> "persist"
                     [] OTHER -> "record"]

\* Mutant: the fallback forgets that the report still lists the recipe's ops.
BurnedInOldOps(s) ==
  [s EXCEPT !.diff = s.trial, !.stable = s.green, !.diagnosis = s.fresh,
            !.used = s.used /\ ~s.second,
            !.pc = CASE s.used /\ ~s.second -> "bump"
                     [] ~(s.used /\ ~s.second) /\ s.green /\ s.t.trace -> "persist"
                     [] OTHER -> "record"]

BurnedIn(s) ==
  [s EXCEPT !.diff = s.trial, !.stable = s.green, !.diagnosis = s.fresh, !.ops = s.plan,
            !.used = s.used /\ ~s.second,
            !.pc = CASE s.used /\ ~s.second -> "bump"
                     [] ~(s.used /\ ~s.second) /\ s.green /\ s.t.trace -> "persist"
                     [] OTHER -> "record"]

BurnRun(h) ==
  LET s == heals[h]
      ownCopy == s.runs = 0 \/ s.request.parallel
      work == IF ownCopy THEN Applied(git.tree, s.plan) ELSE [ok |-> TRUE, src |-> s.copy]
  IN  /\ At(h, "burn")
      /\ \/ ~work.ok /\ Fail(h) /\ Calm /\ UNCHANGED earned
         \/ work.ok /\ Fail(h) /\ Trouble /\ UNCHANGED earned
         \/ /\ work.ok /\ Calm
            /\ \E passed \in BOOLEAN :
                 LET ran == [s EXCEPT !.copy = work.src, !.runs = @ + 1,
                               !.tested = @ \cup {work.src}, !.green = @ /\ passed]
                     over == ran.runs = Repeats
                 IN  /\ Set(h, IF over THEN BurnedIn(ran) ELSE ran)
                     /\ earned' = IF over /\ ran.green
                                  THEN earned \cup {[signature |-> s.signature,
                                                    strategy |-> s.strategy, ops |-> s.plan]}
                                  ELSE earned
      /\ UNCHANGED <<recipes, rows, git, patches>>

\* A used recipe is charged with its outcome; one that failed is not the last word.
Bump(h) ==
  /\ At(h, "bump")
  /\ recipes' = Counted(heals[h].recipe, heals[h].stable)
  /\ Go(h, IF heals[h].stable THEN "record" ELSE "fallback")
  /\ UNCHANGED <<rows, git, patches, left, earned>>

\* One fresh diagnosis; no patch, or the same patch, keeps the failed result, but for
\* the name of the strategy that made the patch.
Fallback(h) ==
  LET s == heals[h]
  IN  /\ At(h, "fallback")
      /\ \E answer \in Answers :
           LET d == Diagnose(s.t, s.request.log, answer)
               p == Planned(d, s.t, s.source, None)
           IN  Set(h, IF p.ops = <<>> THEN [s EXCEPT !.pc = "record"]
                      ELSE IF p.ops = s.ops
                      THEN [s EXCEPT !.strategy = p.strategy, !.plan = p.ops, !.pc = "record"]
                      ELSE [s EXCEPT !.second = TRUE, !.strategy = p.strategy, !.plan = p.ops,
                              !.fresh = [cause |-> d.cause, selector |-> d.selector],
                              !.pc = "diff"])
      /\ UNCHANGED <<recipes, rows, git, patches, left, earned>>

(***************************************************************************)
(* The procedure that went green becomes the recipe of its signature; a    *)
(* body that differs from the stored one starts its counters anew.         *)
(***************************************************************************)
Upserted(g, strategy, ops, diagnosis) ==
  LET same == g \in DOMAIN recipes /\ recipes[g].strategy = strategy /\ recipes[g].ops = ops
      count(field) == IF same THEN recipes[g][field] ELSE 0
  IN  With(recipes, g,
           [strategy |-> strategy, ops |-> ops, diagnosis |-> diagnosis, hits |-> count("hits"),
            successes |-> count("successes"), failures |-> count("failures")])

Persist(h) ==
  LET s == heals[h]
      parts == PartsOfTrace(s.t)
  IN  /\ At(h, "persist")
      /\ recipes' = IF IsDegenerate(parts) THEN recipes
                    ELSE Upserted(s.signature, s.strategy, s.ops, s.diagnosis)
      /\ Go(h, "record")
      /\ UNCHANGED <<rows, git, patches, left, earned>>

(***************************************************************************)
(* Every report becomes a row, unless the write fails; only a stable,      *)
(* non-empty, properly isolated one goes on to a pull request.             *)
(***************************************************************************)
\* Mutant: any report without an error is published.
MayPublishUnstable(s) ==
  /\ ~s.error
  /\ s.diff[1] # s.diff[2]
  /\ s.request.isolation = "docker" \/ AllowSubprocessPr

MayPublish(s) ==
  /\ ~s.error /\ s.stable
  /\ s.diff[1] # s.diff[2]
  /\ s.request.isolation = "docker" \/ AllowSubprocessPr

Record(h) ==
  LET s == heals[h]
      row == [strategy |-> s.strategy, signature |-> s.signature,
              result |-> CASE s.stable -> "stable"
                           [] ~s.stable /\ s.error -> "error"
                           [] OTHER -> "unstable"]
  IN  /\ At(h, "record")
      /\ Go(h, IF s.request.mode = "pr" /\ MayPublish(s) THEN "status" ELSE "done")
      /\ \/ rows' = rows \cup {row} /\ Calm
         \/ rows' = rows /\ Trouble
      /\ UNCHANGED <<recipes, git, patches, earned>>

(***************************************************************************)
(* The git flow.  Every dispatch may be denied or fail.  The two preflight *)
(* reads come first; a failure there leaves the repository alone.  Writing *)
(* the repository disturbs the other heals.                                *)
(***************************************************************************)
Writes(h, pc, change) ==
  /\ git' = change
  /\ heals' = [o \in Heals |->
       IF o = h THEN [heals[o] EXCEPT !.pc = pc] ELSE [heals[o] EXCEPT !.disturbed = TRUE]]

Status(h) ==
  /\ At(h, "status")
  /\ \/ Go(h, IF git.tree = git.index /\ git.index = Tip(git.head) THEN "refs" ELSE "done") /\ Calm
     \/ Go(h, "done") /\ Trouble
  /\ UNCHANGED <<recipes, rows, git, patches, earned>>

Refs(h) ==
  LET s == heals[h]
  IN  /\ At(h, "refs")
      /\ \/ /\ heals' = [o \in Heals |->
                 IF o = h THEN [s EXCEPT !.original = git.head, !.start = Tip(git.head),
                                         !.pc = "checkout"]
                 ELSE [heals[o] EXCEPT !.disturbed = @ \/ Branch(o) = Branch(h)]]
            /\ patches' = With(patches, Branch(h), s.ops)
            /\ Calm
         \/ Go(h, "done") /\ Trouble /\ UNCHANGED patches
      /\ UNCHANGED <<recipes, rows, git, earned>>

\* checkout -B cuts the fix branch from the current HEAD, or resets it there.
Checkout(h) ==
  [git EXCEPT !.branches = With(@, Branch(h), git.branches[git.head]), !.head = Branch(h)]

\* What each write does to the repository, where it can be done.
Applying(h) ==
  [git EXCEPT !.tree = Applied(git.tree, patches[Branch(h)]).src,
              !.index = Applied(git.tree, patches[Branch(h)]).src]
Committing == [git EXCEPT !.branches[git.head] = Append(@, git.index)]
Pushing(h) == [git EXCEPT !.remote = With(@, Branch(h), git.branches[Branch(h)])]

CanDo(h) ==
  CASE At(h, "apply") -> git.tree = git.index /\ Applied(git.tree, patches[Branch(h)]).ok
    [] At(h, "commit") -> git.index # Tip(git.head)
    [] At(h, "push") -> /\ Branch(h) \in DOMAIN git.branches
                        /\ Branch(h) \in DOMAIN git.remote
                             => IsPrefix(git.remote[Branch(h)], git.branches[Branch(h)])
    [] OTHER -> TRUE

GitStep(h) ==
  LET s == heals[h]
  IN  /\ s.pc \in {"checkout", "apply", "commit", "push", "pr"} /\ CanDo(h)
      /\ CASE At(h, "checkout") -> Writes(h, "apply", Checkout(h))
           [] At(h, "apply") -> Writes(h, "commit", Applying(h))
           [] At(h, "commit") -> Writes(h, "push", Committing)
           [] At(h, "push") -> /\ git' = Pushing(h)
                               /\ Set(h, [s EXCEPT !.pushed = Tip(Branch(h)), !.pc = "pr"])
           [] At(h, "pr") -> Go(h, "done") /\ UNCHANGED git
      /\ UNCHANGED <<recipes, rows, patches, left, earned>>

GitFails(h) ==
  /\ heals[h].pc \in {"checkout", "apply", "commit", "push", "pr"}
  /\ \/ ~CanDo(h) /\ Calm
     \/ CanDo(h) /\ Trouble
  /\ Set(h, [heals[h] EXCEPT !.failed = TRUE, !.pc = "undo"])
  /\ UNCHANGED <<recipes, rows, git, patches, earned>>

(***************************************************************************)
(* The cleanup, each step best effort: force the original branch back into *)
(* the tree, then delete the fix branch, which git refuses when it is the  *)
(* one checked out.                                                        *)
(***************************************************************************)
\* Mutant: the cleanup goes back to the base branch.
UndoToBase(h) ==
  /\ At(h, "undo")
  /\ \/ /\ Calm
        /\ Writes(h, "drop", [git EXCEPT !.head = Base, !.tree = Tip(Base), !.index = Tip(Base)])
     \/ /\ Trouble /\ UNCHANGED git
        /\ Set(h, [heals[h] EXCEPT !.cleaned = FALSE, !.pc = "drop"])
  /\ UNCHANGED <<recipes, rows, patches, earned>>

Undo(h) ==
  LET s == heals[h]
      back == Tip(s.original)
  IN  /\ At(h, "undo")
      /\ \/ /\ s.original \in DOMAIN git.branches
            /\ Writes(h, "drop", [git EXCEPT !.head = s.original, !.tree = back, !.index = back])
            /\ Calm
         \/ /\ Set(h, [s EXCEPT !.cleaned = FALSE, !.pc = "drop"]) /\ UNCHANGED git
            /\ IF s.original \in DOMAIN git.branches THEN Trouble ELSE Calm
      /\ UNCHANGED <<recipes, rows, patches, earned>>

Drop(h) ==
  LET s == heals[h]
      may == Branch(h) # git.head /\ Branch(h) \in DOMAIN git.branches
  IN  /\ At(h, "drop")
      /\ \/ /\ may /\ Calm
            /\ Writes(h, "done", [git EXCEPT !.branches =
                                    Restrict(@, DOMAIN @ \ {Branch(h)})])
         \/ /\ ~may /\ Calm /\ Go(h, "done") /\ UNCHANGED git
         \/ /\ may /\ Trouble /\ UNCHANGED git
            /\ Set(h, [s EXCEPT !.cleaned = FALSE, !.pc = "done"])
      /\ UNCHANGED <<recipes, rows, patches, earned>>

(***************************************************************************)
(* The user, at any time.                                                  *)
(***************************************************************************)
UserStep ==
  /\ left.user > 0 /\ left' = [left EXCEPT !.user = @ - 1]
  /\ \/ \E edit \in Edits \ {git.tree} : git' = [git EXCEPT !.tree = edit]
     \/ /\ git.tree # Tip(git.head)
        /\ git' = [git EXCEPT !.index = git.tree, !.branches[git.head] = Append(@, git.tree)]
     \/ /\ git.head # Base /\ git.tree = git.index /\ git.index = Tip(git.head)
        /\ git' = [git EXCEPT !.head = Base, !.tree = Tip(Base), !.index = Tip(Base)]
  /\ heals' = [h \in Heals |-> [heals[h] EXCEPT !.disturbed = TRUE]]
  /\ UNCHANGED <<recipes, rows, patches, earned>>

\* Nothing is left to happen: every heal has returned.
Over ==
  /\ \A h \in Heals : heals[h].pc \in {"idle", "done"}
  /\ UNCHANGED vars

HealerNext ==
  \/ \E h \in Heals :
       \/ Begin(h) \/ Match(h) \/ Stale(h) \/ PlanFix(h) \/ Reproduce(h) \/ ComputeDiff(h)
       \/ BurnRun(h) \/ Bump(h) \/ Fallback(h) \/ Persist(h) \/ Record(h)
       \/ Status(h) \/ Refs(h) \/ GitStep(h) \/ GitFails(h) \/ Undo(h) \/ Drop(h)
  \/ UserStep \/ Over

HealerSpec == HealerInit /\ [][HealerNext]_vars

-----------------------------------------------------------------------------
(***************************************************************************)
(* Properties.                                                             *)
(***************************************************************************)
PCs == {"idle", "match", "stale", "plan", "reproduce", "diff", "burn", "bump", "fallback",
        "persist", "record", "status", "refs", "checkout", "apply", "commit", "push", "pr",
        "undo", "drop", "done"}

\* The state is well formed: a branch is checked out that exists, and every hit of
\* a recipe is either a success or a failure (store.bump_recipe, upsert_recipe).
HealerTypeOK ==
  /\ \A h \in Heals : heals[h].pc \in PCs /\ heals[h].runs \in 0..Repeats
  /\ git.head \in DOMAIN git.branches /\ Base \in DOMAIN git.branches
  /\ \A g \in DOMAIN recipes :
       recipes[g].hits = recipes[g].successes + recipes[g].failures

\* Whatever the interleaving, fallback or failure, a stored recipe is a procedure
\* that went fully green under its own signature, and never one of a failure that
\* says nothing (_persist_recipe, upsert_recipe).
RecipesEarned ==
  \A g \in DOMAIN recipes :
    /\ ~IsDegenerate(g)
    /\ [signature |-> g, strategy |-> recipes[g].strategy, ops |-> recipes[g].ops] \in earned

\* What a heal pushes is exactly what its burn-in ran green on, unless somebody
\* else wrote the repository or the patch file meanwhile (_pr_flow, the
\* checkout -B of build_dispatches: "burn-in validated the tree as it stands").
PublishedValidated ==
  \A h \in Heals :
    heals[h].pushed # <<>> /\ ~heals[h].disturbed
      => heals[h].stable /\ heals[h].tested = {heals[h].pushed}

PutBack(h) ==
  LET s == heals[h]
  IN  /\ git.head = s.original /\ Tip(git.head) = s.start
      /\ git.tree = s.start /\ git.index = s.start
      /\ Branch(h) \notin DOMAIN git.branches

Restorable(h) ==
  LET s == heals[h] IN At(h, "done") /\ s.failed /\ s.cleaned /\ ~s.disturbed

\* A git flow that failed at any step leaves the user where it found him: branch,
\* commit, tree and staging area, without the fix branch (cleanup_dispatches); when
\* the heal did not start on that very branch.
Restored ==
  \A h \in Heals : Restorable(h) /\ heals[h].original # Branch(h) => PutBack(h)

\* The README's claim, without that exception: "on any failure restores the
\* original ref and deletes the fix branch".
RestoredAlways == \A h \in Heals : Restorable(h) => PutBack(h)

\* A locator is rewritten to a test id only on proof in the trace: that test id is the
\* one the very element has where it is first seen; or the element is never seen, and of
\* its shape all that have a test id where they are first seen have this one
\* (_match_testid_for_selector, TestidSelector); as long as no id is cut off.
Proves(tr, target, testid) ==
  LET first == {ElementAt(tr, p) : p \in FirstPlaces(tr)}
      named == {e \in first : e.id.shape = target.shape /\ e.testid # None}
  IN  \/ [id |-> target, testid |-> testid] \in first
      \/ /\ \A e \in first : e.id # target
         /\ {e.testid : e \in named} = {testid}

RewriteProved ==
  \A h \in Heals :
    LET s == heals[h]
        tr == s.request.trace
    IN  s.strategy = "testid_selector" /\ s.plan # <<>> =>
          \A op \in Range(s.plan) :
            /\ op.new = ByTestid(op.anchor, s.t.testid)
            /\ Cardinality(FirstPlaces(tr)) <= MaxDomKeys
                 => Proves(tr, op.anchor.selector.id, s.t.testid)

\* The ops fit the source and turn it into another.
Turns(before, ops, after) == Applied(before, ops).ok /\ Applied(before, ops).src = after

\* A report that says stable is about the patch it shows: the ops it lists turn
\* the diff's old side into its new one, and that is what ran green; also after
\* a recipe failed and a second patch took its place (HealReport.apply_burnin).
ReportCoherent ==
  \A h \in Heals :
    LET s == heals[h]
    IN  s.stable =>
          /\ Turns(s.diff[1], s.ops, s.diff[2])
          /\ ~s.disturbed => s.tested = {s.diff[2]}
=============================================================================
