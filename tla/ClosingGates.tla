----------------------------- MODULE ClosingGates -----------------------------
(***************************************************************************)
(* The closing gates of package agent (agent/gate.go, finish.go, verify.go, *)
(* repro.go, evidence.go), composed with the review gate, and the turn loop *)
(* around them reduced to what reaches a gate: a solver that mutates the    *)
(* workspace, claims to be done, or is stopped by a budget or a detector.   *)
(*                                                                         *)
(* A model-initiated finish runs gates.finish: fence and scope, completion  *)
(* (require-diff, verify command), repro-first, review.  A stopped run goes *)
(* through gates.upgradeIfVerified, which may rescue it to Answered.  Every *)
(* command a gate executes is a step of its own: the caller's cancel may    *)
(* arrive before, during or after it.                                       *)
(***************************************************************************)
EXTENDS ReviewGate

CONSTANTS
    VerifyOut,    \* what the verify command prints on each tree: "ok" or a fingerprint
    FenceClean,   \* trees whose fenced test files are as at run start
    InScope,      \* trees that change only paths matching DiffScope
    ReproIntact,  \* trees holding the repro file as a declaration would lock it
    ReproGreen,   \* trees on which the repro command passes
    MaxIters,     \* Policy.MaxIter
    MaxFeedback   \* autoVerifyMaxFeedback (2 in the code)

Flags == {"reviewer", "fence", "scope", "requireDiff", "cmd", "soft", "skipBaseline",
          "verifyContinue", "verifyLastRun", "reproFirst", "trustFinish", "abortOnRed"}

ASSUME GateAssumption ==
    /\ VerifyOut \in [Trees -> STRING \ {"timeout", "infra", "error", "skipped", "lastRunFailed"}]
    /\ MaxIters \in Nat \ {0} /\ MaxFeedback \in Nat
    /\ FenceClean \subseteq Trees /\ InScope \subseteq Trees
    /\ ReproIntact \subseteq Trees /\ ReproGreen \subseteq Trees
    /\ BaseTree \in FenceClean /\ BaseTree \in InScope

ASSUME FlagsAssumption == \A p \in Policies : \A f \in Flags : p[f] \in BOOLEAN

Stops    == {"HitCap", "HitBudget", "Killed"}  \* outcomes upgradeIfVerified may rescue
Outcomes == Stops \cup {"none", "Answered", "Unverified", "ScopeViolation", "Canceled", "ProviderErr"}
Evidence == {"none", "passed", "failed", "inconclusive"}
Phases   == {"start", "top", "acting", "safety", "completion", "verify", "reverify", "decide",
             "repro", "answer", "review", "salvage", "upgrade", "done"}

VARIABLES
    phase,    \* where the run is
    iter,     \* the loop's turn counter i
    fin,      \* finishInput: trusted, cont (canContinue), empty (blank answer)
    fail,     \* verifyFinish's answer: outcome ("none" = clean), stop (noContinue)
    kill,     \* the stopping outcome upgradeIfVerified was called with, or "none"
    outcome,  \* RunResult.Outcome, "none" while the run is going
    rescued,  \* RunResult.RescuedFrom
    base,     \* run-start snapshot: known (runBaseTree), measured, red
    grace,    \* baselineGraceUsed
    fed,      \* autoVerifyFeedback
    repro,    \* reproState: "none", "skipped", "validated", "timedOut" (validated, Detail set)
    vlog,     \* the last verifyEvidenceEvent: status, fresh (gen = mutGen), lag (history)
    closing   \* closingVerification: tree (known: its snapshot worked), fresh (gen = mutGen), lag

gateVars == <<phase, iter, fin, fail, kill, outcome, rescued, base, grace, fed,
              repro, vlog, closing>>
vars == <<reviewVars, gateVars>>

(* A record lags when mutGen is still its own and the workspace is not.     *)
NoRecord == [tree |-> BaseTree, known |-> FALSE, fresh |-> FALSE, lag |-> FALSE]
greenRecord(t, known) == [tree |-> t, known |-> known, fresh |-> TRUE, lag |-> FALSE]
Clean    == [outcome |-> "none", stop |-> FALSE]
Failing(o, stop) == [outcome |-> o, stop |-> stop]

-----------------------------------------------------------------------------
(* measureVerifyBaseline and captureRunBaseTree.  A timeout, an environment *)
(* fault or an unstartable command leaves the baseline unmeasured.          *)
newGates ==
    LET tried == pol.cmd /\ ~pol.skipBaseline
        wants == pol.requireDiff \/ pol.reproFirst \/ pol.cmd
    IN  base \in {b \in [known : BOOLEAN, measured : BOOLEAN, red : BOOLEAN] :
                    /\ b.measured => tried
                    /\ b.red = (b.measured /\ VerifyOut[BaseTree] # "ok")
                    /\ b.known => wants
                    /\ pol.requireDiff => b.known}

ClosingInit ==
    /\ ReviewInit
    /\ phase = "start" /\ iter = 1
    /\ fin = [trusted |-> FALSE, cont |-> FALSE, empty |-> FALSE]
    /\ fail = Clean /\ kill = "none" /\ outcome = "none" /\ rescued = "none"
    /\ newGates
    /\ grace = FALSE /\ fed = 0 /\ repro = "none"
    /\ vlog = [status |-> "none", fresh |-> FALSE, lag |-> FALSE] /\ closing = NoRecord

(* The run ends; RunResult.Review is rendered on every exit. *)
end(o) ==
    /\ phase' = "done" /\ outcome' = o
    /\ rv' = [resolvePending(rv, "expired") EXCEPT !.reported = TRUE]
    /\ UNCHANGED <<pol, tree, canceled, stage, claims, next, askTree, preTree, canContinue,
                   decision, verdicts, damaged>>

goto(p) == phase' = p /\ UNCHANGED <<outcome, reviewVars>>

-----------------------------------------------------------------------------
(* redBaselineRefusal stops before any model call, and before the result's   *)
(* review report is armed; otherwise the loop starts.                       *)
redBaselineRefusal ==
    /\ phase = "start"
    /\ IF pol.abortOnRed /\ base.red
       THEN phase' = "done" /\ outcome' = "Unverified" /\ UNCHANGED reviewVars
       ELSE goto("top")
    /\ UNCHANGED <<iter, fin, fail, kill, rescued, base, grace, fed, repro, vlog, closing>>

(* The top of the turn loop: cancel, then the budgets. *)
turnStarts ==
    /\ phase = "top"
    /\ \/ canceled /\ end("Canceled") /\ UNCHANGED kill
       \/ ~canceled /\ kill' = "HitBudget" /\ goto("upgrade")
       \/ ~canceled /\ goto("acting") /\ UNCHANGED kill
    /\ UNCHANGED <<iter, fin, fail, rescued, base, grace, fed, repro, vlog, closing>>

(* A tool call that touches the workspace.                                  *)
acts ==
    /\ phase = "acting"
    /\ tree' \in Trees
    /\ UNCHANGED <<pol, canceled, rv, stage, claims, next, askTree, preTree, canContinue,
                   decision, verdicts, damaged, phase, iter, fin, fail, kill, outcome,
                   rescued, base, grace, fed, repro>>

mutation_keepsEvidence == acts /\ UNCHANGED <<vlog, closing>>

(* A mutating tool call that returns no error raises mutGen: every evidence *)
(* recorded so far goes stale.                                              *)
mutation ==
    /\ acts
    /\ vlog'    = [vlog EXCEPT !.fresh = FALSE, !.lag = FALSE]
    /\ closing' = [closing EXCEPT !.fresh = FALSE, !.lag = FALSE]

(* One that returns an error does not, whatever it did to the workspace: a  *)
(* write that failed half-way, a command whose Exec failed or was canceled. *)
failedCall ==
    /\ acts
    /\ vlog'    = [vlog EXCEPT !.lag = @ \/ (vlog.fresh /\ tree' # tree)]
    /\ closing' = [closing EXCEPT !.lag = @ \/ (closing.fresh /\ tree' # tree)]

(* declare_repro round-trips the workspace through the base tree, uncancelably, *)
(* and locks the file when the command is red there; skip_repro needs no lock.  *)
declareRepro ==
    /\ phase = "acting" /\ pol.reproFirst /\ repro \in {"none", "skipped"}
    /\ base.known /\ ~canceled
    /\ tree \in ReproIntact /\ BaseTree \notin ReproIntact /\ BaseTree \notin ReproGreen
    /\ repro' = "validated"
    /\ UNCHANGED <<reviewVars, phase, iter, fin, fail, kill, outcome, rescued, base, grace,
                   fed, vlog, closing>>

skipRepro ==
    /\ phase = "acting" /\ pol.reproFirst /\ repro \in {"none", "skipped"}
    /\ repro' = "skipped"
    /\ UNCHANGED <<reviewVars, phase, iter, fin, fail, kill, outcome, rescued, base, grace,
                   fed, vlog, closing>>

turnEnds_oneMore ==
    /\ phase = "acting"
    /\ iter' = iter + 1
    /\ IF iter <= MaxIters THEN goto("top") /\ UNCHANGED kill
                           ELSE kill' = "HitCap" /\ goto("upgrade")
    /\ UNCHANGED <<fin, fail, rescued, base, grace, fed, repro, vlog, closing>>

(* The turn ends without a done-signal; after the last one the cap is hit. *)
turnEnds ==
    /\ phase = "acting"
    /\ iter' = iter + 1
    /\ IF iter < MaxIters THEN goto("top") /\ UNCHANGED kill
                          ELSE kill' = "HitCap" /\ goto("upgrade")
    /\ UNCHANGED <<fin, fail, rescued, base, grace, fed, repro, vlog, closing>>

(* Detector kill or context limit; a canceled or failed model call. *)
turnDies ==
    /\ phase = "acting"
    /\ \/ kill' = "Killed" /\ goto("upgrade")
       \/ UNCHANGED kill /\ end(IF canceled THEN "Canceled" ELSE "ProviderErr")
    /\ UNCHANGED <<iter, fin, fail, rescued, base, grace, fed, repro, vlog, closing>>

(* The done-signal: a plain answer or the finish tool. *)
claimDone ==
    /\ phase = "acting"
    /\ \E trusted \in {FALSE, pol.trustFinish}, empty \in BOOLEAN :
          fin' = [trusted |-> trusted, cont |-> iter < MaxIters, empty |-> empty]
    /\ fail' = Clean
    /\ goto("safety")
    /\ UNCHANGED <<iter, kill, rescued, base, grace, fed, repro, vlog, closing>>

(* continueWith: the observation is fed back and the next turn starts. *)
continueWith == phase' = "top" /\ iter' = iter + 1

-----------------------------------------------------------------------------
(* A git snapshot or fence walk runs under gateContext: it may fail on its  *)
(* own, and does once the caller has canceled.                              *)
snapshots == IF canceled THEN {FALSE} ELSE IF IOMayFail THEN BOOLEAN ELSE {TRUE}

fenceCheck == IF ~pol.fence THEN {"clean"}
              ELSE {IF tree \in FenceClean THEN "clean" ELSE "violated"}
                   \cup (IF IOMayFail \/ canceled THEN {"unverifiable"} ELSE {})

scopeCheck == IF ~pol.scope THEN {"clean"}
              ELSE {IF ~ok THEN "unverifiable" ELSE IF tree \in InScope THEN "clean" ELSE "violated" :
                       ok \in snapshots}

unchangedRunTree(ok) == base.known /\ ok /\ tree = BaseTree

requireDiffFails(ok) == pol.requireDiff /\ unchangedRunTree(ok)

(* verifySafety and, for a trusted finish, requireDiffFailure. *)
verifySafety ==
    /\ phase = "safety"
    /\ \E fence \in fenceCheck, scope \in scopeCheck, ok \in snapshots :
         \/ /\ fence # "clean" \/ scope = "unverifiable"
            /\ fail' = Failing("Unverified", TRUE) /\ goto("decide")
         \/ /\ fence = "clean" /\ scope = "violated"
            /\ end("ScopeViolation") /\ UNCHANGED fail
         \/ /\ fence = "clean" /\ scope = "clean"
            /\ IF fin.trusted
               THEN /\ fail' = IF requireDiffFails(ok) THEN Failing("Unverified", TRUE) ELSE Clean
                    /\ goto("decide")
               ELSE UNCHANGED fail /\ goto("completion")
    /\ UNCHANGED <<iter, fin, kill, rescued, base, grace, fed, repro, vlog, closing>>

-----------------------------------------------------------------------------
(* How one execution of the verify command can come out on this tree. *)
verifyRuns == {VerifyOut[tree], "timeout", "infra", "error"}

evidenceOf(out) == CASE out = "ok" -> "passed"
                     [] out \in {"timeout", "infra", "error"} -> "inconclusive"
                     [] OTHER -> "failed"

(* verifyRun appends an event for every execution, never for a skipped one. *)
recordVerify(out) == vlog' = [status |-> evidenceOf(out), fresh |-> TRUE, lag |-> FALSE]

(* The soft gate spends its budget, then accepts; environment faults are    *)
(* accepted at once.                                                        *)
softAccepts(out) == pol.soft /\ (fed + 1 > MaxFeedback \/ out = "infra")

(* The same red as before any change, seen for the second time. *)
unsatisfiable(out) == base.red /\ out = VerifyOut[BaseTree] /\ grace

(* verifyCompletionFailure: what a verify command that printed out means    *)
(* for the finish; out = "ok" is a pass.                                    *)
verifyCompletionFailure(out) ==
    /\ fail' = IF out = "ok" \/ softAccepts(out) THEN Clean
               ELSE Failing("Unverified", \/ out = "timeout" /\ ~pol.soft
                                          \/ out = "infra"
                                          \/ unsatisfiable(out))
    /\ fed' = IF pol.soft /\ out # "ok" THEN fed + 1 ELSE fed
    /\ grace' = (grace \/ (/\ base.red /\ out = VerifyOut[BaseTree] /\ ~softAccepts(out)))

verifyCompletion_unchangedIsGreen ==
    /\ phase = "completion"
    /\ \E ok \in snapshots :
         IF unchangedRunTree(ok) THEN fail' = Clean /\ goto("decide")
                                 ELSE UNCHANGED fail /\ goto("verify")
    /\ UNCHANGED <<iter, fin, kill, rescued, base, grace, fed, repro, vlog, closing>>

(* verifyCompletion before the command: require-diff, then the unchanged    *)
(* tree, whose verdict the baseline (or the soft gate's probe) already is.  *)
verifyCompletion ==
    /\ phase = "completion"
    /\ \E diffOk, skipOk \in snapshots :
         LET decided == /\ pol.soft \/ (~pol.skipBaseline /\ base.measured)
                        /\ unchangedRunTree(skipOk)
         IN \/ /\ requireDiffFails(diffOk)
               /\ fail' = Failing("Unverified", TRUE)
               /\ goto("decide") /\ UNCHANGED <<fed, grace>>
            \/ /\ ~requireDiffFails(diffOk) /\ decided
               /\ verifyCompletionFailure(IF base.red THEN VerifyOut[BaseTree] ELSE "ok")
               /\ goto("decide")
            \/ /\ ~requireDiffFails(diffOk) /\ ~decided
               /\ goto("verify") /\ UNCHANGED <<fail, fed, grace>>
    /\ UNCHANGED <<iter, fin, kill, rescued, base, repro, vlog, closing>>

(* verifyTermination's verdict on the last execution. *)
verdictOn(out) ==
    /\ verifyCompletionFailure(out)
    /\ \E ok \in snapshots :
          closing' = IF out = "ok" /\ pol.cmd THEN greenRecord(tree, ok) ELSE closing
    /\ goto("decide")

(* No command: the VerifyLastRun heuristic, on whatever the last run was.   *)
(* A canceled caller skips the command and stays unconfirmed.               *)
verifyTermination ==
    /\ phase = "verify" /\ kill = "none"
    /\ \/ /\ ~pol.cmd
          /\ \E out \in {"ok"} \cup (IF pol.verifyLastRun THEN {"lastRunFailed"} ELSE {}) : verdictOn(out)
          /\ UNCHANGED vlog
       \/ /\ pol.cmd /\ canceled
          /\ verdictOn("skipped") /\ UNCHANGED vlog
       \/ /\ pol.cmd /\ ~canceled
          /\ \E out \in verifyRuns :
               /\ recordVerify(out)
               /\ IF out = "infra" THEN goto("reverify") /\ UNCHANGED <<fail, fed, grace, closing>>
                                   ELSE verdictOn(out)
    /\ UNCHANGED <<iter, fin, kill, rescued, base, repro>>

(* One retry after an environment fault; a retry that could not run keeps   *)
(* the first result.                                                        *)
verifyRetry ==
    /\ phase = "reverify" /\ kill = "none"
    /\ \/ canceled /\ verdictOn("infra") /\ UNCHANGED vlog
       \/ /\ ~canceled
          /\ \E out \in verifyRuns :
               /\ recordVerify(out)
               /\ verdictOn(IF out = "error" THEN "infra" ELSE out)
    /\ UNCHANGED <<iter, fin, kill, rescued, base, repro>>

-----------------------------------------------------------------------------
(* gates.finish after verifyFinish: the cancel, a rejected or failed claim. *)
finishDecides ==
    /\ phase = "decide"
    /\ \/ canceled /\ end("Canceled") /\ UNCHANGED <<iter, fail>>
       \/ /\ ~canceled /\ fail.outcome # "none"
          /\ pol.verifyContinue /\ fin.cont /\ ~fail.stop
          /\ continueWith /\ fail' = Clean /\ UNCHANGED <<outcome, reviewVars>>
       \/ /\ ~canceled /\ fail.outcome # "none"
          /\ ~(pol.verifyContinue /\ fin.cont /\ ~fail.stop)
          /\ goto("salvage") /\ UNCHANGED <<iter, fail>>
       \/ ~canceled /\ fail.outcome = "none" /\ goto("repro") /\ UNCHANGED <<iter, fail>>
    /\ UNCHANGED <<fin, kill, rescued, base, grace, fed, repro, vlog, closing>>

(* reproFinish: the ways the declared repro can come out.  A locked file    *)
(* that changed, a failed snapshot and an unstartable command are red; a    *)
(* timeout is recorded but not held against the run.                        *)
reproFinish ==
    IF ~pol.reproFirst \/ repro = "skipped" THEN {"clean"}
    ELSE IF repro = "none" THEN {"missing"}
    ELSE IF tree \notin ReproIntact \/ canceled THEN {"red"}
    ELSE {"red", "timeout"} \cup (IF tree \in ReproGreen THEN {"clean"} ELSE {})

reproPasses(r) == r \in {"clean", "timeout"}
recordRepro(r) == repro' = IF r = "timeout" THEN "timedOut" ELSE repro

(* The second half of gates.finish up to the review gate. *)
finishRepro ==
    /\ phase = "repro" /\ kill = "none"
    /\ \E r \in reproFinish :
      /\ recordRepro(r)
      /\ \/ /\ ~reproPasses(r) /\ fin.cont /\ (r = "missing" \/ pol.verifyContinue)
            /\ continueWith /\ UNCHANGED <<outcome, reviewVars, fail>>
         \/ /\ ~reproPasses(r) /\ ~(fin.cont /\ (r = "missing" \/ pol.verifyContinue))
            /\ fail' = Failing("Unverified", TRUE)
            /\ goto("salvage") /\ UNCHANGED iter
         \/ reproPasses(r) /\ goto("answer") /\ UNCHANGED <<iter, fail>>
    /\ UNCHANGED <<fin, kill, rescued, base, grace, fed, vlog, closing>>

(* An empty answer is no answer; a trusted caller and a run without a       *)
(* reviewer skip the review.                                                *)
finishAnswer ==
    /\ phase = "answer" /\ kill = "none"
    /\ \/ fin.empty /\ fail' = Failing("Unverified", TRUE) /\ goto("salvage")
       \/ /\ ~fin.empty /\ (fin.trusted \/ ~pol.reviewer)
          /\ end("Answered") /\ UNCHANGED fail
       \/ /\ ~fin.empty /\ ~fin.trusted /\ pol.reviewer
          /\ reviewFinish(fin.cont)
          /\ phase' = "review" /\ UNCHANGED <<outcome, fail>>
    /\ UNCHANGED <<iter, fin, kill, rescued, base, grace, fed, repro, vlog, closing>>

finishReviewed ==
    /\ phase = "review" /\ kill = "none" /\ stage = "idle"
    /\ \/ decision = "feedback" /\ continueWith /\ UNCHANGED <<outcome, reviewVars>>
       \/ decision = "block" /\ end("Unverified") /\ UNCHANGED iter
       \/ decision = "pass" /\ end("Answered") /\ UNCHANGED iter
    /\ UNCHANGED <<fin, fail, kill, rescued, base, grace, fed, repro, vlog, closing>>

(* reviewUnverified before an unverified (or un-upgraded) exit. *)
salvage ==
    /\ phase = "salvage" /\ stage = "idle"
    /\ IF pol.reviewer /\ salvageable /\ decision # "unverified"
       THEN reviewUnverified /\ UNCHANGED <<phase, outcome>>
       ELSE end(IF fail.outcome # "none" THEN fail.outcome ELSE kill)
    /\ UNCHANGED <<iter, fin, fail, kill, rescued, base, grace, fed, repro, vlog, closing>>

-----------------------------------------------------------------------------
upgradeIfVerified_noTreeGuard ==
    /\ phase = "upgrade"
    /\ IF pol.cmd THEN goto("verify") ELSE end(kill)
    /\ UNCHANGED <<iter, fin, fail, kill, rescued, base, grace, fed, repro, vlog, closing>>

(* upgradeIfVerified, the exit of every stopped run: scope, require-diff,   *)
(* then (with a verify command only) fence and the unchanged-tree guard.    *)
upgradeIfVerified ==
    /\ phase = "upgrade"
    /\ \E scope \in scopeCheck, fence \in fenceCheck, diffOk, treeOk \in snapshots :
         \/ scope = "unverifiable" /\ end(kill)
         \/ scope = "violated" /\ end("ScopeViolation")
         \/ scope = "clean" /\ requireDiffFails(diffOk) /\ end("Unverified")
         \/ /\ scope = "clean" /\ ~requireDiffFails(diffOk)
            /\ ~pol.cmd \/ fence # "clean" \/ unchangedRunTree(treeOk)
            /\ end(kill)
         \/ /\ scope = "clean" /\ ~requireDiffFails(diffOk)
            /\ pol.cmd /\ fence = "clean" /\ ~unchangedRunTree(treeOk)
            /\ goto("verify")
    /\ UNCHANGED <<iter, fin, fail, kill, rescued, base, grace, fed, repro, vlog, closing>>

(* A red command is salvaged, a passing one recorded; the rest just ends. *)
upgradeOn(out) ==
    /\ \E ok \in snapshots :
          closing' = IF out = "ok" THEN greenRecord(tree, base.known /\ ok) ELSE closing
    /\ CASE out = "ok"    -> goto("repro")
         [] out = "error" -> end(kill)
         [] OTHER         -> goto("salvage")

upgradeVerify ==
    /\ phase = "verify" /\ kill # "none"
    /\ \/ canceled /\ end(kill) /\ UNCHANGED <<vlog, closing>>
       \/ /\ ~canceled
          /\ \E out \in verifyRuns :
               /\ recordVerify(out)
               /\ IF out = "infra" THEN goto("reverify") /\ UNCHANGED closing ELSE upgradeOn(out)
    /\ UNCHANGED <<iter, fin, fail, kill, rescued, base, grace, fed, repro>>

upgradeRetry ==
    /\ phase = "reverify" /\ kill # "none"
    /\ \/ canceled /\ end(kill) /\ UNCHANGED <<vlog, closing>>
       \/ ~canceled /\ \E out \in verifyRuns : recordVerify(out) /\ upgradeOn(out)
    /\ UNCHANGED <<iter, fin, fail, kill, rescued, base, grace, fed, repro>>

upgradeRepro ==
    /\ phase = "repro" /\ kill # "none"
    /\ \E r \in reproFinish :
         /\ recordRepro(r)
         /\ \/ ~reproPasses(r) /\ fail' = Failing("Unverified", TRUE) /\ goto("salvage")
            \/ reproPasses(r) /\ goto("answer") /\ UNCHANGED fail
    /\ UNCHANGED <<iter, fin, kill, rescued, base, grace, fed, vlog, closing>>

(* The review gate, if there is one, has the final word on the upgrade. *)
upgradeReview ==
    /\ phase = "answer" /\ kill # "none"
    /\ \/ ~pol.reviewer /\ rescued' = kill /\ end("Answered")
       \/ pol.reviewer /\ reviewFinish(FALSE) /\ phase' = "review" /\ UNCHANGED <<outcome, rescued>>
    /\ UNCHANGED <<iter, fin, fail, kill, base, grace, fed, repro, vlog, closing>>

upgradeReviewed ==
    /\ phase = "review" /\ kill # "none" /\ stage = "idle"
    /\ IF decision = "block" THEN end(kill) /\ UNCHANGED rescued
                             ELSE end("Answered") /\ rescued' = kill
    /\ UNCHANGED <<iter, fin, fail, kill, base, grace, fed, repro, vlog, closing>>

-----------------------------------------------------------------------------
gateStep == \/ verifySafety \/ verifyCompletion \/ verifyTermination \/ verifyRetry
            \/ finishDecides \/ finishRepro \/ finishAnswer \/ finishReviewed \/ salvage
            \/ upgradeIfVerified \/ upgradeVerify \/ upgradeRetry \/ upgradeRepro
            \/ upgradeReview \/ upgradeReviewed

runningReview == phase \in {"review", "salvage"} /\ reviewStep /\ UNCHANGED gateVars

solverStep == mutation \/ failedCall \/ declareRepro \/ skipRepro \/ turnDies \/ claimDone

callerCancels == phase # "done" /\ cancel /\ UNCHANGED gateVars

ClosingNext == \/ redBaselineRefusal \/ turnStarts \/ turnEnds \/ solverStep
               \/ gateStep \/ runningReview \/ callerCancels

ClosingSpec == ClosingInit /\ [][ClosingNext]_vars

(* A reply holds finitely many tool calls, so a turn ends; the gates are    *)
(* straight-line code whose commands and walks carry a timeout.             *)
FairClosingSpec ==
    /\ ClosingSpec
    /\ WF_vars(redBaselineRefusal) /\ WF_vars(turnStarts) /\ WF_vars(turnEnds) /\ WF_vars(gateStep) /\ WF_vars(runningReview)

-----------------------------------------------------------------------------
(* finalizeGuarantees: the verification evidence of a finished run. *)
verificationEvidence ==
    IF ~pol.cmd THEN "absent"
    ELSE IF vlog.status = "none" THEN "skipped"
    ELSE IF ~vlog.fresh THEN "degraded" ELSE vlog.status

(* applyClosingVerification: the tree the result says was verified green. *)
closingPassed == closing.known /\ closing.fresh

(* The bar an answered run has cleared.  Its verify command passes on the   *)
(* delivered tree, along every path: finish, unchanged tree, rescue, after  *)
(* a review round, with timeouts, faults and cancels between.  A trusted    *)
(* finish tool is exempt, and the soft gate unless it rescues.              *)
VerifiedGreen == (kill # "none" \/ (pol.cmd /\ ~pol.soft /\ ~fin.trusted)) => VerifyOut[tree] = "ok"

(* It edited no fenced test and stayed in the diff scope, trusted or not.   *)
InsideFences == (pol.fence => tree \in FenceClean) /\ (pol.scope => tree \in InScope)

(* Under a required review, the reviewer judged a changed tree in the last  *)
(* round; a cancel and a trusted finish tool are the ways around it.        *)
Reviewed ==
    (/\ pol.reviewer /\ effectiveReviewRequired /\ rv.status # "canceled" /\ tree # BaseTree
     /\ ~(fin.trusted /\ kill = "none"))
    => <<rv.rounds, tree>> \in verdicts

(* A declared repro that was never skipped passes in the file that was      *)
(* locked, or the result says that it timed out.                            *)
ReproHonored ==
    pol.reproFirst =>
        \/ repro \in {"skipped", "timedOut"}
        \/ repro = "validated" /\ tree \in ReproIntact /\ tree \in ReproGreen

(* A rescue did something: the tree differs from the run-start tree, when   *)
(* git can tell.                                                            *)
RescuedAChange == kill # "none" /\ base.known /\ ~IOMayFail => tree # BaseTree

(* A repro's unrestored damage voids the bar.                               *)
Acceptable == damaged \/ (VerifiedGreen /\ InsideFences /\ Reviewed /\ ReproHonored /\ RescuedAChange)

(* The auto-derived gate, once its feedback budget is spent, cannot make a  *)
(* run Unverified: with no other gate armed only an empty answer does.      *)
SoftSpent == pol.soft /\ fed > MaxFeedback
             /\ \A f \in {"fence", "scope", "requireDiff", "reproFirst", "reviewer"} : ~pol[f]

Contract == INSTANCE RunContract WITH
    Base <- BaseTree, MaxTurns <- MaxIters + 1,
    stands <- tree, acceptable <- Acceptable, faulted <- ~SoftSpent \/ fin.empty,
    turns <- iter

-----------------------------------------------------------------------------
(* Types; the turn counter never passes Policy.MaxIter + 1, however the      *)
(* gates send the run back into the loop.                                   *)
ClosingTypeOK ==
    /\ ReviewTypeOK
    /\ phase \in Phases /\ iter \in 1..(MaxIters + 1)
    /\ fin \in [trusted : BOOLEAN, cont : BOOLEAN, empty : BOOLEAN]
    /\ fail \in [outcome : {"none", "Unverified"}, stop : BOOLEAN]
    /\ kill \in Stops \cup {"none"} /\ rescued \in Stops \cup {"none"} /\ outcome \in Outcomes
    /\ base \in [known : BOOLEAN, measured : BOOLEAN, red : BOOLEAN]
    /\ grace \in BOOLEAN /\ fed \in Nat
    /\ repro \in {"none", "skipped", "validated", "timedOut"}
    /\ vlog \in [status : Evidence, fresh : BOOLEAN, lag : BOOLEAN]
    /\ closing \in [tree : Trees, known : BOOLEAN, fresh : BOOLEAN, lag : BOOLEAN]

(* The evidence a result carries is about the delivered tree: "passed" and  *)
(* a fresh closing record mean green there, whatever happened in between,   *)
(* but for a call that failed and still changed the workspace afterwards:   *)
(* that one is not counted (evidenceLog.mutation, applyClosingVerification). *)
EvidenceIsCurrent ==
    (phase = "done" /\ ~damaged) =>
        /\ verificationEvidence = "passed" => VerifyOut[tree] = "ok" \/ vlog.lag
        /\ closingPassed => closing.tree = tree \/ closing.lag

(* The run keeps the contract a caller relies on, for every mix of gates    *)
(* and policies, whatever fails or is canceled on the way: bounded turns,   *)
(* one final outcome, and an answer only on a tree that clears the bar      *)
(* (gates.finish, gates.upgradeIfVerified, RunNative's exits).              *)
KeepsContract == Contract!ContractSpec

-----------------------------------------------------------------------------
(* What the repository says and the code does not do. *)

(* "A caller cancel mid-finish stops the run cleanly as Canceled": a cancel *)
(* the gates themselves observed does not end as an accepted answer.        *)
ObservedCancelStops ==
    phase = "done" /\ kill = "none" /\ rv.status = "canceled" => outcome # "Answered"

(* "mutGen deliberately over-approximates workspace mutation"               *)
(* (evidence.go:105-106): evidence still current by it is of the tree the   *)
(* run ends on.                                                             *)
EvidenceOverApproximates ==
    (phase = "done" /\ ~damaged) =>
        /\ verificationEvidence = "passed" => VerifyOut[tree] = "ok"
        /\ closingPassed => closing.tree = tree
=============================================================================
