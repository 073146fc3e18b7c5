-------------------------- MODULE ClosingGates_proofs --------------------------
(* Theorems about ClosingGates: the composition of the closing gates, the    *)
(* turn loop and the review gate implements ReviewSpec, carries evidence of  *)
(* the delivered tree only, and takes only steps its contract allows, for    *)
(* every workspace, policy, limit, fault and cancel.                         *)
EXTENDS ClosingGates, ReviewGate_proofs

-----------------------------------------------------------------------------
(* The inductive invariant, part by part.                                    *)

BeforeReview == {"start", "top", "acting", "safety", "completion", "verify", "reverify",
                 "decide", "repro", "answer", "upgrade"}

(* How the phases of the run and the stages of the review gate fit: a review *)
(* is under way in two phases only, a salvage round in the second of them.   *)
ReviewCalls ==
    /\ phase \in Phases
    /\ phase # "done" => ~rv.reported
    /\ phase \in BeforeReview => stage = "idle" /\ decision \in {"none", "feedback"}
    /\ rv.salvage => phase \in {"salvage", "done"}
    /\ phase = "review" =>
          /\ stage # "salvaging"
          /\ IF stage = "idle" THEN decision \in {"pass", "block", "feedback"} ELSE decision = "none"
          /\ decision = "feedback" => canContinue
    /\ phase = "salvage" =>
          /\ decision \in {"none", "feedback", "unverified"}
          /\ stage # "idle" => decision = "unverified"
          /\ stage \notin {"idle", "salvaging"} => rv.salvage
    /\ phase = "done" => stage = "idle"

(* A claim the gates may still send back leaves a turn to go; a stopped run  *)
(* is never sent back.                                                       *)
Claimed == {"safety", "completion", "verify", "reverify", "decide", "repro", "answer", "review"}

TurnControl ==
    /\ iter \in 1..(MaxIters + 1)
    /\ phase # "done" /\ kill = "none" => iter <= MaxIters
    /\ kill # "none" => phase \in {"upgrade", "verify", "reverify", "repro", "answer", "review", "salvage", "done"}
    /\ phase = "upgrade" => kill # "none"
    /\ phase \in Claimed /\ kill = "none" /\ fin.cont => iter < MaxIters
    /\ phase = "review" => pol.reviewer /\ (canContinue => kill = "none" /\ fin.cont)
    /\ outcome = "none" <=> phase # "done"

(* A failure in hand is one the gates answer for.                            *)
FailureControl ==
    /\ phase = "start" => fed = 0
    /\ phase \notin {"decide", "salvage", "done"} => fail.outcome = "none"
    /\ phase = "salvage" /\ kill = "none" => fail.outcome = "Unverified"
    /\ phase \in {"decide", "salvage"} /\ fail.outcome = "Unverified" => ~SoftSpent \/ fin.empty

(* The workspace as the run left it: not what a repro command made of it.    *)
Here == IF stage = "repro" THEN preTree ELSE tree

Judged == phase \in {"repro", "answer", "review"} \/ (phase = "decide" /\ fail.outcome = "none")

(* What the gates a claim or a rescue has passed so far have established.    *)
GreenSoFar ==
    /\ Judged /\ kill = "none" /\ pol.cmd /\ ~pol.soft /\ ~fin.trusted => VerifyOut[Here] = "ok"
    /\ Judged /\ kill # "none" => VerifyOut[Here] = "ok"

FencedSoFar ==
    Judged \/ phase \in {"completion", "verify", "reverify"} =>
        (pol.fence => Here \in FenceClean) /\ (pol.scope => Here \in InScope)

ReproSoFar ==
    phase \in {"answer", "review"} /\ pol.reproFirst =>
        \/ repro \in {"skipped", "timedOut"}
        \/ repro = "validated" /\ Here \in ReproIntact /\ Here \in ReproGreen

ChangedSoFar ==
    kill # "none" /\ base.known /\ ~IOMayFail =>
        /\ phase \in {"verify", "reverify"} => canceled \/ Here # BaseTree
        /\ phase \in {"repro", "answer", "review"} => Here # BaseTree

(* The evidence on record is about the workspace as it stands, unless a      *)
(* failed call has changed it since.                                         *)
EvidenceHere ==
    /\ vlog.fresh /\ vlog.status = "passed" => VerifyOut[Here] = "ok" \/ vlog.lag
    /\ closing.fresh /\ closing.known => closing.tree = Here \/ closing.lag

BaselineHolds == base.red = (base.measured /\ VerifyOut[BaseTree] # "ok")

Established ==
    /\ BaselineHolds
    /\ ~damaged => GreenSoFar /\ FencedSoFar /\ ReproSoFar /\ ChangedSoFar /\ EvidenceHere

ClosingInv == ClosingTypeOK /\ ReproAt /\ ReviewCalls /\ TurnControl /\ FailureControl /\ Established
-----------------------------------------------------------------------------
(* A review in progress never marks itself reported and only its salvage     *)
(* entry marks it a salvage round.                                           *)
SameMarks(r, s) == s.salvage = r.salvage /\ s.reported = r.reported

(* The review's helpers never touch what was reported or delivered.          *)
LEMMA HelpersKeepMarks ==
    ASSUME NEW r, WellFormed(r), NEW st
    PROVE  /\ SameMarks(r, [r EXCEPT !.status = st])
           /\ SameMarks(r, failOpen(r, st))
           /\ SameMarks(r, setReviewSemanticStatus(r, st))
           /\ SameMarks(r, [resolvePending(r, "repaired") EXCEPT !.rounds = r.rounds + 1])
           /\ SameMarks(r, blockRound(r))
<1> USE DEF WellFormed, ReviewState, SameMarks
<1>1. SameMarks(r, [r EXCEPT !.status = st])
  BY Zenon
<1>2. SameMarks(r, failOpen(r, st))
  BY Zenon DEF failOpen
<1>3. SameMarks(r, setReviewSemanticStatus(r, st))
  BY <1>1, Zenon DEF setReviewSemanticStatus
<1>4. SameMarks(r, [resolvePending(r, "repaired") EXCEPT !.rounds = r.rounds + 1])
  BY Zenon DEF resolvePending
<1>5. SameMarks(r, blockRound(r))
  BY Zenon DEF blockRound, resolvePending
<1>6. QED
  BY <1>1, <1>2, <1>3, <1>4, <1>5

LEMMA ExpiryKeepsMarks ==
    ASSUME NEW r, WellFormed(r), NEW k
    PROVE  SameMarks(r, blockRound([r EXCEPT !.findings[k].fate = "expired"]))
<1> DEFINE x == [r EXCEPT !.findings[k].fate = "expired"]
<1>1. WellFormed(x)
  BY ExpireEffect
<1>2. SameMarks(r, x)
  BY Zenon DEF WellFormed, ReviewState, SameMarks
<1> HIDE DEF x
<1>3. SameMarks(x, blockRound(x))
  BY <1>1, HelpersKeepMarks
<1>4. QED
  BY <1>2, <1>3 DEF SameMarks, x

(* What a round's answer leaves: the marks, and a claim is sent back only    *)
(* when the caller can continue.                                             *)
LEMMA SettleMarks ==
    ASSUME WellFormed(rv), settle
    PROVE  \E r, d : /\ Answer(r, d) /\ SameMarks(rv, r)
                     /\ d \in {"pass", "feedback", "block"} /\ (d = "feedback" => canContinue)
<1>1. CASE settleRecurring
  <2> DEFINE x == blockRound([rv EXCEPT !.findings[recurringEarlier(rv)].fate = "expired"])
  <2>1. Answer(x, "block")
    BY <1>1, Zenon DEF settleRecurring
  <2>2. SameMarks(rv, x)
    BY ExpiryKeepsMarks
  <2> HIDE DEF x
  <2>3. QED
    BY <2>1, <2>2
<1>2. CASE settleClean
  BY <1>2, HelpersKeepMarks, RequiredDecides DEF settleClean
<1>3. CASE settleFeedback
  BY <1>3, HelpersKeepMarks, Zenon DEF settleFeedback
<1>4. CASE settleExhausted
  <2> DEFINE x == setReviewSemanticStatus(rv, "advisory")
  <2>1. CASE rv.pending = {}
    <3>1. Answer(x, requiredDecision(x))
      BY <1>4, <2>1, Zenon DEF settleExhausted
    <3>2. SameMarks(rv, x) /\ requiredDecision(x) \in {"pass", "block"}
      BY HelpersKeepMarks, RequiredDecides
    <3> HIDE DEF x
    <3>3. QED
      BY <3>1, <3>2
  <2>2. CASE rv.pending # {}
    <3> DEFINE b == blockRound(rv)
    <3>1. Answer(b, "block")
      BY <1>4, <2>2, Zenon DEF settleExhausted
    <3>2. SameMarks(rv, b)
      BY HelpersKeepMarks
    <3> HIDE DEF b
    <3>3. QED
      BY <3>1, <3>2
  <2>3. QED
    BY <2>1, <2>2
<1>5. QED
  BY <1>1, <1>2, <1>3, <1>4, Zenon DEF settle

(* How a step of a review moves: on to the next stage with the answer open,  *)
(* or out with one.                                                          *)
Onward  == stage' # "idle" /\ decision' = decision /\ rv'.salvage = (rv.salvage \/ stage = "salvaging")
Skipped == stage = "salvaging" /\ stage' = "idle" /\ decision' \in {decision, "unverified"}
Decided == /\ stage # "salvaging" /\ stage' = "idle" /\ rv'.salvage = rv.salvage
           /\ IF rv.salvage THEN decision' = "unverified"
              ELSE decision' \in {"pass", "block", "feedback"} /\ (decision' = "feedback" => canContinue)

(* A review that answers has decided, and its report stands.                 *)
LEMMA AnswerDecides ==
    ASSUME WellFormed(rv), stage \notin {"idle", "salvaging"}, NEW r, SameMarks(rv, r),
           NEW d \in {"pass", "feedback", "block"}, d = "feedback" => canContinue, Answer(r, d)
    PROVE  Decided /\ rv'.reported = rv.reported
  BY Zenon DEF Answer, SameMarks, Decided

(* A step of the review goes on, skips or decides, and starts no salvage.    *)
LEMMA ReviewMoves ==
    ASSUME ReviewTypeOK, reviewStep
    PROVE  /\ stage # "idle" /\ stage' # "salvaging" /\ rv'.reported = rv.reported
           /\ UNCHANGED <<pol, canceled, canContinue, askTree>>
           /\ Onward \/ Skipped \/ Decided
<1>0. WellFormed(rv) /\ rv \in ReviewState /\ rv.salvage \in BOOLEAN
  BY TypeParts DEF WellFormed, ReviewState
<1>1. CASE salvageCapture
  <2>1. CASE Answer([rv EXCEPT !.salvage = TRUE, !.status = "canceled"], "pass")
    BY <1>0, <1>1, <2>1, Zenon DEF salvageCapture, Answer, Skipped, ReviewState
  <2>2. CASE rv' = [rv EXCEPT !.salvage = TRUE] /\ stage' = "capturing" /\ UNCHANGED <<decision, claims, next>>
    BY <1>0, <1>1, <2>2, Zenon DEF salvageCapture, Onward, ReviewState
  <2>3. CASE /\ rv' \in {rv, [rv EXCEPT !.skip = TRUE, !.status = "unavailable"], [rv EXCEPT !.skip = TRUE]}
             /\ stage' = "idle" /\ decision' = decision
    BY <1>0, <1>1, <2>3, Zenon DEF salvageCapture, Skipped, ReviewState
  <2>4. QED
    BY <1>1, <2>1, <2>2, <2>3, Zenon DEF salvageCapture
<1>2. CASE captureDiffFails \/ reviewFails
  <2>1. PICK st : Answer(failOpen(rv, st), requiredDecision(failOpen(rv, st)))
    BY <1>2, Zenon DEF captureDiffFails, reviewFails
  <2>2. requiredDecision(failOpen(rv, st)) \in {"pass", "block"} /\ SameMarks(rv, failOpen(rv, st))
    BY <1>0, RequiredDecides, HelpersKeepMarks
  <2>3. stage \notin {"idle", "salvaging"} /\ UNCHANGED <<pol, canceled, canContinue, askTree>>
    BY <1>2 DEF captureDiffFails, reviewFails
  <2>4. Decided /\ rv'.reported = rv.reported
    BY <1>0, <2>1, <2>2, <2>3, AnswerDecides
  <2>5. QED
    BY <2>3, <2>4 DEF Decided
<1>3. CASE nothingToReview
  <2>1. SameMarks(rv, setReviewSemanticStatus(rv, "clean"))
    BY <1>0, HelpersKeepMarks
  <2>2. Decided /\ rv'.reported = rv.reported
    BY <1>0, <1>3, <2>1, AnswerDecides DEF nothingToReview
  <2>3. QED
    BY <1>3, <2>2 DEF nothingToReview, Decided
<1>4. CASE startRound
  <2> DEFINE x == [resolvePending(rv, "repaired") EXCEPT !.rounds = rv.rounds + 1]
  <2>1. rv' = x /\ stage = "capturing" /\ stage' = "reviewing"
        /\ UNCHANGED <<pol, canceled, canContinue, askTree, decision>>
    BY <1>4 DEF startRound
  <2>2. SameMarks(rv, x)
    BY <1>0, HelpersKeepMarks, Zenon
  <2> HIDE DEF x
  <2>3. x.salvage = rv.salvage /\ x.reported = rv.reported
    BY <2>2 DEF SameMarks
  <2>4. QED
    BY <1>0, <2>1, <2>3, Zenon DEF Onward
<1>5. CASE reviewReturns \/ solicitReturns \/ escalate
  <2>1. rv' = rv /\ decision' = decision /\ stage' \in {"soliciting", "classify", "repro"}
    BY <1>5, Zenon DEF reviewReturns, solicitReturns, escalate
  <2>2. stage \notin {"idle", "salvaging"} /\ UNCHANGED <<pol, canceled, canContinue, askTree>>
    BY <1>5 DEF reviewReturns, solicitReturns, escalate
  <2>3. QED
    BY <1>0, <2>1, <2>2 DEF Onward
<1>6. CASE solicitFails
  <2>1. SameMarks(rv, rv')
    <3>1. \A st : SameMarks(rv, [rv EXCEPT !.status = st])
      BY <1>0, HelpersKeepMarks
    <3>2. \E st : rv' \in {rv, [rv EXCEPT !.status = st]}
      BY <1>6, Zenon DEF solicitFails
    <3>3. SameMarks(rv, rv)
      BY DEF SameMarks
    <3>4. QED
      BY <3>1, <3>2, <3>3, Zenon
  <2>2. stage = "soliciting" /\ stage' = "classify" /\ UNCHANGED <<pol, canceled, canContinue, askTree, decision>>
    BY <1>6 DEF solicitFails
  <2>3. QED
    BY <1>0, <2>1, <2>2 DEF SameMarks, Onward
<1>7. CASE classifyProse \/ escalateSettles \/ escalateUnsnapshotted
  <2>1. \A c, fate, confirmed : record(c, fate, confirmed) => SameMarks(rv, rv')
    BY <1>0, Zenon DEF record, SameMarks, ReviewState
  <2>2. SameMarks(rv, rv')
    BY <1>7, <2>1, Zenon DEF classifyProse, escalateSettles, escalateUnsnapshotted
  <2>3. stage \notin {"idle", "salvaging"} /\ stage' = "classify" /\ UNCHANGED <<pol, canceled, canContinue, askTree, decision>>
    BY <1>7 DEF classifyProse, escalateSettles, escalateUnsnapshotted
  <2>4. QED
    BY <1>0, <2>2, <2>3 DEF SameMarks, Onward
<1>8. CASE settle
  <2>1. PICK r, d : /\ Answer(r, d) /\ SameMarks(rv, r)
                    /\ d \in {"pass", "feedback", "block"} /\ (d = "feedback" => canContinue)
    BY <1>0, <1>8, SettleMarks
  <2>2. stage \notin {"idle", "salvaging"} /\ UNCHANGED <<pol, canceled, canContinue, askTree>>
    BY <1>8 DEF settle
  <2>3. Decided /\ rv'.reported = rv.reported
    BY <1>0, <2>1, <2>2, AnswerDecides
  <2>4. QED
    BY <2>2, <2>3 DEF Decided
<1>9. QED
  BY <1>1, <1>2, <1>3, <1>4, <1>5, <1>6, <1>7, <1>8 DEF reviewStep

(* The workspace the run left stays where it is while a review runs, unless  *)
(* a repro's damage outlives it.                                             *)
LEMMA ReviewKeepsHere ==
    ASSUME reviewStep, damaged \in BOOLEAN, ~damaged'
    PROVE  ~damaged /\ Here' = Here
<1>1. CASE salvageCapture \/ captureDiffFails \/ nothingToReview \/ startRound \/ reviewFails \/ reviewReturns
           \/ solicitReturns \/ solicitFails \/ classifyProse \/ settle
  <2>1. UNCHANGED <<tree, preTree, damaged>> /\ stage # "repro" /\ stage' # "repro"
    <3>1. \A r, d : Answer(r, d) => stage' = "idle"
      BY DEF Answer
    <3>2. CASE settle
      BY <3>1, <3>2, Zenon DEF settle, settleRecurring, settleClean, settleFeedback, settleExhausted
    <3>3. CASE captureDiffFails \/ reviewFails \/ nothingToReview \/ salvageCapture
      BY <3>1, <3>3, Zenon DEF captureDiffFails, reviewFails, nothingToReview, salvageCapture
    <3>4. CASE startRound \/ reviewReturns \/ solicitReturns \/ solicitFails \/ classifyProse
      BY <3>4, Zenon DEF startRound, reviewReturns, solicitReturns, solicitFails, classifyProse
    <3>5. QED
      BY <1>1, <3>2, <3>3, <3>4
  <2>2. QED
    BY <2>1 DEF Here
<1>2. CASE escalate
  BY <1>2 DEF escalate, Here
<1>3. CASE escalateSettles
  <2>1. tree' = preTree /\ damaged' = damaged
    BY <1>3, Zenon DEF escalateSettles
  <2>2. stage = "repro" /\ stage' = "classify" /\ preTree' = preTree
    BY <1>3, Zenon DEF escalateSettles
  <2>3. QED
    BY <2>1, <2>2 DEF Here
<1>4. CASE escalateUnsnapshotted
  BY <1>4, Zenon DEF escalateUnsnapshotted, Here
<1>5. QED
  BY <1>1, <1>2, <1>3, <1>4 DEF reviewStep

-----------------------------------------------------------------------------
(* The composition takes the review gate's own steps and no others: a        *)
(* mutating call is a solver's edit, a claim and a rescue enter the gate, a  *)
(* failed run asks for its salvage round, the end of the run is its report.  *)
LEMMA StepsAreReviewSteps ==
    ASSUME ReviewCalls, fin.cont \in BOOLEAN, [ClosingNext]_vars PROVE [ReviewNext]_reviewVars
<1> USE DEF ReviewNext
<1>1. ASSUME NEW o, end(o), phase \in BeforeReview \/ (phase # "done" /\ stage = "idle") PROVE report
  BY <1>1, Zenon DEF end, report, ReviewCalls, BeforeReview
<1>2. ASSUME NEW cont \in BOOLEAN, reviewFinish(cont), phase = "answer" PROVE solverFinishes
  BY <1>2, Zenon DEF solverFinishes, awaitingSolver, ReviewCalls, BeforeReview
<1>3. CASE redBaselineRefusal \/ turnStarts \/ turnEnds \/ turnDies
  BY <1>1, <1>3, Zenon DEF redBaselineRefusal, turnStarts, turnEnds, turnDies, goto, BeforeReview
<1>4. CASE mutation \/ failedCall
  BY <1>4, Zenon DEF mutation, failedCall, acts, solverEdits, awaitingSolver, ReviewCalls, BeforeReview
<1>5. CASE declareRepro \/ skipRepro \/ claimDone
  BY <1>5, Zenon DEF declareRepro, skipRepro, claimDone, goto
<1>6. CASE verifySafety \/ verifyCompletion \/ finishDecides \/ upgradeIfVerified
  BY <1>1, <1>6, Zenon DEF verifySafety, verifyCompletion, finishDecides, upgradeIfVerified, goto, BeforeReview
<1>7. CASE verifyTermination \/ verifyRetry \/ upgradeVerify \/ upgradeRetry
  BY <1>1, <1>7, Zenon DEF verifyTermination, verifyRetry, verdictOn, upgradeVerify, upgradeRetry, upgradeOn, goto, BeforeReview
<1>8. CASE finishRepro \/ upgradeRepro
  BY <1>8, Zenon DEF finishRepro, upgradeRepro, goto
<1>9. CASE finishAnswer \/ upgradeReview
  BY <1>1, <1>2, <1>9, Zenon DEF finishAnswer, upgradeReview, goto, BeforeReview
<1>10. CASE finishReviewed \/ upgradeReviewed
  BY <1>1, <1>10, Zenon DEF finishReviewed, upgradeReviewed
<1>11. CASE salvage
  BY <1>1, <1>11, Zenon DEF salvage, runFails, awaitingSolver, ReviewCalls
<1>12. CASE runningReview \/ callerCancels \/ UNCHANGED vars
  BY <1>12, Zenon DEF runningReview, callerCancels, vars
<1>13. QED
  BY <1>3, <1>4, <1>5, <1>6, <1>7, <1>8, <1>9, <1>10, <1>11, <1>12 DEF ClosingNext, solverStep, gateStep

-----------------------------------------------------------------------------
(* Entering the gate from a claim or a rescue, which is never a salvage.     *)
LEMMA EntryMoves ==
    ASSUME ReviewTypeOK, ~rv.salvage, NEW cont \in BOOLEAN, reviewFinish(cont)
    PROVE  /\ rv'.salvage = FALSE /\ rv'.reported = rv.reported /\ canContinue' = cont
           /\ UNCHANGED <<pol, tree, canceled, preTree, verdicts, damaged>>
           /\ \/ stage' = "capturing" /\ decision' = "none"
              \/ stage' = "idle" /\ decision' \in {"pass", "block"}
<1>0. WellFormed(rv) /\ rv \in ReviewState /\ rv.salvage = FALSE
  BY TypeParts DEF WellFormed, ReviewState
<1>1. canContinue' = cont /\ UNCHANGED <<pol, tree, canceled, preTree, verdicts, damaged>>
  BY DEF reviewFinish
<1>2. ASSUME NEW r, SameMarks(rv, r), NEW d \in {"pass", "block"}, Answer(r, d)
      PROVE  rv'.salvage = FALSE /\ rv'.reported = rv.reported /\ stage' = "idle" /\ decision' \in {"pass", "block"}
  BY <1>0, <1>2 DEF Answer, SameMarks
<1>3. CASE Answer(rv, IF effectiveReviewRequired THEN "block" ELSE "pass")
  BY <1>1, <1>2, <1>3 DEF SameMarks
<1>4. CASE Answer([rv EXCEPT !.status = "canceled"], "pass")
  <2>1. SameMarks(rv, [rv EXCEPT !.status = "canceled"])
    BY <1>0, HelpersKeepMarks
  <2>2. QED
    BY <1>1, <1>2, <1>4, <2>1
<1>5. CASE stage' = "capturing" /\ decision' = "none" /\ UNCHANGED <<rv, claims, next>>
  BY <1>0, <1>1, <1>5
<1>6. QED
  BY <1>3, <1>4, <1>5, Zenon DEF reviewFinish

(* The end of a run leaves the gate where it was. *)
LEMMA EndMoves ==
    ASSUME NEW o, end(o)
    PROVE  /\ phase' = "done" /\ outcome' = o /\ (ReviewTypeOK => rv'.status = rv.status)
           /\ UNCHANGED <<pol, tree, canceled, stage, askTree, preTree, canContinue, decision, verdicts, damaged>>
<1>1. ReviewTypeOK => rv'.status = rv.status
  BY Zenon DEF end, resolvePending, ReviewTypeOK, ReviewState
<1>2. QED
  BY <1>1 DEF end

(* Every step keeps what the review was called for.                          *)
LEMMA ReviewCallsStep ==
    ASSUME ReviewTypeOK, ReviewCalls, fin.cont \in BOOLEAN, [ClosingNext]_vars PROVE ReviewCalls'
<1>1. ASSUME NEW o, end(o), stage = "idle" PROVE ReviewCalls'
  BY <1>1 DEF end, ReviewCalls, BeforeReview, Phases
<1>2. ASSUME NEW p \in BeforeReview, phase \in BeforeReview, phase' = p, UNCHANGED <<rv, stage, decision, canContinue>>
      PROVE  ReviewCalls'
  BY <1>2 DEF ReviewCalls, BeforeReview, Phases
<1>3. ASSUME phase \in BeforeReview, phase' = "salvage", UNCHANGED <<rv, stage, decision, canContinue>>
      PROVE  ReviewCalls'
  BY <1>3 DEF ReviewCalls, BeforeReview, Phases
<1>4. ASSUME NEW cont \in BOOLEAN, reviewFinish(cont), phase = "answer", phase' = "review" PROVE ReviewCalls'
  <2>1. ~rv.salvage /\ ~rv.reported
    BY <1>4 DEF ReviewCalls
  <2>2. QED
    BY <1>4, <2>1, EntryMoves DEF ReviewCalls, BeforeReview, Phases
<1>5. phase \in BeforeReview => stage = "idle"
  BY DEF ReviewCalls
<1>6. CASE redBaselineRefusal
  <2>1. CASE phase' = "done" /\ UNCHANGED reviewVars
    BY <1>5, <1>6, <2>1 DEF redBaselineRefusal, ReviewCalls, reviewVars, BeforeReview, Phases
  <2>2. QED
    BY <1>2, <1>6, <2>1 DEF redBaselineRefusal, goto, reviewVars, BeforeReview
<1>7. CASE turnStarts \/ turnEnds \/ turnDies
  BY <1>1, <1>2, <1>5, <1>7 DEF turnStarts, turnEnds, turnDies, goto, reviewVars, BeforeReview
<1>8. CASE mutation \/ failedCall \/ declareRepro \/ skipRepro \/ claimDone
  BY <1>2, <1>8 DEF mutation, failedCall, acts, declareRepro, skipRepro, claimDone, goto, reviewVars, BeforeReview
<1>9. CASE verifySafety \/ verifyCompletion \/ finishDecides \/ upgradeIfVerified
  <2>1. CASE verifySafety
    BY <1>1, <1>2, <1>3, <1>5, <2>1, Zenon DEF verifySafety, goto, reviewVars, BeforeReview
  <2>2. CASE verifyCompletion
    BY <1>1, <1>2, <1>3, <1>5, <2>2, Zenon DEF verifyCompletion, goto, reviewVars, BeforeReview
  <2>3. CASE finishDecides
    BY <1>1, <1>2, <1>3, <1>5, <2>3, Zenon DEF finishDecides, continueWith, goto, reviewVars, BeforeReview
  <2>4. CASE upgradeIfVerified
    BY <1>1, <1>2, <1>3, <1>5, <2>4, Zenon DEF upgradeIfVerified, goto, reviewVars, BeforeReview
  <2>5. QED
    BY <1>9, <2>1, <2>2, <2>3, <2>4
<1>10. CASE verifyTermination \/ verifyRetry
  BY <1>2, <1>10, Zenon DEF verifyTermination, verifyRetry, verdictOn, goto, reviewVars, BeforeReview
<1>11. CASE upgradeVerify \/ upgradeRetry
  BY <1>1, <1>2, <1>3, <1>5, <1>11, Zenon DEF upgradeVerify, upgradeRetry, upgradeOn, goto, reviewVars, BeforeReview
<1>12. CASE finishRepro \/ upgradeRepro
  BY <1>2, <1>3, <1>12, Zenon DEF finishRepro, upgradeRepro, continueWith, goto, reviewVars, BeforeReview
<1>13. CASE finishAnswer \/ upgradeReview
  BY <1>1, <1>3, <1>4, <1>5, <1>13, Zenon DEF finishAnswer, upgradeReview, goto, reviewVars, BeforeReview
<1>14. CASE finishReviewed
  <2>1. CASE decision = "feedback" /\ continueWith /\ UNCHANGED <<outcome, reviewVars>>
    BY <1>14, <2>1 DEF finishReviewed, continueWith, reviewVars, ReviewCalls, BeforeReview, Phases
  <2>2. QED
    BY <1>1, <1>14, <2>1, Zenon DEF finishReviewed
<1>15. CASE upgradeReviewed
  BY <1>1, <1>15, Zenon DEF upgradeReviewed
<1>16. CASE salvage
  <2>1. CASE reviewUnverified /\ UNCHANGED <<phase, outcome>>
    BY <1>16, <2>1 DEF salvage, reviewUnverified, ReviewCalls, BeforeReview, Phases
  <2>2. QED
    BY <1>1, <1>16, <2>1, Zenon DEF salvage
<1>17. CASE runningReview
  <2>1. /\ phase' = phase /\ phase \in {"review", "salvage"} /\ stage # "idle" /\ stage' # "salvaging"
        /\ rv'.reported = rv.reported /\ canContinue' = canContinue
        /\ Onward \/ Skipped \/ Decided
    BY <1>17, ReviewMoves DEF runningReview, gateVars
  <2>2. rv.salvage \in BOOLEAN
    BY DEF ReviewTypeOK, ReviewState
  <2>3. QED
    BY <2>1, <2>2 DEF ReviewCalls, Onward, Skipped, Decided, BeforeReview, Phases
<1>18. CASE callerCancels \/ UNCHANGED vars
  BY <1>18 DEF callerCancels, cancel, vars, reviewVars, gateVars, ReviewCalls, BeforeReview, Phases
<1>19. QED
  BY <1>6, <1>7, <1>8, <1>9, <1>10, <1>11, <1>12, <1>13, <1>14, <1>15, <1>16, <1>17, <1>18
     DEF ClosingNext, solverStep, gateStep

-----------------------------------------------------------------------------
(* Types of what the gates keep, the turn counter aside.                     *)
FinishClaims == [trusted : BOOLEAN, cont : BOOLEAN, empty : BOOLEAN]
Failures  == [outcome : {"none", "Unverified"}, stop : BOOLEAN]
Baselines == [known : BOOLEAN, measured : BOOLEAN, red : BOOLEAN]
Events    == [status : Evidence, fresh : BOOLEAN, lag : BOOLEAN]
Records   == [tree : Trees, known : BOOLEAN, fresh : BOOLEAN, lag : BOOLEAN]
Repros    == {"none", "skipped", "validated", "timedOut"}

RunTyped ==
    /\ fin \in FinishClaims /\ fail \in Failures
    /\ kill \in Stops \cup {"none"} /\ rescued \in Stops \cup {"none"} /\ outcome \in Outcomes
    /\ base \in Baselines /\ grace \in BOOLEAN /\ fed \in Nat /\ repro \in Repros
    /\ vlog \in Events /\ closing \in Records

LEMMA ClosingTypeParts ==
    ClosingTypeOK <=> ReviewTypeOK /\ phase \in Phases /\ iter \in 1..(MaxIters + 1) /\ RunTyped
  BY Zenon DEF ClosingTypeOK, RunTyped, FinishClaims, Failures, Baselines, Events, Records, Repros

LEMMA FailureValues ==
    /\ Clean \in Failures /\ Clean.outcome = "none"
    /\ \A b \in BOOLEAN : Failing("Unverified", b) \in Failures /\ Failing("Unverified", b).outcome = "Unverified"
  BY DEF Clean, Failing, Failures

(* The verdict of an execution: the failure, the soft gate's budget and the  *)
(* baseline's grace it leaves behind.                                        *)
LEMMA FailureTyped ==
    ASSUME RunTyped, NEW out, verifyCompletionFailure(out)
    PROVE  fail' \in Failures /\ fed' \in Nat /\ grace' \in BOOLEAN
<1>1. (\/ out = "timeout" /\ ~pol.soft
       \/ out = "infra"
       \/ unsatisfiable(out)) \in BOOLEAN
  BY Zenon
<1>2. fail' \in Failures
  BY <1>1, FailureValues, Zenon DEF verifyCompletionFailure
<1>3. grace' \in BOOLEAN
  BY Zenon DEF verifyCompletionFailure
<1>4. fed' \in Nat
  BY DEF verifyCompletionFailure, RunTyped
<1>5. QED
  BY <1>2, <1>3, <1>4

(* The recorded evidence of an execution. *)
LEMMA RecordTyped ==
    ASSUME NEW out, recordVerify(out)
    PROVE  vlog' \in Events /\ vlog'.fresh = TRUE /\ (vlog'.status = "passed" => out = "ok")
<1>1. evidenceOf(out) \in Evidence /\ (evidenceOf(out) = "passed" => out = "ok")
  BY DEF evidenceOf, Evidence
<1>2. QED
  BY <1>1, Zenon DEF recordVerify, Events

(* The closing record of a green execution is of the tree it ran on.         *)
Recorded == closing' = closing \/ (closing'.tree = tree /\ closing' \in Records)

(* The closing evidence an execution records has its type.                   *)
LEMMA ClosingTyped ==
    ASSUME tree \in Trees, base.known \in BOOLEAN, NEW out, verdictOn(out) \/ upgradeOn(out)
    PROVE  Recorded
<1>1. snapshots \subseteq BOOLEAN
  BY Zenon DEF snapshots
<1>2. \A ok \in BOOLEAN : /\ greenRecord(tree, ok) \in Records /\ greenRecord(tree, ok).tree = tree
                          /\ (base.known /\ ok) \in BOOLEAN
  BY DEF Records, greenRecord
<1>3. CASE verdictOn(out)
  BY <1>1, <1>2, <1>3, Zenon DEF verdictOn, Recorded
<1>4. CASE upgradeOn(out)
  BY <1>1, <1>2, <1>4, Zenon DEF upgradeOn, Recorded
<1>5. QED
  BY <1>3, <1>4

LEMMA StaleTyped ==
    /\ vlog \in Events => /\ [vlog EXCEPT !.fresh = FALSE, !.lag = FALSE] \in Events
                          /\ \A b \in BOOLEAN : [vlog EXCEPT !.lag = b] \in Events
    /\ closing \in Records => /\ [closing EXCEPT !.fresh = FALSE, !.lag = FALSE] \in Records
                              /\ \A b \in BOOLEAN : [closing EXCEPT !.lag = b] \in Records
  BY DEF Events, Records

(* Every step keeps the types of the variables of the run.                   *)
LEMMA RunTypedStep ==
    ASSUME ReviewTypeOK, RunTyped, [ClosingNext]_vars PROVE RunTyped'
<1> USE DEF RunTyped
<1>0. /\ tree \in Trees /\ base.known \in BOOLEAN /\ fail.outcome \in {"none", "Unverified"}
      /\ pol.trustFinish \in BOOLEAN
  BY FlagsAssumption DEF ReviewTypeOK, Flags, Baselines, Failures
<1>1. /\ {"none", "Answered", "Unverified", "ScopeViolation", "Canceled", "ProviderErr"} \subseteq Outcomes
      /\ Stops \subseteq Outcomes /\ {"HitCap", "HitBudget", "Killed"} = Stops
  BY DEF Outcomes, Stops
<1>2. \A o : end(o) => outcome' = o
  BY DEF end
<1>3. CASE redBaselineRefusal \/ turnStarts \/ turnEnds \/ turnDies
  BY <1>1, <1>2, <1>3, Zenon DEF redBaselineRefusal, turnStarts, turnEnds, turnDies, goto
<1>4. CASE mutation \/ failedCall
  <2>1. UNCHANGED <<fin, fail, kill, outcome, rescued, base, grace, fed, repro>>
    BY <1>4, Zenon DEF mutation, failedCall, acts
  <2>2. CASE mutation
    BY <2>1, <2>2, StaleTyped, Zenon DEF mutation
  <2>3. CASE failedCall
    <3> DEFINE v == vlog.lag \/ (vlog.fresh /\ tree' # tree)
               c == closing.lag \/ (closing.fresh /\ tree' # tree)
    <3>1. v \in BOOLEAN /\ c \in BOOLEAN
      <4>1. vlog.lag \in BOOLEAN /\ closing.lag \in BOOLEAN
        BY Zenon DEF Events, Records
      <4>2. QED
        BY <4>1, Zenon
    <3>2. vlog' = [vlog EXCEPT !.lag = v] /\ closing' = [closing EXCEPT !.lag = c]
      BY <2>3, Zenon DEF failedCall
    <3> HIDE DEF v, c
    <3>3. QED
      BY <2>1, <3>1, <3>2, StaleTyped, Zenon
  <2>4. QED
    BY <1>4, <2>2, <2>3
<1>5. CASE declareRepro \/ skipRepro
  BY <1>5, Zenon DEF declareRepro, skipRepro, Repros
<1>6. CASE claimDone
  <2>1. fin' \in FinishClaims
    <3>1. \A t \in BOOLEAN, e \in BOOLEAN : [trusted |-> t, cont |-> iter < MaxIters, empty |-> e] \in FinishClaims
      BY DEF FinishClaims
    <3>2. FALSE \in BOOLEAN
      OBVIOUS
    <3>3. QED
      BY <1>0, <1>6, <3>1, <3>2, Zenon DEF claimDone
  <2>2. fail' \in Failures
    BY <1>6, FailureValues, Zenon DEF claimDone
  <2>3. QED
    BY <1>6, <2>1, <2>2, Zenon DEF claimDone, goto
<1>7. CASE verifySafety \/ finishDecides \/ finishRepro \/ finishAnswer \/ upgradeRepro
  <2>1. fail' \in Failures
    <3>1. fail' \in {fail, Clean, Failing("Unverified", TRUE)}
      BY <1>7, Zenon DEF verifySafety, finishDecides, finishRepro, finishAnswer, upgradeRepro
    <3>2. QED
      BY <3>1, FailureValues, Zenon
  <2>2. outcome' \in {outcome, "ScopeViolation", "Canceled", "Answered"}
    BY <1>2, <1>7, Zenon DEF verifySafety, finishDecides, finishRepro, finishAnswer, upgradeRepro, goto
  <2>3. repro' \in Repros
    <3>1. repro' \in {repro, "timedOut"}
      BY <1>7, Zenon DEF verifySafety, finishDecides, finishRepro, finishAnswer, upgradeRepro, recordRepro
    <3>2. QED
      BY <3>1, Zenon DEF Repros
  <2>4. UNCHANGED <<fin, kill, rescued, base, grace, fed, vlog, closing>>
    BY <1>7, Zenon DEF verifySafety, finishDecides, finishRepro, finishAnswer, upgradeRepro
  <2>5. QED
    BY <1>1, <2>1, <2>2, <2>3, <2>4, Zenon
<1>8. CASE verifyCompletion
  <2>1. fail' \in Failures /\ fed' \in Nat /\ grace' \in BOOLEAN
    <3>1. CASE \E out : verifyCompletionFailure(out)
      BY <3>1, FailureTyped
    <3>2. CASE fail' = Failing("Unverified", TRUE) /\ UNCHANGED <<fed, grace>>
      BY <3>2, FailureValues, Zenon
    <3>3. CASE UNCHANGED <<fail, fed, grace>>
      BY <3>3, Zenon
    <3>4. QED
      BY <1>8, <3>1, <3>2, <3>3, Zenon DEF verifyCompletion
  <2>2. UNCHANGED <<fin, kill, rescued, outcome, base, repro, vlog, closing>>
    BY <1>8, Zenon DEF verifyCompletion, goto
  <2>3. QED
    BY <2>1, <2>2, Zenon
<1>9. CASE verifyTermination \/ verifyRetry
  <2>1. \/ \E out : verdictOn(out)
        \/ UNCHANGED <<fail, fed, grace, closing>> /\ outcome' = outcome
    BY <1>9, Zenon DEF verifyTermination, verifyRetry, goto
  <2>2. vlog' \in Events
    BY <1>9, RecordTyped, Zenon DEF verifyTermination, verifyRetry
  <2>3. UNCHANGED <<fin, kill, rescued, base, repro>>
    BY <1>9, Zenon DEF verifyTermination, verifyRetry
  <2>4. CASE \E out : verdictOn(out)
    <3>1. PICK out : verdictOn(out)
      BY <2>4
    <3>2. verifyCompletionFailure(out) /\ outcome' = outcome
      BY <3>1, Zenon DEF verdictOn, goto
    <3>3. fail' \in Failures /\ fed' \in Nat /\ grace' \in BOOLEAN
      BY <3>2, FailureTyped
    <3>4. closing' \in Records
      BY <1>0, <3>1, ClosingTyped, Zenon DEF Recorded
    <3>5. QED
      BY <2>2, <2>3, <3>2, <3>3, <3>4, Zenon
  <2>5. QED
    BY <2>1, <2>2, <2>3, <2>4, Zenon
<1>10. CASE upgradeVerify \/ upgradeRetry
  <2>1. vlog' \in Events
    BY <1>10, RecordTyped, Zenon DEF upgradeVerify, upgradeRetry
  <2>2. closing' = closing \/ \E out : upgradeOn(out)
    BY <1>10, Zenon DEF upgradeVerify, upgradeRetry
  <2>3. closing' \in Records
    BY <1>0, <2>2, ClosingTyped, Zenon DEF Recorded
  <2>4. outcome' \in {outcome, kill}
    BY <1>2, <1>10, Zenon DEF upgradeVerify, upgradeRetry, upgradeOn, goto
  <2>5. kill \in Outcomes
    BY <1>1, Zenon
  <2>6. UNCHANGED <<fin, fail, kill, rescued, base, grace, fed, repro>>
    BY <1>10, Zenon DEF upgradeVerify, upgradeRetry
  <2>7. QED
    BY <2>1, <2>3, <2>4, <2>5, <2>6, Zenon
<1>11. CASE finishReviewed \/ salvage \/ upgradeIfVerified \/ upgradeReview \/ upgradeReviewed
  <2>1. UNCHANGED <<fin, fail, kill, base, grace, fed, repro, vlog, closing>>
    BY <1>11, Zenon DEF finishReviewed, salvage, upgradeIfVerified, upgradeReview, upgradeReviewed
  <2>2. rescued' \in {rescued, kill}
    BY <1>11, Zenon DEF finishReviewed, salvage, upgradeIfVerified, upgradeReview, upgradeReviewed
  <2>3. outcome' \in {outcome, "Unverified", "Answered", "ScopeViolation", kill, fail.outcome}
    <3>1. CASE salvage
      BY <1>2, <3>1, Zenon DEF salvage
    <3>2. CASE upgradeIfVerified
      BY <1>2, <3>2, Zenon DEF upgradeIfVerified, goto
    <3>3. CASE finishReviewed \/ upgradeReview \/ upgradeReviewed
      BY <1>2, <3>3, Zenon DEF finishReviewed, upgradeReview, upgradeReviewed
    <3>4. QED
      BY <1>11, <3>1, <3>2, <3>3, Zenon
  <2>4. fail.outcome \in Outcomes /\ kill \in Outcomes
    BY <1>0, <1>1, Zenon
  <2>5. QED
    BY <1>1, <2>1, <2>2, <2>3, <2>4, Zenon
<1>12. CASE runningReview \/ callerCancels \/ UNCHANGED vars
  BY <1>12, Zenon DEF runningReview, callerCancels, vars, gateVars
<1>13. QED
  BY <1>3, <1>4, <1>5, <1>6, <1>7, <1>8, <1>9, <1>10, <1>11, <1>12, Zenon DEF ClosingNext, solverStep, gateStep

-----------------------------------------------------------------------------
(* However the gates send the run back, the turns stay within the limit: a   *)
(* claim is sent back only when a turn is left, a stopped run never.         *)
LEMMA TurnControlStep ==
    ASSUME ReviewTypeOK, RunTyped, ReviewCalls, TurnControl, FailureControl, [ClosingNext]_vars
    PROVE  TurnControl'
<1> USE GateAssumption DEF TurnControl
<1>0. /\ iter \in Nat /\ kill \in {"HitCap", "HitBudget", "Killed", "none"}
      /\ fail.outcome \in {"none", "Unverified"} /\ phase \in Phases /\ outcome' \in Outcomes
  <2>1. RunTyped'
    BY RunTypedStep
  <2>2. QED
    BY <2>1 DEF RunTyped, Stops, Failures, ReviewCalls
<1>1. ASSUME NEW o, end(o), phase # "done", o # "none", UNCHANGED <<iter, kill, fin>> PROVE TurnControl'
  <2>1. phase' = "done" /\ outcome' # "none"
    BY <1>1 DEF end
  <2>2. QED
    BY <1>1, <2>1 DEF Claimed
<1>2. ASSUME NEW p, phase' = p, UNCHANGED <<iter, kill, fin, outcome, canContinue, pol>>,
             phase \in BeforeReview \ {"start", "top", "acting"},
             p \in {"decide", "completion", "verify", "reverify", "repro", "answer", "salvage"},
             phase = "safety" \/ phase = "completion" => p \in {"completion", "verify", "decide"},
             p = "decide" \/ p = "completion" => kill = "none"
      PROVE  TurnControl'
  BY <1>2 DEF Claimed, BeforeReview
<1>3. ASSUME continueWith, phase \in Claimed, kill = "none", kill' = kill, fin.cont, outcome' = outcome PROVE TurnControl'
  BY <1>3 DEF continueWith, Claimed
<1>4. CASE redBaselineRefusal
  <2>1. CASE phase' = "done" /\ outcome' = "Unverified" /\ UNCHANGED reviewVars
    BY <1>4, <2>1 DEF redBaselineRefusal, Claimed
  <2>2. CASE goto("top")
    BY <1>4, <2>2 DEF redBaselineRefusal, goto, Claimed
  <2>3. QED
    BY <1>4, <2>1, <2>2 DEF redBaselineRefusal
<1>5. CASE turnStarts
  <2>1. CASE end("Canceled") /\ UNCHANGED kill
    BY <1>1, <1>5, <2>1 DEF turnStarts
  <2>2. CASE kill' = "HitBudget" /\ goto("upgrade")
    BY <1>5, <2>2 DEF turnStarts, goto, Claimed
  <2>3. CASE goto("acting") /\ UNCHANGED kill
    BY <1>5, <2>3 DEF turnStarts, goto, Claimed
  <2>4. QED
    BY <1>5, <2>1, <2>2, <2>3, Zenon DEF turnStarts
<1>6. CASE turnEnds
  <2>1. kill = "none" /\ iter <= MaxIters
    BY <1>6 DEF turnEnds
  <2>2. QED
    BY <1>0, <1>6, <2>1 DEF turnEnds, goto, Claimed
<1>7. CASE turnDies
  <2>1. CASE kill' = "Killed" /\ goto("upgrade")
    BY <1>7, <2>1 DEF turnDies, goto, Claimed
  <2>2. CASE UNCHANGED kill /\ end(IF canceled THEN "Canceled" ELSE "ProviderErr")
    BY <1>1, <1>7, <2>2 DEF turnDies
  <2>3. QED
    BY <1>7, <2>1, <2>2, Zenon DEF turnDies
<1>8. CASE mutation \/ failedCall \/ declareRepro \/ skipRepro
  BY <1>8 DEF mutation, failedCall, acts, declareRepro, skipRepro, reviewVars, Claimed
<1>9. CASE claimDone
  <2>1. /\ \E t, e : fin' = [trusted |-> t, cont |-> iter < MaxIters, empty |-> e]
        /\ phase = "acting" /\ phase' = "safety" /\ UNCHANGED <<iter, kill, outcome>>
    BY <1>9, Zenon DEF claimDone, goto
  <2>2. fin'.cont = (iter < MaxIters)
    BY <2>1
  <2>3. QED
    BY <2>1, <2>2 DEF Claimed
<1>10. CASE verifySafety \/ verifyCompletion
  <2>1. phase \in {"safety", "completion"} /\ kill = "none"
    BY <1>10 DEF verifySafety, verifyCompletion
  <2>2. UNCHANGED <<iter, kill, fin>>
    BY <1>10, Zenon DEF verifySafety, verifyCompletion
  <2>3. end("ScopeViolation") \/ (UNCHANGED <<outcome, canContinue, pol>> /\ phase' \in {"decide", "completion", "verify"})
    BY <1>10, Zenon DEF verifySafety, verifyCompletion, goto, reviewVars
  <2>4. QED
    BY <1>1, <1>2, <2>1, <2>2, <2>3 DEF BeforeReview
<1>11. CASE verifyTermination \/ verifyRetry
  <2>1. phase \in {"verify", "reverify"} /\ kill = "none"
    BY <1>11 DEF verifyTermination, verifyRetry
  <2>2. UNCHANGED <<iter, kill, fin, outcome, canContinue, pol>> /\ phase' \in {"decide", "reverify"}
    BY <1>11, Zenon DEF verifyTermination, verifyRetry, verdictOn, goto, reviewVars
  <2>3. QED
    BY <1>2, <2>1, <2>2 DEF BeforeReview
<1>12. CASE finishDecides
  <2>1. phase = "decide" /\ kill = "none" /\ UNCHANGED <<fin, kill>>
    BY <1>12 DEF finishDecides
  <2>2. CASE end("Canceled") /\ UNCHANGED <<iter, fail>>
    BY <1>1, <2>1, <2>2
  <2>3. CASE fin.cont /\ continueWith /\ UNCHANGED <<outcome, reviewVars>>
    BY <1>3, <2>1, <2>3 DEF Claimed
  <2>4. CASE (goto("salvage") \/ goto("repro")) /\ UNCHANGED <<iter, fail>>
    BY <1>2, <2>1, <2>4 DEF goto, reviewVars, BeforeReview
  <2>5. QED
    BY <1>12, <2>2, <2>3, <2>4, Zenon DEF finishDecides
<1>13. CASE finishRepro
  <2>1. phase = "repro" /\ kill = "none" /\ UNCHANGED <<fin, kill>>
    BY <1>13 DEF finishRepro
  <2>2. CASE fin.cont /\ continueWith /\ UNCHANGED <<outcome, reviewVars, fail>>
    BY <1>3, <2>1, <2>2 DEF Claimed
  <2>3. CASE (goto("salvage") \/ goto("answer")) /\ UNCHANGED iter
    BY <1>2, <2>1, <2>3 DEF goto, reviewVars, BeforeReview
  <2>4. QED
    BY <1>13, <2>2, <2>3, Zenon DEF finishRepro
<1>14. CASE finishAnswer \/ upgradeReview
  <2>1. phase = "answer" /\ UNCHANGED <<iter, fin, kill>>
    BY <1>14 DEF finishAnswer, upgradeReview
  <2>2. CASE end("Answered")
    BY <1>1, <2>1, <2>2
  <2>3. CASE goto("salvage")
    BY <1>2, <2>1, <2>3 DEF goto, reviewVars, BeforeReview
  <2>4. CASE /\ pol.reviewer /\ phase' = "review" /\ outcome' = outcome
             /\ \/ reviewFinish(fin.cont) /\ kill = "none"
                \/ reviewFinish(FALSE)
    <3>1. pol' = pol /\ (canContinue' => kill = "none" /\ fin.cont)
      BY <2>4 DEF reviewFinish
    <3>2. QED
      BY <2>1, <2>4, <3>1 DEF Claimed
  <2>5. QED
    BY <1>14, <2>2, <2>3, <2>4, Zenon DEF finishAnswer, upgradeReview
<1>15. CASE finishReviewed
  <2>1. phase = "review" /\ kill = "none" /\ stage = "idle" /\ UNCHANGED <<fin, kill>>
    BY <1>15 DEF finishReviewed
  <2>2. CASE decision = "feedback" /\ continueWith /\ UNCHANGED <<outcome, reviewVars>>
    <3>1. fin.cont
      BY <2>1, <2>2 DEF ReviewCalls
    <3>2. QED
      BY <1>3, <2>1, <2>2, <3>1 DEF Claimed
  <2>3. CASE (end("Unverified") \/ end("Answered")) /\ UNCHANGED iter
    BY <1>1, <2>1, <2>3
  <2>4. QED
    BY <1>15, <2>2, <2>3, Zenon DEF finishReviewed
<1>16. CASE salvage
  <2>1. phase = "salvage" /\ UNCHANGED <<iter, fin, kill>>
    BY <1>16 DEF salvage
  <2>2. CASE reviewUnverified /\ UNCHANGED <<phase, outcome>>
    BY <2>1, <2>2 DEF Claimed
  <2>3. CASE end(IF fail.outcome # "none" THEN fail.outcome ELSE kill)
    <3>1. kill = "none" => fail.outcome # "none"
      BY <2>1 DEF FailureControl
    <3>2. QED
      BY <1>1, <2>1, <2>3, <3>1
  <2>4. QED
    BY <1>16, <2>2, <2>3, Zenon DEF salvage
<1>17. CASE upgradeIfVerified
  <2>1. phase = "upgrade" /\ kill # "none" /\ UNCHANGED <<iter, fin, kill>>
    BY <1>17 DEF upgradeIfVerified
  <2>2. (\E o \in {kill, "ScopeViolation", "Unverified"} : end(o)) \/ goto("verify")
    BY <1>17, Zenon DEF upgradeIfVerified
  <2>3. CASE \E o \in {kill, "ScopeViolation", "Unverified"} : end(o)
    BY <1>1, <2>1, <2>3
  <2>4. QED
    BY <1>2, <2>1, <2>2, <2>3 DEF goto, reviewVars, BeforeReview
<1>18. CASE upgradeVerify \/ upgradeRetry
  <2>1. phase \in {"verify", "reverify"} /\ kill # "none" /\ UNCHANGED <<iter, fin, kill>>
    BY <1>18 DEF upgradeVerify, upgradeRetry
  <2>2. end(kill) \/ goto("reverify") \/ goto("repro") \/ goto("salvage")
    BY <1>18, Zenon DEF upgradeVerify, upgradeRetry, upgradeOn
  <2>3. CASE end(kill)
    BY <1>1, <2>1, <2>3
  <2>4. QED
    BY <1>2, <2>1, <2>2, <2>3 DEF goto, reviewVars, BeforeReview
<1>19. CASE upgradeRepro
  <2>1. phase = "repro" /\ UNCHANGED <<iter, fin, kill>> /\ (goto("salvage") \/ goto("answer"))
    BY <1>19, Zenon DEF upgradeRepro
  <2>2. QED
    BY <1>2, <2>1 DEF goto, reviewVars, BeforeReview
<1>20. CASE upgradeReviewed
  <2>1. phase = "review" /\ kill # "none" /\ UNCHANGED <<iter, fin, kill>> /\ (end(kill) \/ end("Answered"))
    BY <1>20, Zenon DEF upgradeReviewed
  <2>2. QED
    BY <1>1, <2>1
<1>21. CASE runningReview
  <2>1. UNCHANGED <<pol, canContinue>>
    BY <1>21, ReviewMoves DEF runningReview
  <2>2. QED
    BY <1>21, <2>1 DEF runningReview, gateVars, Claimed
<1>22. CASE callerCancels \/ UNCHANGED vars
  BY <1>22 DEF callerCancels, cancel, vars, reviewVars, gateVars, Claimed
<1>23. QED
  BY <1>4, <1>5, <1>6, <1>7, <1>8, <1>9, <1>10, <1>11, <1>12, <1>13, <1>14, <1>15, <1>16, <1>17, <1>18, <1>19,
     <1>20, <1>21, <1>22, Zenon DEF ClosingNext, solverStep, gateStep

-----------------------------------------------------------------------------
(* The run's policy is settled at its start. *)
LEMMA PolicyStays ==
    ASSUME ReviewCalls, fin.cont \in BOOLEAN, [ClosingNext]_vars PROVE pol' = pol
<1>1. [ReviewNext]_reviewVars
  BY StepsAreReviewSteps
<1>2. CASE solverEdits \/ solverFinishes \/ runFails \/ report \/ cancel \/ UNCHANGED reviewVars
  BY <1>2, Zenon DEF solverEdits, solverFinishes, runFails, report, cancel, reviewFinish, reviewUnverified, reviewVars
<1>3. CASE reviewStep
  BY <1>3, Zenon DEF reviewStep, salvageCapture, captureDiffFails, nothingToReview, startRound, reviewFails, reviewReturns,
     solicitReturns, solicitFails, classifyProse, escalate, escalateSettles, escalateUnsnapshotted, settle
<1>4. QED
  BY <1>1, <1>2, <1>3 DEF ReviewNext

(* A gate that fails a claim is one that was armed; the soft gate fails one  *)
(* only while it has feedback left to spend.                                 *)
LEMMA FailureControlStep ==
    ASSUME ReviewTypeOK, RunTyped, ReviewCalls, TurnControl, FailureControl, [ClosingNext]_vars
    PROVE  FailureControl'
<1> USE DEF FailureControl
<1>0. /\ fail.outcome \in {"none", "Unverified"} /\ fed \in Nat /\ pol' = pol
      /\ Clean.outcome = "none" /\ Failing("Unverified", TRUE).outcome = "Unverified"
  BY PolicyStays, FailureValues DEF RunTyped, Failures, FinishClaims
<1>1. ASSUME NEW o, end(o), o # "none" PROVE FailureControl'
  BY <1>1 DEF end
<1>2. ASSUME NEW p, phase' = p, p # "start", UNCHANGED <<fed, fin, kill>>, phase \notin {"decide", "salvage", "done"},
             \/ fail' = fail /\ p \notin {"decide", "salvage"}
             \/ fail' = Clean /\ p # "salvage"
             \/ fail' = Failing("Unverified", TRUE) /\ p \in {"decide", "salvage"} /\ (~SoftSpent \/ fin.empty)
             \/ fail' = fail /\ p = "salvage" /\ kill # "none"
      PROVE  FailureControl'
  BY <1>0, <1>2 DEF SoftSpent
<1>3. pol.fence \/ pol.scope \/ pol.requireDiff \/ pol.reproFirst => ~SoftSpent
  BY DEF SoftSpent
<1>4. \A r \in reproFinish : pol.reproFirst \/ reproPasses(r)
  BY DEF reproFinish, reproPasses
<1>5. \A ok : requireDiffFails(ok) => pol.requireDiff
  BY DEF requireDiffFails
<1>6. CASE redBaselineRefusal \/ turnStarts \/ turnEnds \/ turnDies
  <2>1. /\ phase \in {"start", "top", "acting"} /\ UNCHANGED <<fed, fin, fail>>
        /\ phase' \in {"top", "acting", "upgrade", "done"}
    BY <1>6, Zenon DEF redBaselineRefusal, turnStarts, turnEnds, turnDies, goto, end
  <2>2. QED
    BY <2>1
<1>7. CASE mutation \/ failedCall \/ declareRepro \/ skipRepro
  BY <1>7 DEF mutation, failedCall, acts, declareRepro, skipRepro
<1>8. CASE claimDone
  <2>1. phase = "acting" /\ phase' = "safety" /\ fail' = Clean
    BY <1>8, Zenon DEF claimDone, goto
  <2>2. QED
    BY <1>0, <2>1
<1>9. CASE verifySafety
  <2>1. \A f \in fenceCheck : pol.fence \/ f = "clean"
    BY DEF fenceCheck
  <2>2. \A s \in scopeCheck : pol.scope \/ s = "clean"
    BY DEF scopeCheck
  <2>3. /\ phase = "safety" /\ UNCHANGED <<fed, fin, kill>>
        /\ \/ end("ScopeViolation")
           \/ phase' = "completion" /\ fail' = fail
           \/ phase' = "decide" /\ fail' = Clean
           \/ phase' = "decide" /\ fail' = Failing("Unverified", TRUE) /\ (pol.fence \/ pol.scope \/ pol.requireDiff)
    BY <1>5, <1>9, <2>1, <2>2, Zenon DEF verifySafety, goto
  <2>4. QED
    BY <1>1, <1>2, <1>3, <2>3
<1>10. ASSUME NEW out, verifyCompletionFailure(out), phase' = "decide", UNCHANGED <<fin, kill>> PROVE FailureControl'
  <2>1. fail'.outcome = "none" \/ (out # "ok" /\ ~softAccepts(out))
    BY <1>0, <1>10 DEF verifyCompletionFailure
  <2>2. out # "ok" /\ ~softAccepts(out) /\ pol.soft => ~(fed' > MaxFeedback)
    BY <1>0, <1>10, GateAssumption DEF verifyCompletionFailure, softAccepts
  <2>3. fail'.outcome = "none" \/ ~SoftSpent'
    BY <1>0, <2>1, <2>2 DEF SoftSpent
  <2>4. QED
    BY <1>10, <2>3
<1>11. CASE verifyCompletion
  <2>1. /\ phase = "completion" /\ UNCHANGED <<fin, kill>>
        /\ \/ phase' = "decide" /\ \E out : verifyCompletionFailure(out)
           \/ phase' = "decide" /\ fed' = fed /\ fail' = Failing("Unverified", TRUE) /\ pol.requireDiff
           \/ phase' = "verify" /\ UNCHANGED <<fed, fail>>
    BY <1>5, <1>11, Zenon DEF verifyCompletion, goto
  <2>2. QED
    BY <1>2, <1>3, <1>10, <2>1
<1>12. CASE verifyTermination \/ verifyRetry
  <2>1. /\ phase \in {"verify", "reverify"} /\ UNCHANGED <<fin, kill>>
        /\ \/ phase' = "decide" /\ \E out : verifyCompletionFailure(out)
           \/ phase' = "reverify" /\ UNCHANGED <<fed, fail>>
    BY <1>12, Zenon DEF verifyTermination, verifyRetry, verdictOn, goto
  <2>2. QED
    BY <1>2, <1>10, <2>1
<1>13. CASE finishDecides
  <2>1. CASE end("Canceled")
    BY <1>1, <2>1
  <2>2. CASE continueWith /\ fail' = Clean
    BY <1>0, <2>2 DEF continueWith
  <2>3. CASE fail.outcome # "none" /\ goto("salvage") /\ UNCHANGED <<iter, fail>>
    BY <1>0, <1>13, <2>3 DEF finishDecides, goto, SoftSpent
  <2>4. CASE fail.outcome = "none" /\ goto("repro") /\ UNCHANGED <<iter, fail>>
    BY <1>13, <2>4 DEF finishDecides, goto
  <2>5. QED
    BY <1>13, <2>1, <2>2, <2>3, <2>4, Zenon DEF finishDecides
<1>14. CASE finishRepro \/ upgradeRepro
  <2>1. /\ phase = "repro" /\ UNCHANGED <<fed, fin, kill>>
        /\ \/ phase' \in {"top", "answer"} /\ fail' = fail
           \/ phase' = "salvage" /\ fail' = Failing("Unverified", TRUE) /\ pol.reproFirst
    BY <1>4, <1>14, Zenon DEF finishRepro, upgradeRepro, continueWith, goto
  <2>2. QED
    BY <1>2, <1>3, <2>1
<1>15. CASE finishAnswer \/ upgradeReview
  <2>1. /\ phase = "answer" /\ UNCHANGED <<fed, fin, kill>>
        /\ \/ end("Answered")
           \/ phase' = "review" /\ fail' = fail
           \/ phase' = "salvage" /\ fail' = Failing("Unverified", TRUE) /\ fin.empty
    BY <1>15, Zenon DEF finishAnswer, upgradeReview, goto
  <2>2. QED
    BY <1>1, <1>2, <2>1
<1>16. CASE finishReviewed
  <2>1. /\ phase = "review" /\ UNCHANGED <<fed, fin, kill, fail>>
        /\ end("Unverified") \/ end("Answered") \/ phase' = "top"
    BY <1>16, Zenon DEF finishReviewed, continueWith
  <2>2. QED
    BY <1>1, <1>2, <2>1
<1>17. CASE salvage
  <2>1. /\ phase = "salvage" /\ UNCHANGED <<fed, fin, kill, fail>>
        /\ phase' = phase \/ phase' = "done"
    BY <1>17, Zenon DEF salvage, end
  <2>2. QED
    BY <1>0, <2>1 DEF SoftSpent
<1>18. CASE upgradeIfVerified \/ upgradeVerify \/ upgradeRetry
  <2>1. /\ phase \in {"upgrade", "verify", "reverify"} /\ UNCHANGED <<fed, fin, kill, fail>> /\ kill # "none"
        /\ phase' \in {"verify", "reverify", "repro", "salvage", "done"}
    BY <1>18, Zenon DEF upgradeIfVerified, upgradeVerify, upgradeRetry, upgradeOn, goto, end, TurnControl
  <2>2. QED
    BY <1>0, <2>1
<1>19. CASE upgradeReviewed
  BY <1>1, <1>19, Zenon DEF upgradeReviewed, TurnControl
<1>20. CASE runningReview \/ callerCancels \/ UNCHANGED vars
  <2>1. UNCHANGED <<phase, fed, fin, kill, fail>>
    BY <1>20 DEF runningReview, callerCancels, vars, gateVars
  <2>2. QED
    BY <1>0, <2>1 DEF SoftSpent
<1>21. QED
  BY <1>6, <1>7, <1>8, <1>9, <1>11, <1>12, <1>13, <1>14, <1>15, <1>16, <1>17, <1>18, <1>19, <1>20, Zenon
     DEF ClosingNext, solverStep, gateStep

-----------------------------------------------------------------------------
(* What each gate's clean answer says of the workspace it looked at.         *)
LEMMA FencesSay ==
    ASSUME NEW f \in fenceCheck, NEW s \in scopeCheck, f = "clean", s = "clean"
    PROVE  (pol.fence => tree \in FenceClean) /\ (pol.scope => tree \in InScope)
  BY DEF fenceCheck, scopeCheck

(* A reproduction recorded as validated is intact and green on this tree.    *)
LEMMA ReproSays ==
    ASSUME repro \in Repros, NEW r \in reproFinish, reproPasses(r), recordRepro(r)
    PROVE  pol.reproFirst => \/ repro' \in {"skipped", "timedOut"}
                             \/ repro' = "validated" /\ tree \in ReproIntact /\ tree \in ReproGreen
<1>1. r \in {"clean", "timeout"}
  BY DEF reproPasses
<1>2. CASE r = "timeout"
  BY <1>2 DEF recordRepro
<1>3. CASE r = "clean" /\ pol.reproFirst
  <2>1. repro # "none"
    BY <1>3 DEF reproFinish
  <2>2. repro = "skipped" \/ (tree \in ReproIntact /\ tree \in ReproGreen)
    BY <1>3, <2>1, Zenon DEF reproFinish
  <2>3. repro' = repro
    BY <1>3 DEF recordRepro
  <2>4. QED
    BY <2>1, <2>2, <2>3 DEF Repros
<1>4. QED
  BY <1>1, <1>2, <1>3

LEMMA VerifySays == \A out \in verifyRuns : out = "ok" => VerifyOut[tree] = "ok"
  BY DEF verifyRuns

(* A clean verdict means that the command printed "ok", or the soft gate gave up. *)
LEMMA VerdictSays ==
    ASSUME NEW out, verifyCompletionFailure(out), fail'.outcome = "none" PROVE out = "ok" \/ pol.soft
<1>1. \A b : Failing("Unverified", b).outcome = "Unverified"
  BY DEF Failing
<1>2. fail' = Clean \/ \E b : fail' = Failing("Unverified", b)
  BY Zenon DEF verifyCompletionFailure
<1>3. out = "ok" \/ softAccepts(out) \/ \E b : fail' = Failing("Unverified", b)
  BY Zenon DEF verifyCompletionFailure
<1>4. QED
  BY <1>1, <1>3 DEF softAccepts

(* The baseline stands in for a command on the tree it was measured on. *)
LEMMA BaselineSays ==
    ASSUME BaselineHolds, NEW ok, unchangedRunTree(ok), base.measured, base.red \in BOOLEAN,
           (IF base.red THEN VerifyOut[BaseTree] ELSE "ok") = "ok"
    PROVE  VerifyOut[tree] = "ok"
  BY DEF BaselineHolds, unchangedRunTree

(* Evidence is recorded of the tree the command ran on. *)
LEMMA EvidenceRecorded ==
    ASSUME EvidenceHere, Here = tree, Here' = tree,
           vlog' = vlog \/ (\E out \in verifyRuns : recordVerify(out)), Recorded
    PROVE  EvidenceHere'
<1>1. vlog'.fresh /\ vlog'.status = "passed" => VerifyOut[Here'] = "ok" \/ vlog'.lag
  <2>1. CASE vlog' = vlog
    BY <2>1 DEF EvidenceHere
  <2>2. CASE \E out \in verifyRuns : recordVerify(out)
    BY <2>2, RecordTyped, VerifySays
  <2>3. QED
    BY <2>1, <2>2
<1>2. closing'.fresh /\ closing'.known => closing'.tree = Here' \/ closing'.lag
  BY DEF Recorded, EvidenceHere
<1>3. QED
  BY <1>1, <1>2 DEF EvidenceHere

(* Only a mutating tool call and a repro command move the workspace.         *)
LEMMA GatesKeepHere ==
    ASSUME ReviewCalls, redBaselineRefusal \/ turnStarts \/ turnEnds \/ turnDies \/ claimDone
                        \/ declareRepro \/ skipRepro \/ gateStep \/ callerCancels \/ UNCHANGED vars
    PROVE  Here' = Here /\ damaged' = damaged
<1>1. \A o : end(o) => UNCHANGED <<tree, preTree, stage, damaged>>
  BY DEF end
<1>2. \A p : goto(p) => UNCHANGED <<tree, preTree, stage, damaged>>
  BY DEF goto, reviewVars
<1>3. UNCHANGED reviewVars => UNCHANGED <<tree, preTree, stage, damaged>>
  BY DEF reviewVars
<1>4. ASSUME UNCHANGED <<tree, preTree, stage, damaged>> PROVE Here' = Here /\ damaged' = damaged
  BY <1>4 DEF Here
<1>5. CASE redBaselineRefusal \/ turnStarts \/ turnEnds \/ turnDies \/ claimDone \/ declareRepro \/ skipRepro
  BY <1>1, <1>2, <1>3, <1>4, <1>5, Zenon DEF redBaselineRefusal, turnStarts, turnEnds, turnDies, claimDone, declareRepro, skipRepro
<1>6. CASE verifySafety \/ verifyCompletion \/ finishDecides \/ finishRepro \/ finishReviewed
  BY <1>1, <1>2, <1>3, <1>4, <1>6, Zenon DEF verifySafety, verifyCompletion, finishDecides, finishRepro, finishReviewed
<1>7. CASE verifyTermination \/ verifyRetry \/ upgradeVerify \/ upgradeRetry
  BY <1>1, <1>2, <1>3, <1>4, <1>7, Zenon DEF verifyTermination, verifyRetry, verdictOn, upgradeVerify, upgradeRetry, upgradeOn
<1>8. CASE upgradeIfVerified \/ upgradeRepro \/ upgradeReviewed
  BY <1>1, <1>2, <1>4, <1>8, Zenon DEF upgradeIfVerified, upgradeRepro, upgradeReviewed
<1>9. CASE finishAnswer \/ upgradeReview
  <2>1. CASE \E cont : reviewFinish(cont)
    <3>1. UNCHANGED <<tree, damaged>> /\ stage = "idle" /\ stage' # "repro"
      BY <2>1 DEF reviewFinish, Answer
    <3>2. QED
      BY <3>1 DEF Here
  <2>2. QED
    BY <1>1, <1>2, <1>4, <1>9, <2>1, Zenon DEF finishAnswer, upgradeReview
<1>10. CASE salvage
  <2>1. CASE reviewUnverified
    BY <2>1 DEF reviewUnverified, Here
  <2>2. QED
    BY <1>1, <1>4, <1>10, <2>1, Zenon DEF salvage
<1>11. CASE callerCancels \/ UNCHANGED vars
  BY <1>3, <1>4, <1>11, Zenon DEF callerCancels, cancel, vars
<1>12. QED
  BY <1>5, <1>6, <1>7, <1>8, <1>9, <1>10, <1>11 DEF gateStep

(* Every step keeps what the gates have established, or establishes it       *)
(* again of the workspace it looked at.                                      *)
LEMMA EstablishedStep ==
    ASSUME ReviewTypeOK, RunTyped, ReviewCalls, TurnControl, FailureControl, Established, [ClosingNext]_vars
    PROVE  Established'
<1>0. /\ tree \in Trees /\ damaged \in BOOLEAN /\ base \in Baselines /\ base.known \in BOOLEAN /\ base.red \in BOOLEAN
      /\ fail.outcome \in {"none", "Unverified"} /\ repro \in Repros /\ pol' = pol /\ BaselineHolds
      /\ Clean.outcome = "none" /\ Failing("Unverified", TRUE).outcome = "Unverified"
  BY PolicyStays, FailureValues DEF ReviewTypeOK, RunTyped, Baselines, Failures, FinishClaims, Established
<1>1. phase \in BeforeReview \ {"review"} => stage = "idle" /\ Here = tree
  BY DEF ReviewCalls, Here, BeforeReview
<1>2. base' = base
  BY Zenon DEF ClosingNext, solverStep, gateStep, redBaselineRefusal, turnStarts, turnEnds, mutation, failedCall, acts, declareRepro, skipRepro,
     turnDies, claimDone, verifySafety, verifyCompletion, verifyTermination, verifyRetry, finishDecides, finishRepro,
     finishAnswer, finishReviewed, salvage, upgradeIfVerified, upgradeVerify, upgradeRetry, upgradeRepro, upgradeReview,
     upgradeReviewed, runningReview, callerCancels, vars, gateVars
<1>3. BaselineHolds'
  BY <1>0, <1>2 DEF BaselineHolds
<1>4. SUFFICES ASSUME ~damaged' PROVE (GreenSoFar /\ FencedSoFar /\ ReproSoFar /\ ChangedSoFar /\ EvidenceHere)'
  BY <1>3 DEF Established
<1> DEFINE Kept == /\ ~damaged /\ Here' = Here
                   /\ GreenSoFar /\ FencedSoFar /\ ReproSoFar /\ ChangedSoFar /\ EvidenceHere
<1>5. ASSUME Kept, UNCHANGED <<vlog, closing>>, phase' \notin {"completion", "verify", "reverify", "decide", "repro", "answer", "review"}
      PROVE  (GreenSoFar /\ FencedSoFar /\ ReproSoFar /\ ChangedSoFar /\ EvidenceHere)'
  BY <1>5 DEF GreenSoFar, FencedSoFar, ReproSoFar, ChangedSoFar, EvidenceHere, Judged
<1>6. redBaselineRefusal \/ turnStarts \/ turnEnds \/ turnDies \/ claimDone \/ declareRepro \/ skipRepro \/ gateStep
      \/ callerCancels \/ UNCHANGED vars => Kept
  BY <1>0, <1>4, GatesKeepHere DEF Established
<1>7. \A o : end(o) => phase' = "done"
  BY DEF end
<1>8. CASE redBaselineRefusal \/ turnStarts \/ turnEnds \/ turnDies \/ claimDone \/ declareRepro \/ skipRepro
  <2>1. UNCHANGED <<vlog, closing>> /\ phase' \in {"top", "acting", "upgrade", "safety", "done"}
    BY <1>7, <1>8, Zenon DEF redBaselineRefusal, turnStarts, turnEnds, turnDies, claimDone, declareRepro, skipRepro, goto
  <2>2. Kept
    BY <1>6, <1>8, Zenon
  <2> HIDE DEF Kept
  <2>3. QED
    BY <1>5, <2>1, <2>2
<1>9. CASE mutation \/ failedCall
  <2>0. vlog \in Events /\ closing \in Records
    BY DEF RunTyped
  <2>1. ASSUME mutation PROVE EvidenceHere'
    <3>1. vlog'.fresh = FALSE /\ closing'.fresh = FALSE
      BY <2>0, <2>1 DEF mutation, Events, Records
    <3>2. QED
      BY <3>1 DEF EvidenceHere
  <2>2. ASSUME failedCall PROVE EvidenceHere'
    <3>1. ~damaged /\ phase = "acting" /\ Here = tree /\ Here' = tree' /\ EvidenceHere
      <4>1. phase = "acting" /\ stage' = stage /\ damaged' = damaged
        BY <2>2 DEF failedCall, acts
      <4>2. QED
        BY <1>1, <1>4, <4>1 DEF Established, BeforeReview, Here
    <3> DEFINE v == vlog.lag \/ (vlog.fresh /\ tree' # tree)
               c == closing.lag \/ (closing.fresh /\ tree' # tree)
    <3>2. vlog' = [vlog EXCEPT !.lag = v] /\ closing' = [closing EXCEPT !.lag = c]
      BY <2>2, Zenon DEF failedCall
    <3> HIDE DEF v, c
    <3>3. /\ vlog'.fresh = vlog.fresh /\ vlog'.status = vlog.status /\ vlog'.lag = v
          /\ closing'.fresh = closing.fresh /\ closing'.known = closing.known
          /\ closing'.tree = closing.tree /\ closing'.lag = c
      BY <2>0, <3>2, Zenon DEF Events, Records
    <3>4. CASE tree' = tree
      <4>1. (v <=> vlog.lag) /\ (c <=> closing.lag)
        BY <3>4, Zenon DEF v, c
      <4>2. vlog'.fresh /\ vlog'.status = "passed" => VerifyOut[Here'] = "ok" \/ vlog'.lag
        BY <3>1, <3>3, <3>4, <4>1, Zenon DEF EvidenceHere
      <4>3. closing'.fresh /\ closing'.known => closing'.tree = Here' \/ closing'.lag
        BY <3>1, <3>3, <3>4, <4>1, Zenon DEF EvidenceHere
      <4>4. QED
        BY <4>2, <4>3 DEF EvidenceHere
    <3>5. CASE tree' # tree
      <4>1. (vlog.fresh => v) /\ (closing.fresh => c)
        BY <3>5, Zenon DEF v, c
      <4>2. QED
        BY <3>3, <4>1, Zenon DEF EvidenceHere
    <3>6. QED
      BY <3>4, <3>5
  <2>3. phase' = "acting"
    BY <1>9 DEF mutation, failedCall, acts
  <2>4. QED
    BY <1>9, <2>1, <2>2, <2>3 DEF GreenSoFar, FencedSoFar, ReproSoFar, ChangedSoFar, Judged
<1>10. CASE verifySafety
  <2>1. /\ phase = "safety" /\ kill = "none" /\ Here = tree /\ Kept
        /\ UNCHANGED <<fin, kill, repro, vlog, closing>>
    BY <1>1, <1>6, <1>10 DEF verifySafety, TurnControl, BeforeReview, gateStep
  <2>2. \/ phase' = "done"
        \/ phase' = "decide" /\ fail' = Failing("Unverified", TRUE)
        \/ /\ \E f \in fenceCheck, s \in scopeCheck : f = "clean" /\ s = "clean"
           /\ phase' = "completion" \/ (phase' = "decide" /\ fin.trusted)
    BY <1>7, <1>10, Zenon DEF verifySafety, goto
  <2>3. EvidenceHere'
    BY <2>1 DEF EvidenceHere
  <2>4. FencedSoFar'
    BY <1>0, <2>1, <2>2, FencesSay DEF FencedSoFar, Judged
  <2>5. QED
    BY <1>0, <2>1, <2>2, <2>3, <2>4 DEF GreenSoFar, ReproSoFar, ChangedSoFar, Judged
<1>11. CASE verifyCompletion
  <2>1. /\ phase = "completion" /\ kill = "none" /\ Here = tree /\ Kept
        /\ UNCHANGED <<fin, kill, repro, vlog, closing>>
    BY <1>1, <1>6, <1>11 DEF verifyCompletion, TurnControl, BeforeReview, gateStep
  <2>2. \/ phase' = "decide" /\ fail' = Failing("Unverified", TRUE)
        \/ phase' = "verify"
        \/ /\ phase' = "decide" /\ (pol.soft \/ base.measured)
           /\ \E ok : unchangedRunTree(ok)
           /\ verifyCompletionFailure(IF base.red THEN VerifyOut[BaseTree] ELSE "ok")
    BY <1>11, Zenon DEF verifyCompletion, goto
  <2>3. FencedSoFar' /\ EvidenceHere'
    BY <1>0, <2>1, <2>2 DEF FencedSoFar, EvidenceHere, Judged
  <2>4. GreenSoFar'
    <3>1. SUFFICES ASSUME Judged', pol.cmd, ~pol.soft, ~fin.trusted PROVE VerifyOut[tree] = "ok"
      BY <1>0, <2>1 DEF GreenSoFar
    <3>2. /\ \E ok : unchangedRunTree(ok) /\ base.measured
          /\ verifyCompletionFailure(IF base.red THEN VerifyOut[BaseTree] ELSE "ok") /\ fail'.outcome = "none"
      BY <1>0, <2>2, <3>1 DEF Judged
    <3>3. QED
      BY <1>0, <3>1, <3>2, VerdictSays, BaselineSays
  <2>5. QED
    BY <2>1, <2>2, <2>3, <2>4 DEF ReproSoFar, ChangedSoFar
<1>12. CASE verifyTermination \/ verifyRetry
  <2>1. /\ phase \in {"verify", "reverify"} /\ kill = "none" /\ Here = tree /\ Kept
        /\ UNCHANGED <<fin, kill, repro>>
    BY <1>1, <1>6, <1>12 DEF verifyTermination, verifyRetry, BeforeReview, gateStep
  <2>2. \/ phase' = "reverify" /\ closing' = closing
        \/ /\ phase' = "decide" /\ (\E out : verdictOn(out))
           /\ \E out : /\ verifyCompletionFailure(out)
                       /\ pol.cmd => out \in verifyRuns \cup {"infra", "skipped"}
    BY <1>12, Zenon DEF verifyTermination, verifyRetry, verdictOn, goto
  <2>3. EvidenceHere'
    <3>1. Recorded
      BY <1>0, <2>2, ClosingTyped DEF Recorded
    <3>2. vlog' = vlog \/ \E out \in verifyRuns : recordVerify(out)
      BY <1>12, Zenon DEF verifyTermination, verifyRetry
    <3>3. QED
      BY <2>1, <3>1, <3>2, EvidenceRecorded
  <2>4. GreenSoFar'
    <3>1. SUFFICES ASSUME Judged', pol.cmd, ~pol.soft, ~fin.trusted PROVE VerifyOut[tree] = "ok"
      BY <1>0, <2>1 DEF GreenSoFar
    <3>2. PICK out \in verifyRuns \cup {"infra", "skipped"} : verifyCompletionFailure(out) /\ fail'.outcome = "none"
      BY <2>2, <3>1 DEF Judged
    <3>3. out = "ok"
      BY <3>1, <3>2, VerdictSays
    <3>4. QED
      BY <3>2, <3>3, VerifySays
  <2>5. QED
    BY <1>0, <2>1, <2>2, <2>3, <2>4 DEF FencedSoFar, ReproSoFar, ChangedSoFar
<1>13. CASE finishDecides
  <2>1. phase = "decide" /\ kill = "none" /\ Kept /\ UNCHANGED <<fin, kill, repro, vlog, closing>>
    BY <1>6, <1>13 DEF finishDecides, TurnControl, gateStep
  <2>2. phase' \in {"done", "top", "salvage"} \/ (phase' = "repro" /\ fail.outcome = "none")
    BY <1>7, <1>13, Zenon DEF finishDecides, continueWith, goto
  <2>3. QED
    BY <1>0, <2>1, <2>2 DEF GreenSoFar, FencedSoFar, ReproSoFar, ChangedSoFar, EvidenceHere, Judged
<1>14. CASE finishRepro \/ upgradeRepro
  <2>1. phase = "repro" /\ Here = tree /\ Kept /\ UNCHANGED <<fin, kill, vlog, closing>>
    BY <1>1, <1>6, <1>14 DEF finishRepro, upgradeRepro, BeforeReview, gateStep
  <2>2. \/ phase' \in {"top", "salvage"}
        \/ phase' = "answer" /\ \E r \in reproFinish : reproPasses(r) /\ recordRepro(r)
    BY <1>14, Zenon DEF finishRepro, upgradeRepro, continueWith, goto
  <2>3. ReproSoFar'
    BY <1>0, <2>1, <2>2, ReproSays DEF ReproSoFar
  <2>4. QED
    BY <1>0, <1>2, <2>1, <2>2, <2>3 DEF GreenSoFar, FencedSoFar, ChangedSoFar, EvidenceHere, Judged
<1>15. CASE finishAnswer \/ upgradeReview
  <2>1. phase = "answer" /\ Kept /\ UNCHANGED <<fin, kill, repro, vlog, closing>>
    BY <1>6, <1>15 DEF finishAnswer, upgradeReview, gateStep
  <2>2. phase' \in {"done", "salvage", "review"}
    BY <1>7, <1>15, Zenon DEF finishAnswer, upgradeReview, goto
  <2>3. QED
    BY <1>0, <1>2, <2>1, <2>2 DEF GreenSoFar, FencedSoFar, ReproSoFar, ChangedSoFar, EvidenceHere, Judged
<1>16. CASE finishReviewed \/ upgradeReviewed
  <2>1. UNCHANGED <<vlog, closing>> /\ phase' \in {"top", "done"}
    BY <1>7, <1>16, Zenon DEF finishReviewed, upgradeReviewed, continueWith
  <2>2. Kept
    BY <1>6, <1>16, Zenon DEF gateStep
  <2> HIDE DEF Kept
  <2>3. QED
    BY <1>5, <2>1, <2>2
<1>17. CASE salvage
  <2>1. UNCHANGED <<vlog, closing>> /\ phase' \in {"salvage", "done"}
    BY <1>7, <1>17, Zenon DEF salvage
  <2>2. Kept
    BY <1>6, <1>17, Zenon DEF gateStep
  <2> HIDE DEF Kept
  <2>3. QED
    BY <1>5, <2>1, <2>2
<1>18. CASE upgradeIfVerified
  <2>1. phase = "upgrade" /\ Here = tree /\ Kept /\ UNCHANGED <<kill, repro, vlog, closing>>
    BY <1>1, <1>6, <1>18 DEF upgradeIfVerified, BeforeReview, gateStep
  <2>2. \/ phase' = "done"
        \/ /\ phase' = "verify" /\ canceled' = canceled
           /\ \E f \in fenceCheck, s \in scopeCheck : f = "clean" /\ s = "clean"
           /\ \E ok \in snapshots : ~unchangedRunTree(ok)
    BY <1>7, <1>18, Zenon DEF upgradeIfVerified, goto, reviewVars
  <2>3. FencedSoFar'
    BY <1>0, <2>1, <2>2, FencesSay DEF FencedSoFar, Judged
  <2>4. ChangedSoFar'
    BY <1>0, <1>2, <2>1, <2>2 DEF ChangedSoFar, snapshots, unchangedRunTree
  <2>5. QED
    BY <2>1, <2>2, <2>3, <2>4 DEF GreenSoFar, ReproSoFar, EvidenceHere, Judged
<1>19. CASE upgradeVerify \/ upgradeRetry
  <2>1. /\ phase \in {"verify", "reverify"} /\ kill # "none" /\ Here = tree /\ Kept
        /\ UNCHANGED <<kill, repro>>
    BY <1>1, <1>6, <1>19 DEF upgradeVerify, upgradeRetry, BeforeReview, gateStep
  <2>2. \/ phase' \in {"done", "salvage"}
        \/ phase' = "reverify" /\ ~canceled /\ canceled' = canceled
        \/ phase' = "repro" /\ ~canceled /\ \E out \in verifyRuns : out = "ok"
    <3>1. \A out : upgradeOn(out) => phase' \in {"done", "salvage"} \/ (phase' = "repro" /\ out = "ok")
      BY <1>7, Zenon DEF upgradeOn, goto
    <3>2. QED
      BY <1>7, <1>19, <3>1, Zenon DEF upgradeVerify, upgradeRetry, goto, reviewVars
  <2>3. EvidenceHere'
    <3>1. closing' = closing \/ \E out : upgradeOn(out)
      BY <1>19, Zenon DEF upgradeVerify, upgradeRetry
    <3>2. Recorded
      BY <1>0, <3>1, ClosingTyped DEF Recorded
    <3>3. vlog' = vlog \/ \E out \in verifyRuns : recordVerify(out)
      BY <1>19, Zenon DEF upgradeVerify, upgradeRetry
    <3>4. QED
      BY <2>1, <3>2, <3>3, EvidenceRecorded
  <2>4. GreenSoFar'
    BY <2>1, <2>2, VerifySays DEF GreenSoFar, Judged
  <2>5. QED
    BY <1>0, <1>2, <2>1, <2>2, <2>3, <2>4 DEF FencedSoFar, ReproSoFar, ChangedSoFar, Judged
<1>20. CASE runningReview
  <2>1. /\ UNCHANGED <<phase, fin, fail, kill, repro, vlog, closing>> /\ phase \in {"review", "salvage"} /\ reviewStep
    BY <1>20 DEF runningReview, gateVars
  <2>2. Kept
    BY <1>0, <1>4, <2>1, ReviewKeepsHere DEF Established
  <2>3. QED
    BY <1>0, <1>2, <2>1, <2>2 DEF GreenSoFar, FencedSoFar, ReproSoFar, ChangedSoFar, EvidenceHere, Judged
<1>21. CASE callerCancels \/ UNCHANGED vars
  <2>1. UNCHANGED <<phase, fin, fail, kill, repro, vlog, closing>> /\ (canceled' = canceled \/ canceled' = TRUE)
    BY <1>21, Zenon DEF callerCancels, cancel, vars, gateVars, reviewVars
  <2>2. Kept
    BY <1>6, <1>21, Zenon
  <2>3. QED
    BY <1>0, <1>2, <2>1, <2>2 DEF GreenSoFar, FencedSoFar, ReproSoFar, ChangedSoFar, EvidenceHere, Judged
<1>22. QED
  <2> HIDE DEF Kept
  <2>1. QED
    BY <1>8, <1>9, <1>10, <1>11, <1>12, <1>13, <1>14, <1>15, <1>16, <1>17, <1>18, <1>19, <1>20, <1>21, Zenon
       DEF ClosingNext, solverStep, gateStep

-----------------------------------------------------------------------------

(* A run starts in the invariant.                                            *)
LEMMA ClosingStart == ClosingInit => ClosingInv
<1> SUFFICES ASSUME ClosingInit PROVE ClosingInv
  OBVIOUS
<1> USE DEF ClosingInit
<1>1. ReviewTypeOK /\ ReproAt /\ stage = "idle" /\ decision = "none" /\ tree = BaseTree /\ canceled = FALSE
  BY ReviewTypeInit DEF ReviewInit
<1>2. ~rv.reported /\ ~rv.salvage
  <2> DEFINE armed == [armed |-> TRUE, skip |-> FALSE, rounds |-> 0, status |-> "none", blocked |-> FALSE,
                       salvage |-> FALSE, findings |-> <<>>, pending |-> {}, reported |-> FALSE]
  <2>1. rv \in {armed, [armed EXCEPT !.armed = FALSE, !.skip = TRUE, !.status = "unavailable"]}
    BY Zenon DEF ReviewInit, newReviewState
  <2>2. armed \in [armed : BOOLEAN, skip : BOOLEAN, rounds : {0}, status : {"none"}, blocked : {FALSE},
                   salvage : {FALSE}, findings : {<<>>}, pending : {{}}, reported : {FALSE}]
    OBVIOUS
  <2> HIDE DEF armed
  <2>3. QED
    BY <2>1, <2>2, Zenon
<1>3. ReviewCalls
  BY <1>1, <1>2 DEF ReviewCalls, BeforeReview, Phases
<1>4. fail.outcome = "none" /\ fail \in Failures
  BY FailureValues
<1>5. TurnControl /\ FailureControl
  BY <1>4, GateAssumption DEF TurnControl, FailureControl, Claimed
<1>6. base \in Baselines /\ BaselineHolds
  BY Zenon DEF newGates, Baselines, BaselineHolds
<1>7. RunTyped
  <2>1. fin \in FinishClaims /\ vlog \in Events /\ closing \in Records
    BY TreesAssumption DEF FinishClaims, Events, Records, Evidence, NoRecord
  <2>2. QED
    BY <1>4, <1>6, <2>1 DEF RunTyped, Outcomes, Repros
<1>8. Established
  BY <1>1, <1>6 DEF Established, GreenSoFar, FencedSoFar, ReproSoFar, ChangedSoFar, EvidenceHere, Judged, NoRecord
<1>9. QED
  BY <1>1, <1>3, <1>5, <1>7, <1>8, ClosingTypeParts, Zenon DEF ClosingInv, TurnControl, ReviewCalls

(* Every step of a run keeps the invariant.                                  *)
LEMMA ClosingInductive == ClosingInv /\ [ClosingNext]_vars => ClosingInv'
<1> SUFFICES ASSUME ClosingInv, [ClosingNext]_vars PROVE ClosingInv'
  OBVIOUS
<1>1. /\ ReviewTypeOK /\ RunTyped /\ ReproAt /\ ReviewCalls /\ TurnControl /\ FailureControl /\ Established
      /\ fin.cont \in BOOLEAN
  BY ClosingTypeParts DEF ClosingInv, RunTyped, FinishClaims
<1>2. (ReviewTypeOK /\ ReproAt)'
  BY <1>1, StepsAreReviewSteps, ReviewTypeInductive
<1>3. ReviewCalls' /\ RunTyped' /\ TurnControl' /\ FailureControl' /\ Established'
  BY <1>1, ReviewCallsStep, RunTypedStep, TurnControlStep, FailureControlStep, EstablishedStep
<1>4. ClosingTypeOK'
  <2>1. phase' \in Phases /\ iter' \in 1..(MaxIters + 1)
    BY <1>3 DEF ReviewCalls, TurnControl
  <2>2. QED
    BY <1>2, <1>3, <2>1, Zenon DEF ClosingTypeOK, RunTyped, FinishClaims, Failures, Baselines, Events, Records, Repros
<1>5. QED
  BY <1>2, <1>3, <1>4 DEF ClosingInv

LEMMA ClosingInvariant == ClosingSpec => []ClosingInv
  BY ClosingStart, ClosingInductive, PTL DEF ClosingSpec

(* Types, and with them the limit on turns, for every mix of gates.          *)
THEOREM ClosingTypeCorrect == ClosingSpec => []ClosingTypeOK
<1>1. ClosingInv => ClosingTypeOK
  BY DEF ClosingInv
<1>2. QED
  BY <1>1, ClosingInvariant, PTL

(* The evidence in the result of a finished run (verificationEvidence,       *)
(* applyClosingVerification) is about the tree delivered, unless a call that *)
(* failed, and that mutGen does not count, changed it afterwards.            *)
THEOREM EvidenceStaysCurrent == ClosingSpec => []EvidenceIsCurrent
<1>1. ClosingInv => EvidenceIsCurrent
  <2> SUFFICES ASSUME ClosingInv, phase = "done", ~damaged
               PROVE  /\ verificationEvidence = "passed" => VerifyOut[tree] = "ok" \/ vlog.lag
                      /\ closingPassed => closing.tree = tree \/ closing.lag
    BY DEF EvidenceIsCurrent
  <2>1. EvidenceHere /\ Here = tree
    BY DEF ClosingInv, Established, ReviewCalls, Here
  <2>2. verificationEvidence = "passed" => vlog.fresh /\ vlog.status = "passed"
    BY DEF verificationEvidence
  <2>3. QED
    BY <2>1, <2>2 DEF EvidenceHere, closingPassed
<1>2. QED
  BY <1>1, ClosingInvariant, PTL

(* Composed with the other gates and the turn loop, the review gate still    *)
(* follows its own specification (reviewFinish's callers in gate.go): what   *)
(* is proved of ReviewSpec is true of every run.                             *)
THEOREM ClosingImplementsReview == ClosingSpec => ReviewSpec
<1>1. ClosingInit => ReviewInit
  BY DEF ClosingInit
<1>2. ClosingInv /\ [ClosingNext]_vars => [ReviewNext]_reviewVars
  <2> SUFFICES ASSUME ClosingInv, [ClosingNext]_vars PROVE [ReviewNext]_reviewVars
    OBVIOUS
  <2>1. ReviewCalls /\ fin.cont \in BOOLEAN
    BY ClosingTypeParts DEF ClosingInv, RunTyped, FinishClaims
  <2>2. QED
    BY <2>1, StepsAreReviewSteps
<1>3. QED
  BY <1>1, <1>2, ClosingInvariant, PTL DEF ClosingSpec, ReviewSpec

-----------------------------------------------------------------------------
(* The bar: where a run is answered, every gate that was armed has been      *)
(* passed on the tree that is delivered.                                     *)
Answering == \/ phase = "answer" /\ (~pol.reviewer \/ (fin.trusted /\ kill = "none"))
             \/ phase = "review" /\ stage = "idle" /\ decision = "pass"

(* Every gate that was armed is satisfied by the tree a run answers on.      *)
LEMMA AnswersAreAcceptable ==
    ASSUME ClosingInv, ReviewInv, Answering PROVE Acceptable
<1>1. SUFFICES ASSUME ~damaged PROVE VerifiedGreen /\ InsideFences /\ Reviewed /\ ReproHonored /\ RescuedAChange
  BY DEF Acceptable
<1>2. /\ Here = tree /\ Judged /\ phase \in {"answer", "review"}
      /\ GreenSoFar /\ FencedSoFar /\ ReproSoFar /\ ChangedSoFar
  <2>1. stage # "repro"
    BY DEF Answering, ClosingInv, ReviewCalls, BeforeReview
  <2>2. QED
    BY <1>1, <2>1 DEF ClosingInv, Established, Answering, Here, Judged
<1>3. VerifiedGreen
  BY <1>2 DEF VerifiedGreen, GreenSoFar
<1>4. InsideFences
  BY <1>2 DEF InsideFences, FencedSoFar
<1>5. ReproHonored
  BY <1>2, Zenon DEF ReproHonored, ReproSoFar
<1>6. RescuedAChange
  BY <1>2 DEF RescuedAChange, ChangedSoFar
<1>7. Reviewed
  <2>1. CASE phase = "review" /\ stage = "idle" /\ decision = "pass"
    <3>1. tree = askTree /\ RequiredMeansReviewed
      BY <1>1, <2>1 DEF ReviewInv, TreeHeld
    <3>2. QED
      BY <1>1, <2>1, <3>1 DEF Reviewed, RequiredMeansReviewed
  <2>2. QED
    BY <2>1 DEF Answering, Reviewed
<1>8. QED
  BY <1>3, <1>4, <1>5, <1>6, <1>7

(* How one step moves the run, as its caller sees it. *)
RunGoesOn == UNCHANGED <<outcome, rescued>> /\ iter' \in {iter, iter + 1}
Ends(o)   == outcome' = o /\ UNCHANGED <<tree, iter>>

LEMMA EndEnds == \A o : end(o) => outcome' = o /\ tree' = tree
  BY DEF end

(* What a step of the run is to the contract: it works, or it ends, once.    *)
LEMMA RunMoves ==
    ASSUME ClosingInv, ClosingNext
    PROVE  /\ phase # "done"
           /\ \/ RunGoesOn
              \/ Ends("Answered") /\ Answering /\ rescued' = rescued
              \/ Ends("Answered") /\ Answering /\ kill # "none" /\ rescued' = kill
              \/ Ends("Unverified") /\ rescued' = rescued /\ (~SoftSpent \/ fin.empty)
              \/ \E o \in {"Canceled", "ProviderErr", "ScopeViolation", kill} :
                    Ends(o) /\ o # "none" /\ rescued' = rescued
<1>0. /\ ReviewCalls /\ TurnControl /\ FailureControl /\ fed \in Nat /\ fail.outcome \in {"none", "Unverified"}
      /\ MaxFeedback \in Nat
  BY ClosingTypeParts, GateAssumption DEF ClosingInv, RunTyped, Failures
<1> USE EndEnds DEF Ends, RunGoesOn
<1>1. CASE redBaselineRefusal
  <2>1. phase = "start" /\ ~SoftSpent
    BY <1>0, <1>1 DEF redBaselineRefusal, FailureControl, SoftSpent
  <2>2. QED
    BY <1>1, <2>1, Zenon DEF redBaselineRefusal, goto, reviewVars
<1>2. CASE turnStarts \/ turnDies
  <2>1. phase # "done" /\ UNCHANGED <<iter, rescued>>
        /\ (outcome' = outcome \/ end("Canceled") \/ end("ProviderErr"))
    BY <1>2, Zenon DEF turnStarts, turnDies, goto
  <2>2. QED
    BY <2>1
<1>3. CASE turnEnds \/ mutation \/ failedCall \/ declareRepro \/ skipRepro \/ claimDone
  <2>1. phase = "acting" /\ UNCHANGED <<outcome, rescued>> /\ (iter' = iter \/ iter' = iter + 1)
    BY <1>3, Zenon DEF turnEnds, mutation, failedCall, acts, declareRepro, skipRepro, claimDone, goto
  <2>2. QED
    BY <2>1
<1>4. CASE verifySafety \/ verifyCompletion \/ verifyTermination \/ verifyRetry
  <2>1. phase \in {"safety", "completion", "verify", "reverify"} /\ UNCHANGED <<iter, rescued>>
        /\ (outcome' = outcome \/ end("ScopeViolation"))
    BY <1>4, Zenon DEF verifySafety, verifyCompletion, verifyTermination, verifyRetry, verdictOn, goto
  <2>2. QED
    BY <2>1
<1>5. CASE finishDecides \/ finishRepro
  <2>1. phase \in {"decide", "repro"} /\ rescued' = rescued
        /\ \/ outcome' = outcome /\ (iter' = iter \/ iter' = iter + 1)
           \/ end("Canceled") /\ iter' = iter
    BY <1>5, Zenon DEF finishDecides, finishRepro, continueWith, goto
  <2>2. QED
    BY <2>1
<1>6. CASE finishAnswer
  <2>1. phase = "answer" /\ kill = "none" /\ UNCHANGED <<iter, rescued>>
        /\ (outcome' = outcome \/ (end("Answered") /\ (fin.trusted \/ ~pol.reviewer)))
    BY <1>6, Zenon DEF finishAnswer, goto
  <2>2. QED
    BY <2>1 DEF Answering
<1>7. CASE finishReviewed
  <2>1. phase = "review" /\ stage = "idle" /\ rescued' = rescued
        /\ \/ outcome' = outcome /\ iter' = iter + 1
           \/ end("Unverified") /\ iter' = iter
           \/ decision = "pass" /\ end("Answered") /\ iter' = iter
    BY <1>7, Zenon DEF finishReviewed, continueWith
  <2>2. ~SoftSpent
    BY <1>0, <2>1 DEF TurnControl, SoftSpent
  <2>3. QED
    BY <2>1, <2>2 DEF Answering
<1>8. CASE salvage
  <2>1. phase = "salvage" /\ UNCHANGED <<iter, rescued>>
        /\ (outcome' = outcome \/ end(IF fail.outcome # "none" THEN fail.outcome ELSE kill))
    BY <1>8, Zenon DEF salvage
  <2>2. CASE outcome' = outcome
    BY <2>1, <2>2
  <2>3. CASE end(IF fail.outcome # "none" THEN fail.outcome ELSE kill)
    <3>1. CASE fail.outcome = "Unverified"
      <4>1. ~SoftSpent \/ fin.empty
        BY <1>0, <2>1, <3>1 DEF FailureControl
      <4>2. end("Unverified")
        BY <2>3, <3>1
      <4>3. QED
        BY <2>1, <4>1, <4>2
    <3>2. CASE fail.outcome = "none"
      <4>1. kill # "none" /\ end(kill)
        BY <1>0, <2>1, <2>3, <3>2 DEF FailureControl
      <4>2. QED
        BY <2>1, <4>1
    <3>3. QED
      BY <1>0, <3>1, <3>2
  <2>4. QED
    BY <2>1, <2>2, <2>3
<1>9. CASE upgradeIfVerified
  <2>1. phase = "upgrade" /\ UNCHANGED <<iter, rescued>>
        /\ (outcome' = outcome \/ end(kill) \/ end("ScopeViolation") \/ (end("Unverified") /\ pol.requireDiff))
    BY <1>9, Zenon DEF upgradeIfVerified, requireDiffFails, goto
  <2>2. kill # "none" /\ (pol.requireDiff => ~SoftSpent)
    BY <1>0, <2>1 DEF TurnControl, SoftSpent
  <2>3. QED
    BY <2>1, <2>2
<1>10. CASE upgradeVerify \/ upgradeRetry \/ upgradeRepro
  <2>1. phase \in {"verify", "reverify", "repro"} /\ kill # "none" /\ UNCHANGED <<iter, rescued>>
        /\ (outcome' = outcome \/ end(kill))
    BY <1>10, Zenon DEF upgradeVerify, upgradeRetry, upgradeOn, upgradeRepro, goto
  <2>2. QED
    BY <2>1
<1>11. CASE upgradeReview
  <2>1. phase = "answer" /\ kill # "none" /\ iter' = iter
        /\ \/ ~pol.reviewer /\ rescued' = kill /\ end("Answered")
           \/ UNCHANGED <<outcome, rescued>>
    BY <1>11, Zenon DEF upgradeReview
  <2>2. QED
    BY <2>1 DEF Answering
<1>12. CASE upgradeReviewed
  <2>1. phase = "review" /\ kill # "none" /\ stage = "idle" /\ iter' = iter
        /\ \/ end(kill) /\ rescued' = rescued
           \/ decision # "block" /\ end("Answered") /\ rescued' = kill
    BY <1>12, Zenon DEF upgradeReviewed
  <2>2. decision # "block" => decision = "pass"
    BY <1>0, <2>1 DEF ReviewCalls, TurnControl
  <2>3. QED
    BY <2>1, <2>2 DEF Answering
<1>13. CASE runningReview \/ callerCancels
  BY <1>13 DEF runningReview, callerCancels, gateVars
<1>14. QED
  BY <1>1, <1>2, <1>3, <1>4, <1>5, <1>6, <1>7, <1>8, <1>9, <1>10, <1>11, <1>12, <1>13, Zenon
     DEF ClosingNext, solverStep, gateStep

(* The safety half of KeepsContract: a run starts as its contract says and   *)
(* takes no step the contract forbids; in particular it is answered, or      *)
(* rescued, only on a tree that clears the bar of every armed gate.          *)
THEOREM ContractStepsKept ==
    ClosingSpec => Contract!ContractInit /\ [][Contract!ContractNext]_(Contract!contractVars)
<1>1. ClosingInit => Contract!ContractInit
  BY DEF ClosingInit, ReviewInit, Contract!ContractInit
<1>2. ClosingInv /\ ClosingInv' /\ ReviewInv /\ [ClosingNext]_vars => [Contract!ContractNext]_(Contract!contractVars)
  <2> SUFFICES ASSUME ClosingInv, ClosingInv', ReviewInv, [ClosingNext]_vars
               PROVE  [Contract!ContractNext]_(Contract!contractVars)
    OBVIOUS
  <2>1. CASE UNCHANGED vars
    BY <2>1, Zenon DEF vars, reviewVars, gateVars, Contract!contractVars, Acceptable, VerifiedGreen, InsideFences, Reviewed,
       effectiveReviewRequired, ReproHonored, RescuedAChange, SoftSpent
  <2>2. CASE ClosingNext
    <3>1. /\ outcome = "none" /\ kill \in Stops \cup {"none"} /\ tree' \in Trees /\ iter' <= MaxIters + 1
      <4>1. phase # "done"
        BY <2>2, RunMoves
      <4>2. QED
        BY <4>1, GateAssumption DEF ClosingInv, TurnControl, ClosingTypeOK, ReviewTypeOK
    <3>2. CASE RunGoesOn
      BY <3>1, <3>2 DEF RunGoesOn, Contract!ContractNext, Contract!Works
    <3>3. CASE Ends("Answered") /\ Answering /\ rescued' = rescued
      BY <3>1, <3>3, AnswersAreAcceptable DEF Ends, Contract!ContractNext, Contract!Answers
    <3>4. CASE Ends("Answered") /\ Answering /\ kill # "none" /\ rescued' = kill
      BY <3>1, <3>4, AnswersAreAcceptable DEF Ends, Contract!ContractNext, Contract!Rescues, Stops, Contract!Stops
    <3>5. CASE Ends("Unverified") /\ rescued' = rescued /\ (~SoftSpent \/ fin.empty)
      BY <3>1, <3>5 DEF Ends, Contract!ContractNext, Contract!Fails, Contract!Failures
    <3>6. CASE \E o \in {"Canceled", "ProviderErr", "ScopeViolation", kill} : Ends(o) /\ o # "none" /\ rescued' = rescued
      BY <3>1, <3>6 DEF Ends, Contract!ContractNext, Contract!Fails, Contract!Failures, Stops, Contract!Stops
    <3>7. QED
      BY <2>2, <3>2, <3>3, <3>4, <3>5, <3>6, RunMoves
  <2>3. QED
    BY <2>1, <2>2
<1>3. QED
  BY <1>1, <1>2, ClosingInvariant, ClosingImplementsReview, ReviewInvariant, PTL DEF ClosingSpec

=============================================================================
