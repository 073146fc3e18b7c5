--------------------------- MODULE ReviewGate_proofs ---------------------------
(* Theorems about ReviewGate: for every set of trees and claims, every round *)
(* limit, repro cap and policy.                                              *)
EXTENDS ReviewGate, FiniteSetTheorems, WellFoundedInduction, TLAPS

(* The part of ReviewTypeOK the helpers on reviewState preserve. *)
WellFormed(r) == r \in ReviewState /\ r.pending \subseteq DOMAIN r.findings

-----------------------------------------------------------------------------
(* What the helpers return. *)

(* resolvePending keeps the findings' number and everything but their fates. *)
LEMMA ResolvePendingType ==
    ASSUME NEW r \in ReviewState, NEW fate \in Fates
    PROVE  LET s == resolvePending(r, fate)
           IN  /\ s \in ReviewState /\ s.pending = {} /\ s.rounds = r.rounds
               /\ s.status = r.status /\ s.skip = r.skip
               /\ DOMAIN s.findings = DOMAIN r.findings
<1> DEFINE f == [i \in DOMAIN r.findings |->
                    IF i \in r.pending /\ r.findings[i].fate = "open"
                    THEN [r.findings[i] EXCEPT !.fate = fate] ELSE r.findings[i]]
<1>1. r.findings \in Seq(Finding)
  BY DEF ReviewState
<1>2. PICK n \in Nat : DOMAIN r.findings = 1..n
  BY <1>1
<1>3. \A i \in 1..n : r.findings[i] \in Finding
  BY <1>1, <1>2
<1>4. \A i \in 1..n : f[i] \in Finding
  BY <1>2, <1>3, Zenon DEF Finding
<1>5. f \in Seq(Finding) /\ DOMAIN f = DOMAIN r.findings
  <2>1. f \in [1..n -> Finding]
    BY <1>2, <1>4, Zenon
  <2> HIDE DEF f
  <2>2. QED
    BY <1>2, <2>1
<1> HIDE DEF f
<1>6. resolvePending(r, fate) = [r EXCEPT !.findings = f, !.pending = {}]
  BY Zenon DEF resolvePending, f
<1>7. {} \in SUBSET Nat
  OBVIOUS
<1>8. QED
  BY <1>5, <1>6, <1>7, Zenon DEF ReviewState

(* Assigning the scalar fields of reviewState, in the combinations the code  *)
(* assigns them.                                                             *)
LEMMA FieldUpdates ==
    ASSUME NEW r, WellFormed(r), NEW st \in Status, NEW b \in BOOLEAN
    PROVE  /\ WellFormed([r EXCEPT !.status = st])
           /\ WellFormed([r EXCEPT !.status = st, !.skip = b])
           /\ WellFormed([r EXCEPT !.skip = b, !.status = st])
           /\ WellFormed([r EXCEPT !.skip = b])
           /\ WellFormed([r EXCEPT !.salvage = b])
           /\ WellFormed([r EXCEPT !.salvage = b, !.status = st])
           /\ WellFormed([r EXCEPT !.status = st, !.blocked = b])
           /\ WellFormed([r EXCEPT !.reported = b])
<1>1. r \in ReviewState /\ r.pending \subseteq DOMAIN r.findings
  BY DEF WellFormed
<1> USE <1>1 DEF ReviewState
<1>2. WellFormed([r EXCEPT !.status = st])
  BY Zenon DEF WellFormed
<1>3. WellFormed([r EXCEPT !.status = st, !.skip = b])
  BY Zenon DEF WellFormed
<1>4. WellFormed([r EXCEPT !.skip = b, !.status = st])
  BY Zenon DEF WellFormed
<1>5. WellFormed([r EXCEPT !.skip = b])
  BY Zenon DEF WellFormed
<1>6. WellFormed([r EXCEPT !.salvage = b])
  BY Zenon DEF WellFormed
<1>7. WellFormed([r EXCEPT !.salvage = b, !.status = st])
  BY Zenon DEF WellFormed
<1>8. WellFormed([r EXCEPT !.status = st, !.blocked = b])
  BY Zenon DEF WellFormed
<1>9. WellFormed([r EXCEPT !.reported = b])
  BY Zenon DEF WellFormed
<1>10. QED
  BY <1>2, <1>3, <1>4, <1>5, <1>6, <1>7, <1>8, <1>9, Zenon

(* The statuses a failed call can report. *)
LEMMA ErrStatus ==
    ASSUME NEW s \in Infrastructure
    PROVE  classifyReviewErr(s) \in Infrastructure \cup {"canceled"} /\ classifyReviewErr(s) \in Status
  BY DEF classifyReviewErr, Infrastructure, Status

(* failOpen records the status; a required infrastructure failure blocks.    *)
LEMMA FailOpenEffect ==
    ASSUME NEW r, WellFormed(r), NEW s \in Status
    PROVE  LET o == failOpen(r, s)
           IN  WellFormed(o) /\ o.status = s /\ o.rounds = r.rounds /\ o.salvage = r.salvage
<1>1. r \in ReviewState /\ r.skip \in BOOLEAN /\ r.pending \subseteq DOMAIN r.findings
  BY Zenon DEF WellFormed, ReviewState
<1>2. (r.skip \/ r.findings = <<>>) \in BOOLEAN
  BY Zenon
<1>3. QED
  BY <1>1, <1>2, Zenon DEF failOpen, ReviewState, WellFormed

(* A semantic status never overwrites an infrastructure one. *)
LEMMA SemanticEffect ==
    ASSUME NEW r, WellFormed(r), NEW s \in Status
    PROVE  LET o == setReviewSemanticStatus(r, s)
           IN  /\ WellFormed(o) /\ o.rounds = r.rounds /\ o.salvage = r.salvage
               /\ o.status = s \/ o.status \in Infrastructure
<1>1. CASE r.status \in Infrastructure
  BY <1>1, Zenon DEF setReviewSemanticStatus
<1>2. CASE r.status \notin Infrastructure
  BY <1>2, FieldUpdates, Zenon DEF setReviewSemanticStatus, WellFormed, ReviewState
<1>3. QED
  BY <1>1, <1>2

(* A block of the round: expired blockers, nothing left pending. *)
LEMMA BlockEffect ==
    ASSUME NEW r, WellFormed(r)
    PROVE  WellFormed(blockRound(r)) /\ blockRound(r).rounds = r.rounds /\ blockRound(r).salvage = r.salvage
<1> DEFINE p == resolvePending(r, "expired")
<1>1. "expired" \in Fates /\ "blocked" \in Status /\ r \in ReviewState
  BY DEF Fates, Status, WellFormed
<1>2. p \in ReviewState /\ p.pending = {} /\ p.rounds = r.rounds
  BY <1>1, ResolvePendingType, Zenon
<1>3. p.salvage = r.salvage
  BY <1>1, Zenon DEF resolvePending, ReviewState
<1>4. blockRound(r) = [p EXCEPT !.status = "blocked", !.blocked = TRUE]
  BY Zenon DEF blockRound
<1>5. WellFormed(p)
  BY <1>2 DEF WellFormed
<1> HIDE DEF p
<1>6. WellFormed(blockRound(r))
  <2>1. WellFormed([p EXCEPT !.status = "blocked", !.blocked = TRUE])
    BY <1>1, <1>5, FieldUpdates, Zenon
  <2>2. QED
    BY <1>4, <2>1, Zenon
<1>7. blockRound(r).rounds = p.rounds /\ blockRound(r).salvage = p.salvage
  BY <1>2, <1>4, Zenon DEF ReviewState
<1>8. QED
  BY <1>2, <1>3, <1>6, <1>7, Zenon

(* Correcting one earlier fate keeps the record well formed. *)
LEMMA ExpireEffect ==
    ASSUME NEW r, WellFormed(r), NEW k
    PROVE  LET s == [r EXCEPT !.findings[k].fate = "expired"]
           IN  WellFormed(s) /\ s.rounds = r.rounds /\ s.salvage = r.salvage
<1> DEFINE f == [r.findings EXCEPT ![k].fate = "expired"]
<1>1. r \in ReviewState /\ r.findings \in Seq(Finding) /\ r.pending \subseteq DOMAIN r.findings
  BY Zenon DEF WellFormed, ReviewState
<1>2. PICK n \in Nat : r.findings \in [1..n -> Finding]
  BY <1>1
<1>3. "expired" \in Fates
  BY DEF Fates
<1>4. f \in [1..n -> Finding]
  BY <1>2, <1>3, Zenon DEF Finding
<1>5. [r EXCEPT !.findings[k].fate = "expired"] = [r EXCEPT !.findings = f]
  BY Zenon
<1> HIDE DEF f
<1>6. f \in Seq(Finding)
  BY <1>4
<1>7. DOMAIN f = DOMAIN r.findings
  BY <1>2, <1>4
<1>8. WellFormed([r EXCEPT !.findings = f])
  BY <1>1, <1>6, <1>7, Zenon DEF WellFormed, ReviewState
<1>9. [r EXCEPT !.findings = f].rounds = r.rounds /\ [r EXCEPT !.findings = f].salvage = r.salvage
  BY <1>1, Zenon DEF ReviewState
<1>10. QED
  BY <1>5, <1>8, <1>9, Zenon

(* Recording a classified claim appends it, and a blocker's index with it. *)
LEMMA RecordEffect ==
    ASSUME WellFormed(rv), next \in Nat \ {0},
           NEW c \in Claim, NEW fate \in Fates, NEW confirmed \in BOOLEAN, record(c, fate, confirmed)
    PROVE  /\ WellFormed(rv') /\ next' \in Nat \ {0}
           /\ rv'.rounds = rv.rounds /\ rv'.status = rv.status /\ rv'.salvage = rv.salvage
<1> DEFINE x == [quote |-> c.quote, round |-> rv.rounds, fate |-> fate, confirmed |-> confirmed]
           f == Append(rv.findings, x)
           p == IF fate = "open" THEN rv.pending \cup {Len(rv.findings) + 1} ELSE rv.pending
<1>1. /\ rv \in ReviewState /\ rv.findings \in Seq(Finding) /\ rv.rounds \in Nat
      /\ rv.pending \subseteq DOMAIN rv.findings /\ rv.pending \subseteq Nat
  BY Zenon DEF WellFormed, ReviewState
<1>2. x \in Finding
  BY <1>1, Zenon DEF Finding, Claim
<1>3. rv' = [rv EXCEPT !.findings = f, !.pending = p]
  BY Zenon DEF record
<1> HIDE DEF x
<1>4. f \in Seq(Finding) /\ DOMAIN f = 1..(Len(rv.findings) + 1) /\ Len(rv.findings) \in Nat
  BY <1>1, <1>2
<1>5. p \in SUBSET Nat /\ p \subseteq DOMAIN f
  BY <1>1, <1>4
<1> HIDE DEF f, p
<1>6. WellFormed(rv') /\ rv'.rounds = rv.rounds /\ rv'.status = rv.status /\ rv'.salvage = rv.salvage
  BY <1>1, <1>3, <1>4, <1>5, Zenon DEF WellFormed, ReviewState
<1>7. next' \in Nat \ {0}
  BY DEF record
<1>8. QED
  BY <1>6, <1>7

(* Returning from reviewFinish. *)
LEMMA AnswerEffect ==
    ASSUME NEW r, WellFormed(r), NEW d \in {"pass", "feedback", "block"}, Answer(r, d)
    PROVE  /\ rv' = r /\ stage' = "idle" /\ claims' \in Seq(Claim) /\ next' \in Nat \ {0}
           /\ decision' = IF r.salvage THEN "unverified" ELSE d
           /\ decision' \in {d, "unverified"}
  BY DEF Answer

(* A finish without findings to feed back passes or blocks. *)
LEMMA RequiredDecides == \A r : requiredDecision(r) \in {"pass", "block"}
  BY DEF requiredDecision

-----------------------------------------------------------------------------
(* The three parts of ReviewTypeOK a step is checked against. *)
Surroundings ==
    /\ pol \in Policies
    /\ tree \in Trees /\ askTree \in Trees /\ preTree \in Trees
    /\ canceled \in BOOLEAN /\ canContinue \in BOOLEAN /\ damaged \in BOOLEAN
    /\ verdicts \subseteq Nat \X Trees

Position ==
    /\ stage \in Stages
    /\ claims \in Seq(Claim) /\ next \in Nat \ {0}
    /\ decision \in {"none", "pass", "feedback", "block", "unverified"}

(* ReviewTypeOK is the untouched part and the part an answer sets. *)
LEMMA TypeParts ==
    /\ ReviewTypeOK <=> Surroundings /\ WellFormed(rv) /\ Position
    /\ ReviewTypeOK' <=> Surroundings' /\ WellFormed(rv') /\ Position'
  BY Zenon DEF ReviewTypeOK, Surroundings, WellFormed, Position

(* Entering the gate, from the solver or for a salvage round. *)
LEMMA EntryTyped ==
    ASSUME ReviewTypeOK, NEW cont \in BOOLEAN, reviewFinish(cont) \/ reviewUnverified
    PROVE  ReviewTypeOK'
<1>1. Surroundings /\ WellFormed(rv) /\ Position
  BY TypeParts
<1>2. Surroundings'
  BY <1>1, Zenon DEF Surroundings, reviewFinish, reviewUnverified
<1>3. WellFormed(rv') /\ Position'
  <2>1. CASE reviewUnverified
    BY <1>1, <2>1 DEF reviewUnverified, Position, Stages
  <2>2. CASE reviewFinish(cont)
    <3>1. CASE rv.skip /\ Answer(rv, IF effectiveReviewRequired THEN "block" ELSE "pass")
      BY <1>1, <3>1, AnswerEffect DEF Position, Stages
    <3>2. CASE Answer([rv EXCEPT !.status = "canceled"], "pass")
      <4>1. WellFormed([rv EXCEPT !.status = "canceled"])
        BY <1>1, FieldUpdates, "canceled" \in Status DEF Status
      <4>2. QED
        BY <3>2, <4>1, AnswerEffect DEF Position, Stages
    <3>3. CASE stage' = "capturing" /\ decision' = "none" /\ UNCHANGED <<rv, claims, next>>
      BY <1>1, <3>3 DEF Position, Stages
    <3>4. QED
      BY <2>2, <3>1, <3>2, <3>3 DEF reviewFinish
  <2>3. QED
    BY <2>1, <2>2
<1>4. QED
  BY <1>2, <1>3, TypeParts

(* The steps that return an answer without having asked the reviewer. *)
LEMMA EarlyAnswerTyped ==
    ASSUME ReviewTypeOK, salvageCapture \/ captureDiffFails \/ nothingToReview \/ reviewFails
    PROVE  ReviewTypeOK'
<1>1. Surroundings /\ WellFormed(rv) /\ Position
  BY TypeParts
<1>2. Surroundings'
  BY <1>1, Zenon DEF Surroundings, salvageCapture, captureDiffFails, nothingToReview, reviewFails
<1>3. WellFormed(rv') /\ Position'
  <2>1. CASE salvageCapture
    <3>1. /\ WellFormed([rv EXCEPT !.skip = TRUE, !.status = "unavailable"])
          /\ WellFormed([rv EXCEPT !.skip = TRUE]) /\ WellFormed([rv EXCEPT !.salvage = TRUE])
          /\ WellFormed([rv EXCEPT !.salvage = TRUE, !.status = "canceled"])
      <4>1. "unavailable" \in Status /\ "canceled" \in Status
        BY DEF Status, Infrastructure
      <4>2. QED
        BY <1>1, <4>1, FieldUpdates, Zenon
    <3>2. CASE Answer([rv EXCEPT !.salvage = TRUE, !.status = "canceled"], "pass")
      BY <3>1, <3>2, AnswerEffect DEF Position, Stages
    <3>3. CASE ~Answer([rv EXCEPT !.salvage = TRUE, !.status = "canceled"], "pass")
      <4>1. WellFormed(rv') /\ stage' \in {"idle", "capturing"} /\ UNCHANGED <<decision, claims, next>>
        BY <1>1, <2>1, <3>1, <3>3, Zenon DEF salvageCapture
      <4>2. QED
        BY <1>1, <4>1 DEF Position, Stages
    <3>4. QED
      BY <3>2, <3>3
  <2>2. CASE captureDiffFails \/ reviewFails
    <3>1. PICK s \in Infrastructure :
             Answer(failOpen(rv, classifyReviewErr(s)), requiredDecision(failOpen(rv, classifyReviewErr(s))))
      BY <2>2, Zenon DEF captureDiffFails, reviewFails, Infrastructure
    <3>2. WellFormed(failOpen(rv, classifyReviewErr(s)))
      BY <1>1, ErrStatus, FailOpenEffect, Zenon
    <3>3. requiredDecision(failOpen(rv, classifyReviewErr(s))) \in {"pass", "block"}
      BY RequiredDecides
    <3>4. QED
      BY <3>1, <3>2, <3>3, AnswerEffect DEF Position, Stages
  <2>3. CASE nothingToReview
    <3>1. WellFormed(setReviewSemanticStatus(rv, "clean"))
      BY <1>1, SemanticEffect, "clean" \in Status DEF Status
    <3>2. QED
      BY <2>3, <3>1, AnswerEffect DEF nothingToReview, Position, Stages
  <2>4. QED
    BY <2>1, <2>2, <2>3
<1>4. QED
  BY <1>2, <1>3, TypeParts

(* The reviewer's answers: a new round, its verdict, the solicited repros. *)
LEMMA RoundTyped ==
    ASSUME ReviewTypeOK, startRound \/ reviewReturns \/ solicitReturns \/ solicitFails
    PROVE  ReviewTypeOK'
<1>1. Surroundings /\ WellFormed(rv) /\ Position
  BY TypeParts
<1>2. CASE startRound
  <2> DEFINE p == resolvePending(rv, "repaired")
  <2>1. "repaired" \in Fates /\ rv \in ReviewState /\ rv.rounds + 1 \in Nat
    BY <1>1 DEF Fates, WellFormed, ReviewState
  <2>2. p \in ReviewState /\ p.pending = {}
    BY <2>1, ResolvePendingType, Zenon
  <2>3. rv' = [p EXCEPT !.rounds = rv.rounds + 1]
    BY <1>2 DEF startRound
  <2> HIDE DEF p
  <2>4. rv' \in ReviewState /\ rv'.pending = {}
    BY <2>1, <2>2, <2>3, Zenon DEF ReviewState
  <2>5. QED
    BY <1>1, <1>2, <2>4, TypeParts DEF startRound, Surroundings, Position, Stages, WellFormed
<1>3. CASE reviewReturns
  <2>1. PICK n \in 0..MaxClaims : \E v \in [1..n -> Claims] : claims' = v
    BY <1>3, Zenon DEF reviewReturns
  <2>2. claims' \in Seq(Claim)
    BY <2>1, ClaimsAssumption, RoundsAssumption
  <2>3. verdicts' \subseteq Nat \X Trees
    <3>1. rv.rounds \in Nat /\ tree \in Trees /\ verdicts \subseteq Nat \X Trees
      BY <1>1 DEF WellFormed, ReviewState, Surroundings
    <3>2. QED
      BY <1>3, <3>1 DEF reviewReturns
  <2>4. stage' \in {"soliciting", "classify"} /\ next' = 1
    BY <1>3, Zenon DEF reviewReturns
  <2>5. Surroundings'
    BY <1>1, <1>3, <2>3 DEF reviewReturns, Surroundings
  <2>6. WellFormed(rv') /\ Position'
    BY <1>1, <1>3, <2>2, <2>4 DEF reviewReturns, Position, Stages
  <2>7. QED
    BY <2>5, <2>6, TypeParts
<1>4. CASE solicitReturns
  <2>1. PICK given \in [{claims[k].quote : k \in {j \in DOMAIN claims : solicitable(claims[j])}} -> ReproRuns] :
           claims' = [k \in DOMAIN claims |->
                       IF claims[k].quote \in DOMAIN given /\ given[claims[k].quote] # "none"
                       THEN [claims[k] EXCEPT !.run = given[claims[k].quote]]
                       ELSE claims[k]]
    BY <1>4, Zenon DEF solicitReturns
  <2>2. PICK n \in Nat : claims \in [1..n -> Claim]
    BY <1>1 DEF Position
  <2>3. claims' \in [1..n -> Claim]
    <3>1. \A q \in DOMAIN given : given[q] \in ReproRuns
      BY <2>1, Zenon
    <3>2. \A k \in 1..n : claims[k] \in Claim
      BY <2>2, Zenon
    <3>3. \A k \in 1..n : \A z \in ReproRuns : [claims[k] EXCEPT !.run = z] \in Claim
      BY <3>2, Zenon DEF Claim
    <3>4. DOMAIN claims = 1..n
      BY <2>2, Zenon
    <3>5. QED
      BY <2>1, <3>1, <3>2, <3>3, <3>4, Zenon
  <2>4. claims' \in Seq(Claim)
    BY <2>3
  <2>5. QED
    BY <1>1, <1>4, <2>4, TypeParts DEF solicitReturns, Surroundings, Position, Stages
<1>5. CASE solicitFails
  <2>1. PICK s \in Infrastructure :
           rv' = IF classifyReviewErr(s) = "canceled" THEN rv ELSE [rv EXCEPT !.status = s]
    BY <1>5 DEF solicitFails
  <2>2. WellFormed(rv')
    <3>1. s \in Status
      BY <2>1 DEF Status
    <3>2. WellFormed([rv EXCEPT !.status = s])
      BY <1>1, <3>1, FieldUpdates, Zenon
    <3>3. QED
      BY <1>1, <2>1, <3>2, Zenon
  <2>3. QED
    BY <1>1, <1>5, <2>2, TypeParts DEF solicitFails, Surroundings, Position, Stages
<1>6. QED
  BY <1>2, <1>3, <1>4, <1>5

(* A repro in flight belongs to a claim of the verdict that has a command:   *)
(* without this the fate of an executed claim is not even defined.           *)
ReproAt == stage = "repro" => next \in DOMAIN claims /\ reproEligible(claims[next])

(* The ladder: prose, execution of a repro, and the cancel during one. *)
LEMMA LadderTyped ==
    ASSUME ReviewTypeOK, ReproAt,
           classifyProse \/ escalate \/ escalateSettles \/ escalateUnsnapshotted
    PROVE  ReviewTypeOK'
<1>1. Surroundings /\ WellFormed(rv) /\ Position
  BY TypeParts
<1>2. next \in DOMAIN claims /\ claims[next] \in Claim
  <2>1. next \in DOMAIN claims
    BY DEF classifyProse, escalate, escalateSettles, escalateUnsnapshotted, ReproAt
  <2>2. QED
    BY <1>1, <2>1 DEF Position
<1>3. ladderFate(claims[next]) \in Fates
  BY DEF ladderFate, Fates
<1>4. CASE classifyProse
  <2>1. PICK fate \in Fates : record(claims[next], fate, FALSE)
    BY <1>3, <1>4 DEF classifyProse, Fates
  <2>2. WellFormed(rv') /\ next' \in Nat \ {0}
    BY <1>1, <1>2, <2>1, RecordEffect DEF Position
  <2>3. QED
    BY <1>1, <1>4, <2>2, TypeParts DEF classifyProse, Surroundings, Position
<1>5. CASE escalate
  BY <1>1, <1>5, TypeParts DEF escalate, Surroundings, Position, Stages
<1>6. CASE escalateSettles
  <2> DEFINE c == claims[next]
             fate == CASE c.run = "mutates"     -> "dropped"
                       [] c.run = "unstartable" -> ladderFate(c)
                       [] c.run = "fails"       -> "open"
                       [] c.run = "passes"      ->
                            IF c.confidence < reviewBlockConfidence THEN "refuted" ELSE "advised"
  <2>1. record(c, fate, c.run = "fails")
    BY <1>6, Zenon DEF escalateSettles
  <2>2. c.run \in {"fails", "passes", "mutates", "unstartable"}
    BY <1>2, <1>6 DEF Claim, ReproRuns, escalateSettles, ReproAt, reproEligible
  <2>3. fate \in Fates
    BY <1>3, <2>2 DEF Fates
  <2>4. (c.run = "fails") \in BOOLEAN
    BY Zenon
  <2> HIDE DEF fate
  <2>5. WellFormed(rv') /\ next' \in Nat \ {0}
    BY <1>1, <1>2, <2>1, <2>3, <2>4, RecordEffect DEF Position
  <2>6. tree' \in Trees /\ damaged' \in BOOLEAN
    BY <1>1, <1>6 DEF escalateSettles, Surroundings
  <2>7. Surroundings' /\ Position'
    BY <1>1, <1>6, <2>5, <2>6 DEF escalateSettles, Surroundings, Position, Stages
  <2>8. QED
    BY <2>5, <2>7, TypeParts
<1>7. CASE escalateUnsnapshotted
  <2>1. record(claims[next], "dropped", FALSE) /\ "dropped" \in Fates
    BY <1>7 DEF escalateUnsnapshotted, Fates
  <2>2. WellFormed(rv') /\ next' \in Nat \ {0}
    BY <1>1, <1>2, <2>1, RecordEffect DEF Position
  <2>3. damaged' \in BOOLEAN
    BY <1>1, <1>7, Zenon DEF escalateUnsnapshotted, Surroundings
  <2>4. Surroundings' /\ Position'
    BY <1>1, <1>7, <2>2, <2>3 DEF escalateUnsnapshotted, Surroundings, Position, Stages
  <2>5. QED
    BY <2>2, <2>4, TypeParts
<1>8. QED
  BY <1>4, <1>5, <1>6, <1>7

(* The round's answer: one more round only while the policy allows it. *)
LEMMA SettleEffect ==
    ASSUME WellFormed(rv), settle
    PROVE  \E r, d : /\ WellFormed(r) /\ d \in {"pass", "feedback", "block"} /\ Answer(r, d)
                     /\ r.rounds = rv.rounds /\ r.salvage = rv.salvage
                     /\ d = "feedback" => rv.rounds < MaxRounds
<1>1. "clean" \in Status /\ "advisory" \in Status /\ "blocked" \in Status
  BY DEF Status
<1>2. \A st \in Status : LET o == setReviewSemanticStatus(rv, st)
                         IN  WellFormed(o) /\ o.rounds = rv.rounds /\ o.salvage = rv.salvage
  BY SemanticEffect, Zenon
<1>3. CASE settleRecurring
  <2> DEFINE x == [rv EXCEPT !.findings[recurringEarlier(rv)].fate = "expired"]
  <2>1. WellFormed(x) /\ x.rounds = rv.rounds /\ x.salvage = rv.salvage
    BY ExpireEffect, Zenon
  <2>2. Answer(blockRound(x), "block")
    BY <1>3, Zenon DEF settleRecurring
  <2> HIDE DEF x
  <2>3. QED
    BY <2>1, <2>2, BlockEffect
<1>4. CASE settleClean
  <2>1. Answer(setReviewSemanticStatus(rv, "clean"), requiredDecision(setReviewSemanticStatus(rv, "clean")))
    BY <1>4, Zenon DEF settleClean
  <2>2. QED
    BY <1>1, <1>2, <2>1, RequiredDecides
<1>5. CASE settleFeedback
  <2>1. PICK st \in Status : Answer(setReviewSemanticStatus(rv, st), "feedback")
    BY <1>1, <1>5, Zenon DEF settleFeedback
  <2>2. rv.rounds < MaxRounds
    BY <1>5, Zenon DEF settleFeedback
  <2>3. QED
    BY <1>2, <2>1, <2>2
<1>6. CASE settleExhausted
  <2>1. CASE rv.pending = {}
    <3>1. Answer(setReviewSemanticStatus(rv, "advisory"), requiredDecision(setReviewSemanticStatus(rv, "advisory")))
      BY <1>6, <2>1, Zenon DEF settleExhausted
    <3>2. QED
      BY <1>1, <1>2, <3>1, RequiredDecides
  <2>2. CASE rv.pending # {}
    <3>1. Answer(blockRound(rv), "block")
      BY <1>6, <2>2, Zenon DEF settleExhausted
    <3>2. QED
      BY <3>1, BlockEffect
  <2>3. QED
    BY <2>1, <2>2
<1>7. QED
  BY <1>3, <1>4, <1>5, <1>6 DEF settle

(* Settling a round keeps the types, its number included. *)
LEMMA SettleTyped ==
    ASSUME ReviewTypeOK, settle
    PROVE  ReviewTypeOK'
<1>1. Surroundings /\ WellFormed(rv) /\ Position
  BY TypeParts
<1>2. Surroundings'
  BY <1>1, Zenon DEF Surroundings, settle
<1>3. PICK r, d : WellFormed(r) /\ d \in {"pass", "feedback", "block"} /\ Answer(r, d)
  BY <1>1, SettleEffect
<1>4. WellFormed(rv') /\ Position'
  BY <1>3, AnswerEffect DEF Position, Stages
<1>5. QED
  BY <1>2, <1>4, TypeParts

(* The solver's edits, the terminal report and the caller's cancel. *)
LEMMA OutsideTyped ==
    ASSUME ReviewTypeOK, solverEdits \/ report \/ cancel \/ UNCHANGED reviewVars
    PROVE  ReviewTypeOK'
<1>1. Surroundings /\ WellFormed(rv) /\ Position
  BY TypeParts
<1>2. CASE solverEdits \/ cancel \/ UNCHANGED reviewVars
  BY <1>1, <1>2, TypeParts DEF solverEdits, cancel, reviewVars, Surroundings, Position
<1>3. CASE report
  <2> DEFINE p == resolvePending(rv, "expired")
  <2>1. "expired" \in Fates /\ rv \in ReviewState
    BY <1>1 DEF Fates, WellFormed
  <2>2. WellFormed(p)
    <3>1. p \in ReviewState /\ p.pending = {}
      BY <2>1, ResolvePendingType, Zenon
    <3>2. QED
      BY <3>1 DEF WellFormed
  <2>3. rv' = [p EXCEPT !.reported = TRUE]
    BY <1>3 DEF report
  <2> HIDE DEF p
  <2>4. WellFormed(rv')
    <3>1. WellFormed([p EXCEPT !.reported = TRUE])
      BY <2>2, FieldUpdates, "none" \in Status DEF Status
    <3>2. QED
      BY <2>3, <3>1, Zenon
  <2>5. QED
    BY <1>1, <1>3, <2>4, TypeParts DEF report, Surroundings, Position
<1>4. QED
  BY <1>2, <1>3

-----------------------------------------------------------------------------
(* Only escalate starts a repro, and nothing moves the verdict under it. *)
LEMMA ReproAtInductive ==
    ASSUME ReproAt, [ReviewNext]_reviewVars PROVE ReproAt'
<1>1. CASE solverEdits \/ cancel \/ report \/ UNCHANGED reviewVars
  BY <1>1, Zenon DEF solverEdits, cancel, report, reviewVars, ReproAt, reproEligible
<1>2. CASE escalate
  BY <1>2, Zenon DEF escalate, ReproAt, reproEligible
<1>3. CASE solverFinishes \/ runFails \/ salvageCapture \/ captureDiffFails \/ nothingToReview \/ startRound
  <2>1. stage' # "repro"
    BY <1>3 DEF solverFinishes, reviewFinish, runFails, reviewUnverified, salvageCapture,
                captureDiffFails, nothingToReview, startRound, Answer
  <2>2. QED
    BY <2>1 DEF ReproAt
<1>4. CASE reviewFails \/ reviewReturns \/ solicitReturns \/ solicitFails
  <2>1. stage' # "repro"
    BY <1>4 DEF reviewFails, reviewReturns, solicitReturns, solicitFails, Answer
  <2>2. QED
    BY <2>1 DEF ReproAt
<1>5. CASE classifyProse \/ escalateSettles \/ escalateUnsnapshotted
  <2>1. stage' # "repro"
    BY <1>5 DEF classifyProse, escalateSettles, escalateUnsnapshotted
  <2>2. QED
    BY <2>1 DEF ReproAt
<1>6. CASE settle
  <2>1. stage' # "repro"
    BY <1>6 DEF settle, settleRecurring, settleClean, settleFeedback, settleExhausted, Answer
  <2>2. QED
    BY <2>1 DEF ReproAt
<1>7. QED
  BY <1>1, <1>2, <1>3, <1>4, <1>5, <1>6 DEF ReviewNext, reviewStep

(* Types and ReproAt together are inductive. *)
LEMMA ReviewTypeInductive ==
    ReviewTypeOK /\ ReproAt /\ [ReviewNext]_reviewVars => (ReviewTypeOK /\ ReproAt)'
<1> SUFFICES ASSUME ReviewTypeOK, ReproAt, [ReviewNext]_reviewVars PROVE ReviewTypeOK'
  BY ReproAtInductive
<1>1. CASE solverFinishes \/ runFails
  BY <1>1, EntryTyped, TRUE \in BOOLEAN DEF solverFinishes, runFails
<1>2. CASE salvageCapture \/ captureDiffFails \/ nothingToReview \/ reviewFails
  BY <1>2, EarlyAnswerTyped
<1>3. CASE startRound \/ reviewReturns \/ solicitReturns \/ solicitFails
  BY <1>3, RoundTyped
<1>4. CASE classifyProse \/ escalate \/ escalateSettles \/ escalateUnsnapshotted
  BY <1>4, LadderTyped
<1>5. CASE settle
  BY <1>5, SettleTyped
<1>6. CASE solverEdits \/ report \/ cancel \/ UNCHANGED reviewVars
  BY <1>6, OutsideTyped
<1>7. QED
  BY <1>1, <1>2, <1>3, <1>4, <1>5, <1>6 DEF ReviewNext, reviewStep

(* newReviewState starts well typed, before any round. *)
LEMMA ReviewTypeInit == ReviewInit => ReviewTypeOK /\ ReproAt /\ rv.rounds = 0
<1> SUFFICES ASSUME ReviewInit PROVE ReviewTypeOK /\ ReproAt /\ rv.rounds = 0
  OBVIOUS
<1>1. WellFormed(rv) /\ rv.rounds = 0
  <2> DEFINE armed == [armed |-> TRUE, skip |-> FALSE, rounds |-> 0, status |-> "none", blocked |-> FALSE,
                       salvage |-> FALSE, findings |-> <<>>, pending |-> {}, reported |-> FALSE]
             unarmed == [armed EXCEPT !.armed = FALSE, !.skip = TRUE, !.status = "unavailable"]
  <2>1. 0 \in Nat /\ <<>> \in Seq(Finding) /\ {} \in SUBSET Nat /\ "none" \in Status /\ "unavailable" \in Status
    BY DEF Status, Infrastructure
  <2>2. WellFormed(armed) /\ armed.rounds = 0
    BY <2>1 DEF ReviewState, WellFormed
  <2>3. rv \in {armed, unarmed}
    BY Zenon DEF ReviewInit, newReviewState
  <2> HIDE DEF armed
  <2>4. WellFormed(unarmed) /\ unarmed.rounds = armed.rounds
    BY <2>1, <2>2, Zenon DEF ReviewState, WellFormed
  <2>5. QED
    BY <2>2, <2>3, <2>4
<1>2. Surroundings /\ Position
  <2>1. Surroundings
    BY TreesAssumption, Zenon DEF ReviewInit, Surroundings
  <2>2. Position
    BY DEF ReviewInit, Position, Stages
  <2>3. QED
    BY <2>1, <2>2
<1>3. ReproAt
  BY DEF ReviewInit, ReproAt
<1>4. QED
  BY <1>1, <1>2, <1>3, TypeParts

(* Type correctness of the gate, for every policy, claim set and round limit: *)
(* in particular reviewState.pending never indexes past the findings.         *)
THEOREM ReviewTypeCorrect == ReviewSpec => []ReviewTypeOK
  BY ReviewTypeInit, ReviewTypeInductive, PTL DEF ReviewSpec

-----------------------------------------------------------------------------
(* The effect of each group of steps on the fields the invariants below      *)
(* speak of: the round, the status, and whether the answer is discarded.     *)

(* A failed call answers pass or block, with its error as the status. *)
LEMMA FailEffect ==
    ASSUME WellFormed(rv), captureDiffFails \/ reviewFails
    PROVE  /\ rv'.rounds = rv.rounds /\ stage' = "idle"
           /\ decision' \in {"pass", "block", "unverified"}
           /\ decision' = "pass" /\ effectiveReviewRequired => rv'.status = "canceled"
<1>1. PICK s \in Infrastructure :
         Answer(failOpen(rv, classifyReviewErr(s)), requiredDecision(failOpen(rv, classifyReviewErr(s))))
  BY Zenon DEF captureDiffFails, reviewFails, Infrastructure
<1> DEFINE o == failOpen(rv, classifyReviewErr(s))
<1>2. classifyReviewErr(s) \in Infrastructure \cup {"canceled"} /\ classifyReviewErr(s) \in Status
  BY ErrStatus
<1>3. WellFormed(o) /\ o.status = classifyReviewErr(s) /\ o.rounds = rv.rounds
  BY <1>2, FailOpenEffect, Zenon
<1>4. Answer(o, requiredDecision(o)) /\ requiredDecision(o) \in {"pass", "block"}
  BY <1>1, RequiredDecides
<1> HIDE DEF o
<1>5. rv' = o /\ stage' = "idle" /\ decision' \in {requiredDecision(o), "unverified"}
  BY <1>3, <1>4, AnswerEffect
<1>6. QED
  BY <1>2, <1>3, <1>4, <1>5 DEF requiredDecision

(* Entering: at once an answer, or a review of the tree as it is. *)
LEMMA EntryEffect ==
    ASSUME WellFormed(rv), NEW cont \in BOOLEAN, reviewFinish(cont)
    PROVE  /\ rv'.rounds = rv.rounds /\ askTree' = tree
           /\ \/ stage' = "capturing" /\ decision' = "none"
              \/ /\ stage' = "idle" /\ decision' \in {"pass", "block", "unverified"}
                 /\ decision' = "pass" /\ effectiveReviewRequired => rv'.status = "canceled"
<1>1. askTree' = tree
  BY DEF reviewFinish
<1>2. CASE Answer(rv, IF effectiveReviewRequired THEN "block" ELSE "pass")
  <2>1. /\ rv' = rv /\ stage' = "idle"
        /\ decision' \in {IF effectiveReviewRequired THEN "block" ELSE "pass", "unverified"}
    BY <1>2, AnswerEffect
  <2>2. QED
    BY <1>1, <2>1
<1>3. CASE Answer([rv EXCEPT !.status = "canceled"], "pass")
  <2>1. WellFormed([rv EXCEPT !.status = "canceled"])
    BY FieldUpdates, "canceled" \in Status DEF Status
  <2>2. rv' = [rv EXCEPT !.status = "canceled"] /\ stage' = "idle" /\ decision' \in {"pass", "unverified"}
    BY <1>3, <2>1, AnswerEffect
  <2>3. rv'.rounds = rv.rounds /\ rv'.status = "canceled"
    BY <2>2, Zenon DEF WellFormed, ReviewState
  <2>4. QED
    BY <1>1, <2>2, <2>3
<1>4. CASE stage' = "capturing" /\ decision' = "none" /\ UNCHANGED <<rv, claims, next>>
  BY <1>1, <1>4
<1>5. QED
  BY <1>2, <1>3, <1>4 DEF reviewFinish

(* A salvage round starts, ends at once, or is handed on. *)
LEMMA SalvageEffect ==
    ASSUME WellFormed(rv), salvageCapture
    PROVE  rv'.rounds = rv.rounds /\ stage' \in {"idle", "capturing"} /\ decision' \in {decision, "unverified"}
<1>1. rv' = [rv EXCEPT !.salvage = TRUE, !.status = "canceled"] => rv'.salvage = TRUE
  BY Zenon DEF WellFormed, ReviewState
<1>2. stage' \in {"idle", "capturing"} /\ decision' \in {decision, "unverified"}
  BY <1>1, Zenon DEF salvageCapture, Answer
<1>3. rv'.rounds = rv.rounds
  BY Zenon DEF salvageCapture, Answer, WellFormed, ReviewState
<1>4. QED
  BY <1>2, <1>3

(* Classification keeps round and status. *)
LEMMA LadderEffect ==
    ASSUME ReviewTypeOK, ReproAt, classifyProse \/ escalate \/ escalateSettles \/ escalateUnsnapshotted
    PROVE  /\ rv'.rounds = rv.rounds /\ stage' \in {"classify", "repro"}
           /\ UNCHANGED <<pol, askTree, decision, verdicts>>
<1>1. rv \in ReviewState
  BY DEF ReviewTypeOK
<1>2. \A c, fate, confirmed : record(c, fate, confirmed) => rv'.rounds = rv.rounds
  BY <1>1, Zenon DEF record, ReviewState
<1>3. rv'.rounds = rv.rounds
  BY <1>2, Zenon DEF classifyProse, escalate, escalateSettles, escalateUnsnapshotted
<1>4. QED
  BY <1>3 DEF classifyProse, escalate, escalateSettles, escalateUnsnapshotted

(* The report keeps round and status. *)
LEMMA ReportEffect ==
    ASSUME WellFormed(rv), report
    PROVE  rv'.rounds = rv.rounds /\ rv'.status = rv.status
<1> DEFINE p == resolvePending(rv, "expired")
<1>1. p \in ReviewState /\ p.rounds = rv.rounds /\ p.status = rv.status
  BY ResolvePendingType, "expired" \in Fates DEF Fates, WellFormed
<1>2. rv' = [p EXCEPT !.reported = TRUE]
  BY DEF report
<1> HIDE DEF p
<1>3. QED
  BY <1>1, <1>2, Zenon DEF ReviewState

-----------------------------------------------------------------------------
(* A call that can still start a round has one left. *)
RoundsOpen ==
    /\ rv.rounds <= MaxRounds
    /\ stage \in {"capturing", "salvaging"} => rv.rounds < MaxRounds
    /\ stage = "idle" /\ decision \in {"none", "feedback"} => rv.rounds < MaxRounds

(* No answer is visible while reviewFinish runs. *)
Undecided == stage # "idle" => decision \in {"none", "unverified"}

(* Where the tree reviewFinish was asked about is, unless damage stayed. *)
TreeHeld ==
    ~damaged => /\ stage \notin {"idle", "repro"} => tree = askTree
                /\ stage = "repro" => preTree = askTree
                /\ stage = "idle" /\ decision \in {"pass", "block"} => tree = askTree

(* Past the reviewer's call, this round has a verdict on that tree. *)
VerdictHeld ==
    stage \in {"soliciting", "classify", "repro"} /\ ~damaged => <<rv.rounds, askTree>> \in verdicts

ReviewInv == RoundsOpen /\ Undecided /\ TreeHeld /\ VerdictHeld /\ RequiredMeansReviewed

USE RoundsAssumption

(* Entering the gate. *)
LEMMA EntryKeeps ==
    ASSUME ReviewTypeOK, ReviewInv, solverFinishes \/ runFails PROVE ReviewInv'
<1>1. WellFormed(rv) /\ rv.rounds \in Nat
  BY TypeParts DEF WellFormed, ReviewState
<1>2. CASE runFails
  <2>1. /\ rv' = rv /\ rv.rounds = 0 /\ stage' = "salvaging" /\ decision' = "unverified"
        /\ askTree' = tree /\ UNCHANGED <<tree, damaged, verdicts>>
    BY <1>2, Zenon DEF runFails, reviewUnverified, salvageable
  <2>2. QED
    BY <1>1, <2>1 DEF ReviewInv, RoundsOpen, Undecided, TreeHeld, VerdictHeld, RequiredMeansReviewed
<1>3. CASE solverFinishes
  <2>1. PICK cont \in BOOLEAN : reviewFinish(cont)
    BY <1>3 DEF solverFinishes
  <2>2. /\ rv'.rounds = rv.rounds /\ askTree' = tree
        /\ \/ stage' = "capturing" /\ decision' = "none"
           \/ /\ stage' = "idle" /\ decision' \in {"pass", "block", "unverified"}
              /\ decision' = "pass" /\ effectiveReviewRequired => rv'.status = "canceled"
    BY <1>1, <2>1, EntryEffect
  <2>3. UNCHANGED <<pol, tree, damaged, verdicts>>
    BY <2>1 DEF reviewFinish
  <2>4. rv.rounds < MaxRounds
    BY <1>3 DEF solverFinishes, awaitingSolver, ReviewInv, RoundsOpen
  <2>5. RoundsOpen' /\ Undecided' /\ TreeHeld' /\ VerdictHeld'
    BY <1>1, <2>2, <2>3, <2>4 DEF RoundsOpen, Undecided, TreeHeld, VerdictHeld
  <2>6. RequiredMeansReviewed'
    BY <2>2, <2>3 DEF RequiredMeansReviewed, effectiveReviewRequired
  <2>7. QED
    BY <2>5, <2>6 DEF ReviewInv
<1>4. QED
  BY <1>2, <1>3

(* Answers given before the reviewer was heard. *)
LEMMA EarlyAnswerKeeps ==
    ASSUME ReviewTypeOK, ReviewInv, salvageCapture \/ captureDiffFails \/ nothingToReview \/ reviewFails
    PROVE  ReviewInv'
<1>1. WellFormed(rv) /\ rv.rounds \in Nat
  BY TypeParts DEF WellFormed, ReviewState
<1>2. UNCHANGED <<pol, tree, askTree, damaged, verdicts>> /\ stage # "idle" /\ stage # "repro"
  BY DEF salvageCapture, captureDiffFails, nothingToReview, reviewFails
<1>3. CASE salvageCapture
  <2>1. /\ rv'.rounds = rv.rounds /\ stage' \in {"idle", "capturing"} /\ decision' \in {decision, "unverified"}
        /\ stage = "salvaging"
    BY <1>1, <1>3, SalvageEffect DEF salvageCapture
  <2>2. QED
    BY <1>1, <1>2, <2>1 DEF ReviewInv, RoundsOpen, Undecided, TreeHeld, VerdictHeld, RequiredMeansReviewed
<1>4. CASE captureDiffFails \/ reviewFails
  <2>1. /\ rv'.rounds = rv.rounds /\ stage' = "idle"
        /\ decision' \in {"pass", "block", "unverified"}
        /\ decision' = "pass" /\ effectiveReviewRequired => rv'.status = "canceled"
    BY <1>1, <1>4, FailEffect
  <2>2. RoundsOpen' /\ Undecided' /\ TreeHeld' /\ VerdictHeld'
    BY <1>1, <1>2, <2>1 DEF ReviewInv, RoundsOpen, Undecided, TreeHeld, VerdictHeld
  <2>3. RequiredMeansReviewed'
    BY <1>2, <2>1 DEF RequiredMeansReviewed, effectiveReviewRequired
  <2>4. QED
    BY <2>2, <2>3 DEF ReviewInv
<1>5. CASE nothingToReview
  <2>1. "clean" \in Status
    BY DEF Status
  <2>2. /\ WellFormed(setReviewSemanticStatus(rv, "clean"))
        /\ setReviewSemanticStatus(rv, "clean").rounds = rv.rounds
    BY <1>1, <2>1, SemanticEffect, Zenon
  <2>3. /\ rv'.rounds = rv.rounds /\ stage' = "idle" /\ decision' \in {"pass", "unverified"}
        /\ tree = BaseTree
    BY <1>5, <2>2, AnswerEffect DEF nothingToReview
  <2>4. QED
    BY <1>1, <1>2, <2>3 DEF ReviewInv, RoundsOpen, Undecided, TreeHeld, VerdictHeld, RequiredMeansReviewed
<1>6. QED
  BY <1>3, <1>4, <1>5

(* A round starts, its verdict arrives, repros are solicited. *)
LEMMA RoundKeeps ==
    ASSUME ReviewTypeOK, ReviewInv, startRound \/ reviewReturns \/ solicitReturns \/ solicitFails
    PROVE  ReviewInv'
<1>1. WellFormed(rv) /\ rv \in ReviewState /\ rv.rounds \in Nat
  BY TypeParts DEF WellFormed, ReviewState
<1>2. UNCHANGED <<pol, tree, askTree, decision, damaged>> /\ stage \notin {"idle", "repro"}
  BY DEF startRound, reviewReturns, solicitReturns, solicitFails
<1>3. decision \in {"none", "unverified"} /\ (~damaged => tree = askTree)
  BY <1>2 DEF ReviewInv, Undecided, TreeHeld
<1>4. Undecided' /\ RequiredMeansReviewed'
  BY <1>2, <1>3 DEF Undecided, RequiredMeansReviewed
<1>5. CASE startRound
  <2> DEFINE p == resolvePending(rv, "repaired")
  <2>1. p \in ReviewState
    BY <1>1, ResolvePendingType, "repaired" \in Fates DEF Fates
  <2>2. rv' = [p EXCEPT !.rounds = rv.rounds + 1] /\ stage = "capturing" /\ stage' = "reviewing"
    BY <1>5 DEF startRound
  <2> HIDE DEF p
  <2>3. rv'.rounds = rv.rounds + 1
    BY <2>1, <2>2, Zenon DEF ReviewState
  <2>4. RoundsOpen' /\ TreeHeld' /\ VerdictHeld'
    BY <1>1, <1>2, <1>3, <2>2, <2>3 DEF ReviewInv, RoundsOpen, TreeHeld, VerdictHeld
  <2>5. QED
    BY <1>4, <2>4 DEF ReviewInv
<1>6. CASE reviewReturns
  <2>1. /\ rv' = rv /\ stage' \in {"soliciting", "classify"}
        /\ verdicts' = verdicts \cup {<<rv.rounds, tree>>}
    BY <1>6, Zenon DEF reviewReturns
  <2>2. RoundsOpen' /\ TreeHeld' /\ VerdictHeld'
    BY <1>1, <1>2, <1>3, <2>1 DEF ReviewInv, RoundsOpen, TreeHeld, VerdictHeld
  <2>3. QED
    BY <1>4, <2>2 DEF ReviewInv
<1>7. CASE solicitReturns \/ solicitFails
  <2>1. stage = "soliciting" /\ stage' = "classify" /\ verdicts' = verdicts
    BY <1>7 DEF solicitReturns, solicitFails
  <2>2. rv'.rounds = rv.rounds
    BY <1>1, <1>7, Zenon DEF solicitReturns, solicitFails, ReviewState
  <2>3. RoundsOpen' /\ TreeHeld' /\ VerdictHeld'
    BY <1>1, <1>2, <1>3, <2>1, <2>2 DEF ReviewInv, RoundsOpen, TreeHeld, VerdictHeld
  <2>4. QED
    BY <1>4, <2>3 DEF ReviewInv
<1>8. QED
  BY <1>5, <1>6, <1>7

(* The ladder moves the tree only between escalate and its settling. *)
LEMMA LadderKeeps ==
    ASSUME ReviewTypeOK, ReproAt, ReviewInv,
           classifyProse \/ escalate \/ escalateSettles \/ escalateUnsnapshotted
    PROVE  ReviewInv'
<1>1. WellFormed(rv) /\ rv.rounds \in Nat /\ damaged \in BOOLEAN
  BY TypeParts DEF WellFormed, ReviewState, Surroundings
<1>2. /\ rv'.rounds = rv.rounds /\ stage' \in {"classify", "repro"}
      /\ UNCHANGED <<pol, askTree, decision, verdicts>>
  BY LadderEffect
<1>3. stage \in {"classify", "repro"}
  BY DEF classifyProse, escalate, escalateSettles, escalateUnsnapshotted
<1>4. /\ stage' = "classify" /\ ~damaged' => ~damaged /\ tree' = askTree'
      /\ stage' = "repro" /\ ~damaged' => ~damaged /\ preTree' = askTree'
  <2>1. CASE classifyProse
    BY <2>1, <1>2 DEF classifyProse, ReviewInv, TreeHeld
  <2>2. CASE escalate
    BY <2>2, <1>2 DEF escalate, ReviewInv, TreeHeld
  <2>3. CASE escalateSettles
    <3>1. stage = "repro" /\ stage' = "classify"
      BY <2>3 DEF escalateSettles
    <3>2. (tree' = preTree /\ damaged' = damaged) \/ damaged' = TRUE
      BY <2>3, Zenon DEF escalateSettles
    <3>3. QED
      BY <1>2, <3>1, <3>2 DEF ReviewInv, TreeHeld
  <2>4. CASE escalateUnsnapshotted
    <3>1. stage = "repro" /\ stage' = "classify" /\ damaged' = (damaged \/ tree' # preTree)
      BY <2>4 DEF escalateUnsnapshotted
    <3>2. ~damaged' => ~damaged /\ tree' = preTree
      BY <3>1, Zenon
    <3>3. QED
      BY <1>2, <3>1, <3>2 DEF ReviewInv, TreeHeld
  <2>5. QED
    BY <2>1, <2>2, <2>3, <2>4
<1>5. RoundsOpen' /\ Undecided' /\ RequiredMeansReviewed'
  BY <1>1, <1>2, <1>3 DEF ReviewInv, RoundsOpen, Undecided, RequiredMeansReviewed
<1>6. TreeHeld' /\ VerdictHeld'
  BY <1>2, <1>3, <1>4 DEF ReviewInv, TreeHeld, VerdictHeld
<1>7. QED
  BY <1>5, <1>6 DEF ReviewInv

(* The answer of a completed round. *)
LEMMA SettleKeeps ==
    ASSUME ReviewTypeOK, ReviewInv, settle PROVE ReviewInv'
<1>1. WellFormed(rv) /\ rv.rounds \in Nat
  BY TypeParts DEF WellFormed, ReviewState
<1>2. PICK r, d : /\ WellFormed(r) /\ d \in {"pass", "feedback", "block"} /\ Answer(r, d)
                  /\ r.rounds = rv.rounds /\ (d = "feedback" => rv.rounds < MaxRounds)
  BY <1>1, SettleEffect
<1>3. rv'.rounds = rv.rounds /\ stage' = "idle" /\ decision' \in {d, "unverified"}
  BY <1>2, AnswerEffect
<1>4. stage = "classify" /\ UNCHANGED <<pol, tree, askTree, damaged, verdicts>>
  BY DEF settle
<1>5. QED
  BY <1>1, <1>2, <1>3, <1>4
     DEF ReviewInv, RoundsOpen, Undecided, TreeHeld, VerdictHeld, RequiredMeansReviewed

(* Outside a call. *)
LEMMA OutsideKeeps ==
    ASSUME ReviewTypeOK, ReviewInv, solverEdits \/ report \/ cancel \/ UNCHANGED reviewVars
    PROVE  ReviewInv'
<1>1. WellFormed(rv) /\ rv.rounds \in Nat
  BY TypeParts DEF WellFormed, ReviewState
<1>2. rv'.rounds = rv.rounds /\ rv'.status = rv.status
  BY <1>1, ReportEffect DEF solverEdits, cancel, reviewVars
<1>3. /\ UNCHANGED <<pol, stage, decision, askTree, preTree, damaged, verdicts>>
      /\ tree' = tree \/ (stage = "idle" /\ decision \in {"none", "feedback"})
  BY DEF solverEdits, awaitingSolver, report, cancel, reviewVars
<1>4. QED
  BY <1>2, <1>3
     DEF ReviewInv, RoundsOpen, Undecided, TreeHeld, VerdictHeld, RequiredMeansReviewed, effectiveReviewRequired

-----------------------------------------------------------------------------
(* ReviewInv is an invariant of the gate. *)
THEOREM ReviewInvariant == ReviewSpec => []ReviewInv
<1>1. ReviewInit => ReviewInv
  <2> SUFFICES ASSUME ReviewInit PROVE ReviewInv
    OBVIOUS
  <2>1. rv.rounds = 0
    BY ReviewTypeInit
  <2>2. QED
    BY <2>1 DEF ReviewInit, ReviewInv, RoundsOpen, Undecided, TreeHeld, VerdictHeld, RequiredMeansReviewed
<1>2. ReviewTypeOK /\ ReproAt /\ ReviewInv /\ [ReviewNext]_reviewVars => ReviewInv'
  <2> SUFFICES ASSUME ReviewTypeOK, ReproAt, ReviewInv, [ReviewNext]_reviewVars PROVE ReviewInv'
    OBVIOUS
  <2>1. CASE solverFinishes \/ runFails
    BY <2>1, EntryKeeps
  <2>2. CASE salvageCapture \/ captureDiffFails \/ nothingToReview \/ reviewFails
    BY <2>2, EarlyAnswerKeeps
  <2>3. CASE startRound \/ reviewReturns \/ solicitReturns \/ solicitFails
    BY <2>3, RoundKeeps
  <2>4. CASE classifyProse \/ escalate \/ escalateSettles \/ escalateUnsnapshotted
    BY <2>4, LadderKeeps
  <2>5. CASE settle
    BY <2>5, SettleKeeps
  <2>6. CASE solverEdits \/ report \/ cancel \/ UNCHANGED reviewVars
    BY <2>6, OutsideKeeps
  <2>7. QED
    BY <2>1, <2>2, <2>3, <2>4, <2>5, <2>6 DEF ReviewNext, reviewStep
<1>3. QED
  BY <1>1, <1>2, ReviewTypeInit, ReviewTypeInductive, PTL DEF ReviewSpec

(* Policy.ReviewRounds bounds the repair loop for every limit. *)
THEOREM ReviewRoundsBounded == ReviewSpec => []RoundsBounded
<1>1. ReviewInv => RoundsBounded
  BY DEF ReviewInv, RoundsOpen, RoundsBounded
<1>2. QED
  BY <1>1, ReviewInvariant, PTL

(* A required review that passes a non-empty diff has a verdict of its last  *)
(* round on the delivered tree.                                              *)
THEOREM RequiredReviewHappened == ReviewSpec => []RequiredMeansReviewed
<1>1. ReviewInv => RequiredMeansReviewed
  BY DEF ReviewInv
<1>2. QED
  BY <1>1, ReviewInvariant, PTL

(* reviewFinish hands back the tree it was asked about unless a restore      *)
(* failed.                                                                   *)
THEOREM ReviewPreservesWorkspace == ReviewSpec => []WorkspacePreserved
<1>1. ReviewInv => WorkspacePreserved
  BY DEF ReviewInv, TreeHeld, Undecided, WorkspacePreserved
<1>2. QED
  BY <1>1, ReviewInvariant, PTL

-----------------------------------------------------------------------------
(* What the findings of a review say: their fates are final, the repro       *)
(* budget of a round is kept, and the gate's answer agrees with them.        *)

(* A set of indices has a first one. *)
LEMMA SmallestIndex ==
    ASSUME NEW S \in SUBSET Nat, S # {}
    PROVE  \E n \in S : \A m \in S : n <= m
<1> DEFINE R == OpToRel(<, Nat)
<1>1. IsWellFoundedOn(R, Nat)
  BY NatLessThanWellFounded
<1>2. \A m, n \in Nat : m < n => <<m, n>> \in R
  BY DEF OpToRel
<1> HIDE DEF R
<1>3. PICK n \in S : \A m \in S : <<m, n>> \notin R
  BY <1>1, WFMin
<1>4. \A m \in S : m \in Nat /\ n \in Nat /\ ~(m < n)
  BY <1>2, <1>3, Zenon
<1>5. QED
  BY <1>4

-----------------------------------------------------------------------------
(* What the helpers do to the findings. *)

(* The record of a review but for its status, skip, salvage and reported. *)
Same(r, s) == s.findings = r.findings /\ s.pending = r.pending /\ s.rounds = r.rounds /\ s.blocked = r.blocked

(* A claim keeps its identity whatever becomes of it. *)
SameClaim(x, y) == y.quote = x.quote /\ y.round = x.round /\ y.confirmed = x.confirmed

(* The findings of s are those of r with the fates of some of them set. *)
Refated(r, s) ==
    /\ DOMAIN s.findings = DOMAIN r.findings /\ s.rounds = r.rounds
    /\ \A i \in DOMAIN r.findings : SameClaim(r.findings[i], s.findings[i])

(* Findings are records: changing the fate of one and changing it back.      *)
LEMMA FateUpdates ==
    ASSUME NEW x \in Finding, NEW fate \in Fates
    PROVE  LET y == [x EXCEPT !.fate = fate]
           IN  y \in Finding /\ SameClaim(x, y) /\ y.fate = fate /\ [y EXCEPT !.fate = x.fate] = x
  BY Zenon DEF Finding, SameClaim

LEMMA FindingsAre ==
    ASSUME NEW r, WellFormed(r)
    PROVE  /\ r \in ReviewState /\ r.findings \in Seq(Finding) /\ r.pending \subseteq DOMAIN r.findings
           /\ \A i \in DOMAIN r.findings : i \in Nat /\ r.findings[i] \in Finding
<1>1. r \in ReviewState /\ r.findings \in Seq(Finding) /\ r.pending \subseteq DOMAIN r.findings
  BY Zenon DEF WellFormed, ReviewState
<1>2. PICK n \in Nat : r.findings \in [1..n -> Finding]
  BY <1>1
<1>3. QED
  BY <1>1, <1>2

(* resolvePending sets the fate of the open ones among the pending, and      *)
(* nothing stays pending.                                                    *)
LEMMA ResolveEffect ==
    ASSUME NEW r, WellFormed(r), NEW fate \in Fates
    PROVE  LET s == resolvePending(r, fate)
           IN  /\ WellFormed(s) /\ Refated(r, s) /\ s.pending = {}
               /\ s.blocked = r.blocked /\ s.skip = r.skip /\ s.status = r.status /\ s.salvage = r.salvage
               /\ \A i \in DOMAIN r.findings :
                     /\ s.findings[i].fate = IF i \in r.pending /\ r.findings[i].fate = "open"
                                             THEN fate ELSE r.findings[i].fate
                     /\ [s.findings[i] EXCEPT !.fate = r.findings[i].fate] = r.findings[i]
<1> DEFINE s == resolvePending(r, fate)
           f == [i \in DOMAIN r.findings |->
                    IF i \in r.pending /\ r.findings[i].fate = "open"
                    THEN [r.findings[i] EXCEPT !.fate = fate] ELSE r.findings[i]]
<1>1. r \in ReviewState /\ \A i \in DOMAIN r.findings : r.findings[i] \in Finding
  BY FindingsAre
<1>2. s \in ReviewState /\ s.pending = {} /\ s.rounds = r.rounds /\ s.status = r.status /\ s.skip = r.skip
  BY <1>1, ResolvePendingType, Zenon
<1>3. s.findings = f /\ s.blocked = r.blocked /\ s.salvage = r.salvage
  BY <1>1, Zenon DEF resolvePending, ReviewState
<1>4. \A i \in DOMAIN r.findings :
         /\ SameClaim(r.findings[i], f[i])
         /\ f[i].fate = IF i \in r.pending /\ r.findings[i].fate = "open" THEN fate ELSE r.findings[i].fate
         /\ [f[i] EXCEPT !.fate = r.findings[i].fate] = r.findings[i]
  <2> TAKE i \in DOMAIN r.findings
  <2>1. r.findings[i] \in Finding
    BY <1>1
  <2>2. CASE i \in r.pending /\ r.findings[i].fate = "open"
    BY <2>1, <2>2, FateUpdates, Zenon
  <2>3. CASE ~(i \in r.pending /\ r.findings[i].fate = "open")
    BY <2>1, <2>3, Zenon DEF SameClaim, Finding
  <2>4. QED
    BY <2>2, <2>3
<1> HIDE DEF s
<1>5. DOMAIN f = DOMAIN r.findings
  BY Zenon
<1> HIDE DEF f
<1>6. QED
  BY <1>2, <1>3, <1>4, <1>5, Zenon DEF s, WellFormed, Refated

(* blockRound resolves them as expired. *)
LEMMA BlockRoundEffect ==
    ASSUME NEW r, WellFormed(r)
    PROVE  LET s == blockRound(r)
           IN  /\ Refated(r, s) /\ s.pending = {} /\ s.blocked = TRUE /\ s.status = "blocked"
               /\ s.skip = r.skip /\ s.salvage = r.salvage
               /\ \A i \in DOMAIN r.findings :
                     /\ s.findings[i].fate = IF i \in r.pending /\ r.findings[i].fate = "open"
                                             THEN "expired" ELSE r.findings[i].fate
                     /\ [s.findings[i] EXCEPT !.fate = r.findings[i].fate] = r.findings[i]
<1> DEFINE p == resolvePending(r, "expired")
<1>1. "expired" \in Fates
  BY DEF Fates
<1>2. /\ WellFormed(p) /\ Refated(r, p) /\ p.pending = {} /\ p.skip = r.skip /\ p.salvage = r.salvage
      /\ \A i \in DOMAIN r.findings :
            /\ p.findings[i].fate = IF i \in r.pending /\ r.findings[i].fate = "open"
                                    THEN "expired" ELSE r.findings[i].fate
            /\ [p.findings[i] EXCEPT !.fate = r.findings[i].fate] = r.findings[i]
  BY <1>1, ResolveEffect, Zenon
<1>3. blockRound(r) = [p EXCEPT !.status = "blocked", !.blocked = TRUE]
  BY Zenon DEF blockRound
<1> HIDE DEF p
<1> DEFINE s == [p EXCEPT !.status = "blocked", !.blocked = TRUE]
<1>4. /\ s.findings = p.findings /\ s.pending = p.pending /\ s.rounds = p.rounds /\ s.skip = p.skip
      /\ s.salvage = p.salvage /\ s.blocked = TRUE /\ s.status = "blocked"
  BY <1>2, Zenon DEF WellFormed, ReviewState
<1>5. blockRound(r) = s
  BY <1>3
<1> HIDE DEF s
<1>6. Refated(r, s)
  BY <1>2, <1>4, Zenon DEF Refated
<1>7. \A i \in DOMAIN r.findings : s.findings[i] = p.findings[i]
  BY <1>4
<1>8. \A i \in DOMAIN r.findings :
          /\ s.findings[i].fate = IF i \in r.pending /\ r.findings[i].fate = "open"
                                  THEN "expired" ELSE r.findings[i].fate
          /\ [s.findings[i] EXCEPT !.fate = r.findings[i].fate] = r.findings[i]
  BY <1>2, <1>7, Zenon
<1>9. QED
  BY <1>2, <1>4, <1>5, <1>6, <1>8, Zenon

(* Correcting one earlier fate. *)
LEMMA ExpireOne ==
    ASSUME NEW r, WellFormed(r), NEW k
    PROVE  LET s == [r EXCEPT !.findings[k].fate = "expired"]
           IN  /\ WellFormed(s) /\ Refated(r, s) /\ s.pending = r.pending /\ s.skip = r.skip
               /\ \A i \in DOMAIN r.findings :
                     /\ s.findings[i].fate = IF i = k THEN "expired" ELSE r.findings[i].fate
                     /\ [s.findings[i] EXCEPT !.fate = r.findings[i].fate] = r.findings[i]
<1> DEFINE s == [r EXCEPT !.findings[k].fate = "expired"]
           f == [r.findings EXCEPT ![k].fate = "expired"]
<1>1. r \in ReviewState /\ \A i \in DOMAIN r.findings : r.findings[i] \in Finding
  BY FindingsAre
<1>2. WellFormed(s) /\ s.rounds = r.rounds
  BY ExpireEffect, Zenon
<1>3. s.findings = f /\ s.pending = r.pending /\ s.skip = r.skip
  BY <1>1, Zenon DEF ReviewState
<1>4. "expired" \in Fates
  BY DEF Fates
<1>5. \A i \in DOMAIN r.findings :
         /\ SameClaim(r.findings[i], f[i])
         /\ f[i].fate = IF i = k THEN "expired" ELSE r.findings[i].fate
         /\ [f[i] EXCEPT !.fate = r.findings[i].fate] = r.findings[i]
  <2> TAKE i \in DOMAIN r.findings
  <2>1. r.findings[i] \in Finding
    BY <1>1
  <2>2. CASE i = k
    <3>1. f[i] = [r.findings[i] EXCEPT !.fate = "expired"]
      BY <2>2, Zenon
    <3> HIDE DEF f
    <3> DEFINE y == [r.findings[i] EXCEPT !.fate = "expired"]
    <3>2. SameClaim(r.findings[i], y) /\ y.fate = "expired" /\ [y EXCEPT !.fate = r.findings[i].fate] = r.findings[i]
      BY <1>4, <2>1, FateUpdates, Zenon
    <3> HIDE DEF y
    <3>3. f[i] = y
      BY <3>1 DEF y
    <3>4. QED
      BY <2>2, <3>2, <3>3, Zenon
  <2>3. CASE i # k
    <3>1. f[i] = r.findings[i]
      BY <2>3, Zenon
    <3> HIDE DEF f
    <3>2. QED
      BY <2>1, <2>3, <3>1, Zenon DEF SameClaim, Finding
  <2>4. QED
    BY <2>2, <2>3
<1>6. DOMAIN f = DOMAIN r.findings
  BY Zenon
<1> HIDE DEF f, s
<1>7. QED
  BY <1>2, <1>3, <1>5, <1>6, Zenon DEF s, Refated

(* A classified claim is one more finding of the round. *)
LEMMA RecordAppends ==
    ASSUME WellFormed(rv), NEW c \in Claim, NEW fate \in Fates, NEW confirmed \in BOOLEAN,
           record(c, fate, confirmed)
    PROVE  LET n == Len(rv.findings) + 1
           IN  /\ n \in Nat /\ DOMAIN rv.findings = 1..(n - 1) /\ DOMAIN rv'.findings = 1..n
               /\ \A i \in DOMAIN rv.findings : rv'.findings[i] = rv.findings[i]
               /\ rv'.findings[n].quote = c.quote /\ rv'.findings[n].round = rv.rounds
               /\ rv'.findings[n].fate = fate /\ rv'.findings[n].confirmed = confirmed
               /\ rv'.pending = IF fate = "open" THEN rv.pending \cup {n} ELSE rv.pending
               /\ rv'.rounds = rv.rounds /\ rv'.blocked = rv.blocked /\ rv'.skip = rv.skip
               /\ rv'.status = rv.status /\ next' = next + 1
<1> DEFINE x == [quote |-> c.quote, round |-> rv.rounds, fate |-> fate, confirmed |-> confirmed]
           f == Append(rv.findings, x)
           p == IF fate = "open" THEN rv.pending \cup {Len(rv.findings) + 1} ELSE rv.pending
<1>1. rv \in ReviewState /\ rv.findings \in Seq(Finding)
  BY FindingsAre
<1>2. /\ rv'.findings = f /\ rv'.pending = p /\ rv'.rounds = rv.rounds /\ rv'.blocked = rv.blocked
      /\ rv'.skip = rv.skip /\ rv'.status = rv.status /\ next' = next + 1
  BY <1>1, Zenon DEF record, ReviewState
<1>3. x.quote = c.quote /\ x.round = rv.rounds /\ x.fate = fate /\ x.confirmed = confirmed
  BY Zenon
<1> HIDE DEF x
<1>4. /\ Len(rv.findings) \in Nat /\ DOMAIN rv.findings = 1..Len(rv.findings)
      /\ DOMAIN f = 1..(Len(rv.findings) + 1) /\ f[Len(rv.findings) + 1] = x
      /\ \A i \in DOMAIN rv.findings : f[i] = rv.findings[i]
  BY <1>1
<1>5. Len(rv.findings) + 1 \in Nat /\ (Len(rv.findings) + 1) - 1 = Len(rv.findings)
  BY <1>4
<1> HIDE DEF f
<1>6. QED
  BY <1>2, <1>3, <1>4, <1>5, Zenon

(* The updates of the other fields leave the findings alone. *)
LEMMA FieldsApart ==
    ASSUME NEW r, WellFormed(r), NEW st, NEW b
    PROVE  /\ Same(r, [r EXCEPT !.status = st]) /\ [r EXCEPT !.status = st].skip = r.skip
           /\ [r EXCEPT !.status = st].status = st
           /\ Same(r, [r EXCEPT !.status = st, !.skip = b])
           /\ [r EXCEPT !.status = st, !.skip = b].status = st
           /\ Same(r, [r EXCEPT !.skip = b, !.status = st])
           /\ Same(r, [r EXCEPT !.skip = b])
           /\ Same(r, [r EXCEPT !.salvage = b]) /\ [r EXCEPT !.salvage = b].skip = r.skip
           /\ Same(r, [r EXCEPT !.salvage = b, !.status = st])
           /\ [r EXCEPT !.salvage = b, !.status = st].salvage = b
  BY Zenon DEF Same, WellFormed, ReviewState

(* Failing open changes the status and no finding.                           *)
LEMMA FailOpenApart ==
    ASSUME NEW r, WellFormed(r), NEW st
    PROVE  Same(r, failOpen(r, st)) /\ failOpen(r, st).status = st
  BY Zenon DEF failOpen, Same, WellFormed, ReviewState

(* Setting the semantic status changes no finding.                           *)
LEMMA SemanticApart ==
    ASSUME NEW r, WellFormed(r), NEW st
    PROVE  LET s == setReviewSemanticStatus(r, st)
           IN  Same(r, s) /\ s.skip = r.skip
<1>1. CASE r.status \in Infrastructure
  BY <1>1, Zenon DEF setReviewSemanticStatus, Same
<1>2. CASE r.status \notin Infrastructure
  BY <1>2, FieldsApart, Zenon DEF setReviewSemanticStatus
<1>3. QED
  BY <1>1, <1>2

-----------------------------------------------------------------------------
(* The inductive invariant of the findings.                                  *)

(* The blocking ones are the pending ones, an execution-confirmed one was    *)
(* blocking and is resolved at most, and none is of a later round.           *)
Ledger ==
    \A i \in DOMAIN rv.findings :
        /\ rv.findings[i].fate = "open" <=> i \in rv.pending
        /\ rv.findings[i].confirmed => rv.findings[i].fate \in {"open", "repaired", "expired"}
        /\ rv.findings[i].round <= rv.rounds

(* While the reviewer works the round has no finding; while the ladder does, *)
(* none of the round's was resolved yet.                                     *)
ThisRound ==
    \A i \in DOMAIN rv.findings :
        /\ stage \in {"reviewing", "soliciting"} => rv.findings[i].round < rv.rounds
        /\ stage \in {"classify", "repro"} /\ rv.findings[i].round = rv.rounds
             => rv.findings[i].fate \notin {"repaired", "expired"}

(* A defect confirmed twice is one of the round under way, or has blocked.   *)
Recurs(i, j) ==
    /\ rv.findings[i].confirmed /\ rv.findings[j].confirmed
    /\ rv.findings[i].quote = rv.findings[j].quote
    /\ rv.findings[i].round # rv.findings[j].round

Recurrences ==
    ~rv.blocked => \A i, j \in DOMAIN rv.findings : Recurs(i, j) =>
        /\ stage \in {"classify", "repro"}
        /\ rv.rounds \in {rv.findings[i].round, rv.findings[j].round}

(* A block is the end, and it has its finding. *)
Terminal ==
    rv.blocked => /\ stage = "idle" /\ decision \in {"block", "unverified"}
                  /\ rv.status = "blocked" /\ rv.pending = {}
                  /\ \E i \in DOMAIN rv.findings : rv.findings[i].fate = "expired"

(* A gate that is off shows why before it is asked, and is never entered;    *)
(* the tree that is captured is the one the gate was asked about.            *)
Entered ==
    /\ stage # "idle" => ~rv.skip
    /\ stage = "idle" /\ decision \in {"none", "feedback"} /\ rv.skip => rv.status \in Infrastructure
    /\ stage = "salvaging" => decision = "unverified"
    /\ stage \in {"capturing", "salvaging"} => tree = askTree

(* A pass after a round that ran leaves nothing pending and nothing of that  *)
(* round expired.                                                            *)
Passed ==
    (decision = "pass" /\ rv.status \notin Infrastructure \cup {"canceled"} /\ askTree # BaseTree)
    => /\ rv.pending = {}
       /\ \A i \in DOMAIN rv.findings : rv.findings[i].round = rv.rounds => rv.findings[i].fate # "expired"

FindingsInv == Ledger /\ ThisRound /\ Recurrences /\ Terminal /\ Entered /\ Passed

(* What these steps may count on. *)
Basis == ReviewTypeOK /\ ReproAt /\ Undecided

LEMMA BasisGives ==
    ASSUME Basis
    PROVE  /\ WellFormed(rv) /\ rv.rounds \in Nat
           /\ \A i \in DOMAIN rv.findings : i \in Nat /\ rv.findings[i].round \in Nat
<1>1. WellFormed(rv)
  BY TypeParts DEF Basis
<1>2. rv.rounds \in Nat
  BY <1>1, Zenon DEF WellFormed, ReviewState
<1>3. \A i \in DOMAIN rv.findings : i \in Nat /\ rv.findings[i] \in Finding
  BY <1>1, FindingsAre
<1>4. QED
  BY <1>1, <1>2, <1>3, Zenon DEF Finding

(* A step that leaves the findings alone, outside a round, and blocks nothing. *)
LEMMA SameKeeps ==
    ASSUME Basis, FindingsInv, Same(rv, rv'), ~rv.blocked, stage' \notin {"reviewing", "soliciting", "classify", "repro"},
           stage \notin {"classify", "repro"}
    PROVE  (Ledger /\ ThisRound /\ Recurrences /\ Terminal)'
  BY Zenon DEF FindingsInv, Same, Ledger, ThisRound, Recurrences, Recurs, Terminal

(* Entering the gate. *)
LEMMA EntryKeepsFindings ==
    ASSUME Basis, FindingsInv, solverFinishes \/ runFails PROVE FindingsInv'
<1>1. WellFormed(rv) /\ stage = "idle" /\ decision \in {"none", "feedback"} /\ ~rv.blocked
  <2>1. stage = "idle" /\ decision \in {"none", "feedback"}
    BY DEF solverFinishes, runFails, awaitingSolver
  <2>2. QED
    BY <2>1, BasisGives DEF FindingsInv, Terminal
<1>2. CASE runFails
  <2>1. /\ rv' = rv /\ ~rv.skip /\ stage' = "salvaging" /\ decision' = "unverified" /\ askTree' = tree /\ tree' = tree
    BY <1>2, Zenon DEF runFails, reviewUnverified, salvageable
  <2>2. Same(rv, rv')
    BY <2>1, Zenon DEF Same
  <2>3. Entered' /\ Passed'
    BY <2>1 DEF Entered, Passed
  <2>4. QED
    BY <1>1, <2>1, <2>2, <2>3, SameKeeps DEF FindingsInv
<1>3. CASE solverFinishes
  <2>1. PICK cont \in BOOLEAN : reviewFinish(cont)
    BY <1>3 DEF solverFinishes
  <2>2. askTree' = tree /\ tree' = tree
    BY <2>1 DEF reviewFinish
  <2>3. CASE rv.skip /\ Answer(rv, IF effectiveReviewRequired THEN "block" ELSE "pass")
    <3>1. rv' = rv /\ stage' = "idle" /\ decision' \in {"block", "pass", "unverified"} /\ rv.status \in Infrastructure
      BY <1>1, <2>3 DEF Answer, FindingsInv, Entered
    <3>2. Same(rv, rv')
      BY <3>1, Zenon DEF Same
    <3>3. Entered' /\ Passed'
      BY <3>1 DEF Entered, Passed
    <3>4. QED
      BY <1>1, <3>1, <3>2, <3>3, SameKeeps DEF FindingsInv
  <2>4. CASE Answer([rv EXCEPT !.status = "canceled"], "pass")
    <3>1. /\ rv' = [rv EXCEPT !.status = "canceled"] /\ stage' = "idle" /\ decision' \in {"pass", "unverified"}
      BY <2>4 DEF Answer
    <3>2. Same(rv, rv') /\ rv'.status = "canceled"
      BY <1>1, <3>1, Zenon DEF Same, WellFormed, ReviewState
    <3>3. Entered' /\ Passed'
      BY <3>1, <3>2 DEF Entered, Passed
    <3>4. QED
      BY <1>1, <3>1, <3>2, <3>3, SameKeeps DEF FindingsInv
  <2>5. CASE ~rv.skip /\ stage' = "capturing" /\ decision' = "none" /\ UNCHANGED <<rv, claims, next>>
    <3>1. Same(rv, rv')
      BY <2>5, Zenon DEF Same
    <3>2. Entered' /\ Passed'
      BY <2>2, <2>5 DEF Entered, Passed
    <3>3. QED
      BY <1>1, <2>5, <3>1, <3>2, SameKeeps DEF FindingsInv
  <2>6. QED
    BY <2>1, <2>3, <2>4, <2>5 DEF reviewFinish
<1>4. QED
  BY <1>2, <1>3

(* The capture and the reviewer fail, or there is nothing to review. *)
LEMMA EarlyKeepsFindings ==
    ASSUME Basis, FindingsInv, salvageCapture \/ captureDiffFails \/ nothingToReview \/ reviewFails
    PROVE  FindingsInv'
<1>1. WellFormed(rv) /\ ~rv.blocked /\ ~rv.skip /\ stage \in {"salvaging", "capturing", "reviewing"}
  <2>1. stage \in {"salvaging", "capturing", "reviewing"}
    BY DEF salvageCapture, captureDiffFails, nothingToReview, reviewFails
  <2>2. QED
    BY <2>1, BasisGives DEF FindingsInv, Terminal, Entered
<1>2. CASE salvageCapture
  <2>1. decision = "unverified" /\ tree' = tree /\ askTree' = askTree /\ tree = askTree
    BY <1>2 DEF salvageCapture, FindingsInv, Entered
  <2>2. CASE Answer([rv EXCEPT !.salvage = TRUE, !.status = "canceled"], "pass")
    <3>1. Same(rv, rv') /\ rv'.salvage = TRUE
      BY <1>1, <2>2, Zenon DEF Answer, Same, WellFormed, ReviewState
    <3>2. stage' = "idle" /\ decision' = "unverified"
      BY <2>2, <3>1, Zenon DEF Answer
    <3>3. Entered' /\ Passed'
      BY <3>2 DEF Entered, Passed
    <3>4. QED
      BY <1>1, <3>1, <3>2, <3>3, SameKeeps DEF FindingsInv
  <2>3. CASE /\ rv' \in {rv, [rv EXCEPT !.skip = TRUE, !.status = "unavailable"], [rv EXCEPT !.skip = TRUE]}
             /\ stage' = "idle" /\ decision' = decision
    <3>1. Same(rv, rv')
      <4>1. Same(rv, rv)
        BY Zenon DEF Same
      <4>2. QED
        BY <1>1, <2>3, <4>1, Zenon DEF Same, WellFormed, ReviewState
    <3>2. Entered' /\ Passed'
      BY <2>1, <2>3 DEF Entered, Passed
    <3>3. QED
      BY <1>1, <2>3, <3>1, <3>2, SameKeeps DEF FindingsInv
  <2>4. CASE rv' = [rv EXCEPT !.salvage = TRUE] /\ stage' = "capturing" /\ decision' = decision
    <3>1. Same(rv, rv') /\ rv'.skip = rv.skip
      BY <1>1, <2>4, FieldsApart, Zenon
    <3>2. Entered' /\ Passed'
      BY <1>1, <2>1, <2>4, <3>1 DEF Entered, Passed
    <3>3. QED
      BY <1>1, <2>4, <3>1, <3>2, SameKeeps DEF FindingsInv
  <2>5. QED
    BY <1>2, <2>2, <2>3, <2>4, Zenon DEF salvageCapture
<1>3. CASE captureDiffFails \/ reviewFails
  <2>1. PICK s \in Infrastructure :
           Answer(failOpen(rv, classifyReviewErr(s)), requiredDecision(failOpen(rv, classifyReviewErr(s))))
    BY <1>3, Zenon DEF captureDiffFails, reviewFails, Infrastructure
  <2>2. Same(rv, rv') /\ rv'.status \in Infrastructure \cup {"canceled"}
    <3>1. rv' = failOpen(rv, classifyReviewErr(s))
      BY <2>1, Zenon DEF Answer
    <3>2. Same(rv, rv') /\ rv'.status = classifyReviewErr(s)
      BY <1>1, <3>1, FailOpenApart, Zenon
    <3>3. classifyReviewErr(s) \in Infrastructure \cup {"canceled"}
      BY ErrStatus, Zenon
    <3>4. QED
      BY <3>2, <3>3, Zenon
  <2>3. stage' = "idle" /\ decision' \in {"pass", "block", "unverified"}
    BY <2>1, RequiredDecides, Zenon DEF Answer
  <2>4. Entered' /\ Passed'
    BY <2>2, <2>3 DEF Entered, Passed
  <2>5. QED
    BY <1>1, <2>2, <2>3, <2>4, SameKeeps DEF FindingsInv
<1>4. CASE nothingToReview
  <2>1. Same(rv, rv') /\ stage' = "idle" /\ decision' \in {"pass", "unverified"}
    BY <1>1, <1>4, SemanticApart, Zenon DEF nothingToReview, Answer
  <2>2. askTree' = BaseTree
    BY <1>4 DEF nothingToReview, FindingsInv, Entered
  <2>3. Entered' /\ Passed'
    BY <2>1, <2>2 DEF Entered, Passed
  <2>4. QED
    BY <1>1, <2>1, <2>3, SameKeeps DEF FindingsInv
<1>5. QED
  BY <1>2, <1>3, <1>4

(* The reviewer's answers: the round that starts has no finding yet.         *)
LEMMA RoundKeepsFindings ==
    ASSUME Basis, FindingsInv, startRound \/ reviewReturns \/ solicitReturns \/ solicitFails
    PROVE  FindingsInv'
<1>1. /\ WellFormed(rv) /\ rv.rounds \in Nat /\ ~rv.blocked /\ ~rv.skip
      /\ \A i \in DOMAIN rv.findings : i \in Nat /\ rv.findings[i].round \in Nat
      /\ stage \in {"capturing", "reviewing", "soliciting"} /\ decision \in {"none", "unverified"}
  <2>1. stage \in {"capturing", "reviewing", "soliciting"}
    BY DEF startRound, reviewReturns, solicitReturns, solicitFails
  <2>2. QED
    BY <2>1, BasisGives DEF FindingsInv, Terminal, Entered, Basis, Undecided
<1>2. CASE startRound
  <2> DEFINE p == resolvePending(rv, "repaired")
  <2>1. "repaired" \in Fates /\ WellFormed(rv)
    BY <1>1 DEF Fates
  <2>2. /\ WellFormed(p) /\ Refated(rv, p) /\ p.pending = {} /\ p.blocked = rv.blocked /\ p.skip = rv.skip
        /\ \A i \in DOMAIN rv.findings :
              /\ p.findings[i].fate = IF i \in rv.pending /\ rv.findings[i].fate = "open"
                                      THEN "repaired" ELSE rv.findings[i].fate
              /\ [p.findings[i] EXCEPT !.fate = rv.findings[i].fate] = rv.findings[i]
    BY <2>1, ResolveEffect, Zenon
  <2>3. rv' = [p EXCEPT !.rounds = rv.rounds + 1]
    BY <1>2 DEF startRound
  <2> HIDE DEF p
  <2>4. /\ rv'.findings = p.findings /\ rv'.pending = p.pending /\ rv'.blocked = p.blocked
        /\ rv'.skip = p.skip /\ rv'.rounds = rv.rounds + 1
    BY <2>2, <2>3, Zenon DEF WellFormed, ReviewState
  <2>5. /\ DOMAIN rv'.findings = DOMAIN rv.findings
        /\ \A i \in DOMAIN rv.findings :
              /\ SameClaim(rv.findings[i], rv'.findings[i])
              /\ rv'.findings[i].fate = IF i \in rv.pending /\ rv.findings[i].fate = "open"
                                        THEN "repaired" ELSE rv.findings[i].fate
    BY <2>2, <2>4, Zenon DEF Refated
  <2>6. /\ rv'.pending = {} /\ ~rv'.blocked /\ ~rv'.skip /\ stage = "capturing" /\ stage' = "reviewing"
        /\ decision' = decision
    BY <1>1, <1>2, <2>2, <2>4 DEF startRound
  <2>7. Ledger'
    <3> SUFFICES ASSUME NEW i \in DOMAIN rv'.findings
                 PROVE  /\ rv'.findings[i].fate = "open" <=> i \in rv'.pending
                        /\ rv'.findings[i].confirmed => rv'.findings[i].fate \in {"open", "repaired", "expired"}
                        /\ rv'.findings[i].round <= rv'.rounds
      BY Zenon DEF Ledger
    <3>1. /\ rv.findings[i].fate = "open" <=> i \in rv.pending
          /\ rv.findings[i].confirmed => rv.findings[i].fate \in {"open", "repaired", "expired"}
          /\ rv.findings[i].round <= rv.rounds
      BY <2>5, Zenon DEF FindingsInv, Ledger
    <3>2. SameClaim(rv.findings[i], rv'.findings[i]) /\ rv.findings[i].round \in Nat
      BY <1>1, <2>5, Zenon
    <3>3. QED
      BY <1>1, <2>4, <2>5, <2>6, <3>1, <3>2 DEF SameClaim
  <2>8. ThisRound'
    <3> SUFFICES ASSUME NEW i \in DOMAIN rv'.findings PROVE rv'.findings[i].round < rv'.rounds
      BY <2>6, Zenon DEF ThisRound
    <3>1. rv.findings[i].round <= rv.rounds /\ rv.findings[i].round \in Nat /\ rv'.findings[i].round = rv.findings[i].round
      BY <1>1, <2>5, Zenon DEF FindingsInv, Ledger, SameClaim
    <3>2. QED
      BY <1>1, <2>4, <3>1
  <2>9. Recurrences'
    <3>1. \A i, j \in DOMAIN rv.findings : ~Recurs(i, j)
      BY <1>1, <2>6, Zenon DEF FindingsInv, Recurrences
    <3>2. \A i, j \in DOMAIN rv'.findings : Recurs(i, j)' => Recurs(i, j)
      BY <2>5, Zenon DEF Recurs, SameClaim
    <3>3. QED
      BY <2>5, <3>1, <3>2, Zenon DEF Recurrences
  <2>10. Terminal' /\ Entered' /\ Passed'
    BY <1>1, <2>6 DEF Terminal, Entered, Passed
  <2>11. QED
    BY <2>7, <2>8, <2>9, <2>10 DEF FindingsInv
<1>3. CASE reviewReturns \/ solicitReturns \/ solicitFails
  <2>1. Same(rv, rv') /\ rv'.skip = rv.skip
    <3>1. Same(rv, rv)
      BY Zenon DEF Same
    <3>2. CASE rv' = rv
      BY <3>1, <3>2, Zenon DEF Same
    <3>3. CASE solicitFails
      <4>1. \E st : rv' \in {rv, [rv EXCEPT !.status = st]}
        BY <3>3, Zenon DEF solicitFails
      <4>2. PICK st : rv' = rv \/ rv' = [rv EXCEPT !.status = st]
        BY <4>1, Zenon
      <4>3. WellFormed(rv)
        BY <1>1
      <4>4. Same(rv, [rv EXCEPT !.status = st]) /\ [rv EXCEPT !.status = st].skip = rv.skip
        BY <4>3, FieldsApart, Zenon
      <4>5. QED
        BY <3>2, <4>2, <4>4, Zenon
    <3>4. QED
      BY <1>3, <3>2, <3>3 DEF reviewReturns, solicitReturns
  <2>2. stage \in {"reviewing", "soliciting"} /\ stage' \in {"soliciting", "classify"} /\ decision' = decision
    BY <1>3 DEF reviewReturns, solicitReturns, solicitFails
  <2>3. stage' = "soliciting" => stage = "reviewing"
    BY <1>3 DEF reviewReturns, solicitReturns, solicitFails
  <2>4. \A i \in DOMAIN rv.findings : rv.findings[i].round < rv.rounds
    BY <2>2, Zenon DEF FindingsInv, ThisRound
  <2>5. Ledger'
    BY <2>1, Zenon DEF FindingsInv, Ledger, Same
  <2>6. ThisRound'
    <3> SUFFICES ASSUME NEW i \in DOMAIN rv'.findings
                 PROVE  rv'.findings[i].round < rv'.rounds /\ rv'.findings[i].round # rv'.rounds
      BY Zenon DEF ThisRound
    <3>1. rv.findings[i].round < rv.rounds /\ rv.findings[i].round \in Nat
      BY <1>1, <2>1, <2>4, Zenon DEF Same
    <3>2. QED
      BY <1>1, <2>1, <3>1 DEF Same
  <2>7. Recurrences'
    <3>1. \A i, j \in DOMAIN rv.findings : ~Recurs(i, j)
      BY <1>1, <2>2, Zenon DEF FindingsInv, Recurrences
    <3>2. rv'.findings = rv.findings
      BY <2>1 DEF Same
    <3>3. \A i, j : Recurs(i, j)' <=> Recurs(i, j)
      BY <3>2, Zenon DEF Recurs
    <3>4. QED
      BY <3>1, <3>2, <3>3, Zenon DEF Recurrences
  <2>8. Terminal' /\ Entered' /\ Passed'
    BY <1>1, <2>1, <2>2 DEF Terminal, Entered, Passed, Same
  <2>9. QED
    BY <2>5, <2>6, <2>7, <2>8 DEF FindingsInv
<1>4. QED
  BY <1>2, <1>3

(* What the ladder records: a confirmed claim blocks, and no claim is        *)
(* resolved in its own round.                                                *)
LEMMA LadderRecords ==
    ASSUME Basis, classifyProse \/ escalateSettles \/ escalateUnsnapshotted
    PROVE  \E c \in Claim, fate \in Fates, confirmed \in BOOLEAN :
              /\ record(c, fate, confirmed)
              /\ fate \notin {"repaired", "expired"} /\ (confirmed => fate = "open")
<1>1. next \in DOMAIN claims /\ claims[next] \in Claim
  <2>1. next \in DOMAIN claims
    BY DEF classifyProse, escalateSettles, escalateUnsnapshotted, Basis, ReproAt
  <2>2. claims \in Seq(Claim)
    BY DEF Basis, ReviewTypeOK
  <2>3. QED
    BY <2>1, <2>2
<1>2. ladderFate(claims[next]) \in Fates \ {"repaired", "expired"} /\ "dropped" \in Fates
  BY DEF ladderFate, Fates
<1>3. CASE classifyProse
  <2>1. PICK fate \in {ladderFate(claims[next]), "dropped"} : record(claims[next], fate, FALSE)
    BY <1>3, Zenon DEF classifyProse
  <2>2. QED
    BY <1>1, <1>2, <2>1
<1>4. CASE escalateUnsnapshotted
  <2>1. record(claims[next], "dropped", FALSE)
    BY <1>4 DEF escalateUnsnapshotted
  <2>2. QED
    BY <1>1, <1>2, <2>1
<1>5. CASE escalateSettles
  <2> DEFINE c == claims[next]
             fate == CASE c.run = "mutates"     -> "dropped"
                       [] c.run = "unstartable" -> ladderFate(c)
                       [] c.run = "fails"       -> "open"
                       [] c.run = "passes"      ->
                            IF c.confidence < reviewBlockConfidence THEN "refuted" ELSE "advised"
  <2>1. record(c, fate, c.run = "fails")
    BY <1>5 DEF escalateSettles
  <2>2. c.run \in ReproRuns /\ c.run # "none"
    BY <1>1, <1>5 DEF Claim, escalateSettles, Basis, ReproAt, reproEligible
  <2>3. fate \in Fates \ {"repaired", "expired"} /\ (c.run = "fails" => fate = "open")
    BY <1>2, <2>2 DEF ReproRuns, Fates
  <2>4. (c.run = "fails") \in BOOLEAN
    OBVIOUS
  <2> HIDE DEF fate
  <2>5. QED
    BY <1>1, <2>1, <2>3, <2>4
<1>6. QED
  BY <1>3, <1>4, <1>5

(* Classification and execution of the claims. *)
LEMMA LadderKeepsFindings ==
    ASSUME Basis, FindingsInv, classifyProse \/ escalate \/ escalateSettles \/ escalateUnsnapshotted
    PROVE  FindingsInv'
<1>1. /\ rv.rounds \in Nat /\ ~rv.blocked /\ ~rv.skip /\ decision \in {"none", "unverified"}
      /\ stage \in {"classify", "repro"} /\ stage' \in {"classify", "repro"} /\ decision' = decision
  <2>1. /\ stage \in {"classify", "repro"} /\ stage' \in {"classify", "repro"} /\ decision' = decision
    BY DEF classifyProse, escalate, escalateSettles, escalateUnsnapshotted
  <2>2. QED
    BY <2>1, BasisGives DEF FindingsInv, Terminal, Entered, Basis, Undecided
<1>2. WellFormed(rv)
  BY BasisGives
<1>3. CASE escalate
  <2>1. rv' = rv
    BY <1>3 DEF escalate
  <2>2. Ledger' /\ ThisRound' /\ Recurrences'
    BY <1>1, <2>1, Zenon DEF FindingsInv, Ledger, ThisRound, Recurrences, Recurs
  <2>3. Terminal' /\ Entered' /\ Passed'
    BY <1>1, <2>1 DEF Terminal, Entered, Passed
  <2>4. QED
    BY <2>2, <2>3 DEF FindingsInv
<1>4. CASE classifyProse \/ escalateSettles \/ escalateUnsnapshotted
  <2>1. PICK c \in Claim, fate \in Fates, confirmed \in BOOLEAN :
           /\ record(c, fate, confirmed)
           /\ fate \notin {"repaired", "expired"} /\ (confirmed => fate = "open")
    BY <1>4, LadderRecords
  <2> DEFINE n == Len(rv.findings) + 1
  <2>2. /\ n \in Nat /\ DOMAIN rv.findings = 1..(n - 1) /\ DOMAIN rv'.findings = 1..n
        /\ \A i \in DOMAIN rv.findings : rv'.findings[i] = rv.findings[i]
        /\ rv'.findings[n].round = rv.rounds
        /\ rv'.findings[n].fate = fate /\ rv'.findings[n].confirmed = confirmed
        /\ rv'.pending = IF fate = "open" THEN rv.pending \cup {n} ELSE rv.pending
        /\ rv'.rounds = rv.rounds /\ rv'.blocked = rv.blocked /\ rv'.skip = rv.skip
    BY <1>2, <2>1, RecordAppends, Zenon
  <2> HIDE DEF n
  <2>3. /\ \A i \in DOMAIN rv'.findings : i # n => i \in DOMAIN rv.findings
        /\ n \notin DOMAIN rv.findings /\ n \notin rv.pending /\ rv.pending \subseteq DOMAIN rv.findings
    BY <1>2, <2>2 DEF WellFormed
  <2>4. Ledger'
    <3> SUFFICES ASSUME NEW i \in DOMAIN rv'.findings
                 PROVE  /\ rv'.findings[i].fate = "open" <=> i \in rv'.pending
                        /\ rv'.findings[i].confirmed => rv'.findings[i].fate \in {"open", "repaired", "expired"}
                        /\ rv'.findings[i].round <= rv'.rounds
      BY Zenon DEF Ledger
    <3>1. CASE i = n
      BY <1>1, <2>1, <2>2, <2>3, <3>1
    <3>2. CASE i # n
      <4>1. i \in DOMAIN rv.findings /\ rv'.findings[i] = rv.findings[i]
        BY <2>2, <2>3, <3>2
      <4>2. /\ rv.findings[i].fate = "open" <=> i \in rv.pending
            /\ rv.findings[i].confirmed => rv.findings[i].fate \in {"open", "repaired", "expired"}
            /\ rv.findings[i].round <= rv.rounds
        BY <4>1, Zenon DEF FindingsInv, Ledger
      <4>3. i \in rv'.pending <=> i \in rv.pending
        BY <2>2, <3>2
      <4>4. QED
        BY <2>2, <4>1, <4>2, <4>3, Zenon
    <3>3. QED
      BY <3>1, <3>2
  <2>5. ThisRound'
    <3> SUFFICES ASSUME NEW i \in DOMAIN rv'.findings, rv'.findings[i].round = rv'.rounds
                 PROVE  rv'.findings[i].fate \notin {"repaired", "expired"}
      BY <1>1, Zenon DEF ThisRound
    <3>1. CASE i = n
      BY <2>1, <2>2, <3>1
    <3>2. CASE i # n
      BY <1>1, <2>2, <2>3, <3>2, Zenon DEF FindingsInv, ThisRound
    <3>3. QED
      BY <3>1, <3>2
  <2>6. Recurrences'
    <3> SUFFICES ASSUME NEW i \in DOMAIN rv'.findings, NEW j \in DOMAIN rv'.findings, Recurs(i, j)'
                 PROVE  rv'.rounds \in {rv'.findings[i].round, rv'.findings[j].round}
      BY <1>1, Zenon DEF Recurrences
    <3>1. CASE i = n \/ j = n
      BY <2>2, <3>1
    <3>2. CASE i # n /\ j # n
      <4>1. /\ i \in DOMAIN rv.findings /\ j \in DOMAIN rv.findings
            /\ rv'.findings[i] = rv.findings[i] /\ rv'.findings[j] = rv.findings[j]
        BY <2>2, <2>3, <3>2
      <4>2. Recurs(i, j)
        BY <4>1, Zenon DEF Recurs
      <4>3. rv.rounds \in {rv.findings[i].round, rv.findings[j].round}
        BY <1>1, <4>1, <4>2, Zenon DEF FindingsInv, Recurrences
      <4>4. QED
        BY <2>2, <4>1, <4>3, Zenon
    <3>3. QED
      BY <3>1, <3>2
  <2>7. Terminal' /\ Entered' /\ Passed'
    BY <1>1, <2>2 DEF Terminal, Entered, Passed
  <2>8. QED
    BY <2>4, <2>5, <2>6, <2>7 DEF FindingsInv
<1>5. QED
  BY <1>3, <1>4

(* A defect confirmed in two rounds, with nothing recurring in this one, has *)
(* no pair: its finding of this round would be pending.                      *)
LEMMA NothingRecurs ==
    ASSUME Basis, FindingsInv, stage = "classify", recurring(rv) = {}
    PROVE  \A i, j \in DOMAIN rv.findings : ~Recurs(i, j)
<1> SUFFICES ASSUME NEW i \in DOMAIN rv.findings, NEW j \in DOMAIN rv.findings, Recurs(i, j)
             PROVE  FALSE
  OBVIOUS
<1>1. ~rv.blocked
  BY DEF FindingsInv, Terminal
<1>2. rv.rounds = rv.findings[i].round \/ rv.rounds = rv.findings[j].round
  BY <1>1, Zenon DEF FindingsInv, Recurrences
<1>3. \A k, l \in DOMAIN rv.findings : Recurs(k, l) /\ rv.findings[k].round = rv.rounds => FALSE
  <2> SUFFICES ASSUME NEW k \in DOMAIN rv.findings, NEW l \in DOMAIN rv.findings,
                      Recurs(k, l), rv.findings[k].round = rv.rounds
               PROVE  FALSE
    OBVIOUS
  <2>1. rv.findings[k].fate \in {"open", "repaired", "expired"}
    BY Zenon DEF FindingsInv, Ledger, Recurs
  <2>2. rv.findings[k].fate \notin {"repaired", "expired"}
    BY Zenon DEF FindingsInv, ThisRound
  <2>3. k \in rv.pending
    BY <2>1, <2>2, Zenon DEF FindingsInv, Ledger
  <2>4. rv.findings[l].round < rv.rounds
    <3>1. rv.findings[l].round <= rv.rounds /\ rv.findings[l].round # rv.rounds
      BY Zenon DEF FindingsInv, Ledger, Recurs
    <3>2. rv.findings[l].round \in Nat /\ rv.rounds \in Nat
      BY BasisGives
    <3>3. QED
      BY <3>1, <3>2
  <2>5. <<k, l>> \in recurring(rv)
    BY <2>3, <2>4 DEF recurring, Recurs
  <2>6. QED
    BY <2>5
<1>4. Recurs(j, i)
  BY Zenon DEF Recurs
<1>5. QED
  BY <1>2, <1>3, <1>4

(* The earlier finding a recurrence corrects. *)
LEMMA EarlierExists ==
    ASSUME Basis, FindingsInv, recurring(rv) # {}
    PROVE  LET k == recurringEarlier(rv)
           IN  k \in DOMAIN rv.findings /\ rv.findings[k].confirmed /\ rv.findings[k].round < rv.rounds
<1> DEFINE C == recurring(rv)
           First == {q[1] : q \in C}
<1>1. WellFormed(rv) /\ \A i \in DOMAIN rv.findings : i \in Nat
  BY BasisGives
<1>2. \A q \in C : /\ q = <<q[1], q[2]>> /\ q[1] \in DOMAIN rv.findings /\ q[2] \in DOMAIN rv.findings
                     /\ rv.findings[q[2]].confirmed /\ rv.findings[q[2]].round < rv.rounds
  BY <1>1 DEF recurring, WellFormed
<1> HIDE DEF C
<1>3. First \in SUBSET Nat /\ First # {}
  BY <1>1, <1>2 DEF C
<1>4. PICK a \in First : \A m \in First : a <= m
  BY <1>3, SmallestIndex, Zenon
<1> DEFINE Second == {q[2] : q \in {o \in C : o[1] = a}}
<1>5. Second \in SUBSET Nat /\ Second # {}
  BY <1>1, <1>2, <1>4
<1>6. PICK b \in Second : \A m \in Second : b <= m
  BY <1>5, SmallestIndex, Zenon
<1>7. PICK q \in C : q[1] = a /\ q[2] = b
  BY <1>6
<1>8. \A o \in C : q[1] < o[1] \/ (q[1] = o[1] /\ q[2] <= o[2])
  <2> SUFFICES ASSUME NEW o \in C PROVE a < o[1] \/ (a = o[1] /\ b <= o[2])
    BY <1>7
  <2>1. a <= o[1] /\ a \in Nat /\ o[1] \in Nat
    BY <1>3, <1>4
  <2>2. a = o[1] => b <= o[2]
    BY <1>6
  <2>3. QED
    BY <2>1, <2>2
<1> HIDE DEF First, Second
<1>9. recurringEarlier(rv) \in {q2[2] : q2 \in C}
  <2> DEFINE p == CHOOSE x \in C : \A o \in C : x[1] < o[1] \/ (x[1] = o[1] /\ x[2] <= o[2])
  <2>1. p \in C
    BY <1>7, <1>8
  <2>2. recurringEarlier(rv) = p[2]
    BY Zenon DEF recurringEarlier, C
  <2>3. QED
    BY <2>1, <2>2
<1>10. QED
  BY <1>2, <1>9

(* A round that settles without a block leaves the findings alone, and       *)
(* passes only with nothing pending.                                         *)
LEMMA SettleKeepsRecord ==
    ASSUME Basis, settleClean \/ settleFeedback \/ (settleExhausted /\ rv.pending = {})
    PROVE  /\ Same(rv, rv') /\ rv'.skip = rv.skip /\ recurring(rv) = {} /\ stage' = "idle"
           /\ decision' \in {"pass", "block", "feedback", "unverified"}
           /\ decision' = "pass" => rv.pending = {}
<1>1. WellFormed(rv)
  BY BasisGives
<1>2. recurring(rv) = {}
  BY DEF settleClean, settleFeedback, settleExhausted
<1>3. PICK st : \E d \in {"pass", "block", "feedback"} :
         Answer(setReviewSemanticStatus(rv, st), d) /\ (d = "pass" => rv.pending = {})
  <2>1. CASE settleClean
    BY <2>1, RequiredDecides, Zenon DEF settleClean
  <2>2. CASE settleFeedback
    BY <2>2, Zenon DEF settleFeedback
  <2>3. CASE settleExhausted /\ rv.pending = {}
    BY <2>3, RequiredDecides, Zenon DEF settleExhausted
  <2>4. QED
    BY <2>1, <2>2, <2>3
<1>4. Same(rv, setReviewSemanticStatus(rv, st)) /\ setReviewSemanticStatus(rv, st).skip = rv.skip
  BY <1>1, SemanticApart, Zenon
<1>5. rv' = setReviewSemanticStatus(rv, st) /\ stage' = "idle"
  BY <1>3, Zenon DEF Answer
<1>6. /\ decision' \in {"pass", "block", "feedback", "unverified"}
      /\ decision' = "pass" => rv.pending = {}
  BY <1>3 DEF Answer
<1>7. QED
  BY <1>2, <1>4, <1>5, <1>6, Zenon

(* A block expires the pending blockers and, on a recurrence, the earlier    *)
(* finding of the same defect.                                               *)
LEMMA SettleBlocks ==
    ASSUME Basis, FindingsInv, settleRecurring \/ (settleExhausted /\ rv.pending # {})
    PROVE  /\ Refated(rv, rv') /\ rv'.pending = {} /\ rv'.blocked = TRUE /\ rv'.status = "blocked"
           /\ rv'.skip = rv.skip /\ stage' = "idle" /\ decision' \in {"block", "unverified"}
           /\ \A i \in DOMAIN rv.findings :
                 IF rv.findings[i].fate = "open" THEN rv'.findings[i].fate = "expired"
                 ELSE \/ rv'.findings[i].fate = rv.findings[i].fate
                      \/ rv.findings[i].confirmed /\ rv'.findings[i].fate = "expired"
           /\ \E i \in DOMAIN rv.findings : rv'.findings[i].fate = "expired"
<1>1. WellFormed(rv) /\ rv.pending \subseteq DOMAIN rv.findings
  BY BasisGives DEF WellFormed
<1>2. \A i \in DOMAIN rv.findings : rv.findings[i].fate = "open" <=> i \in rv.pending
  BY Zenon DEF FindingsInv, Ledger
<1>3. CASE settleExhausted /\ rv.pending # {}
  <2>1. Answer(blockRound(rv), "block")
    BY <1>3, Zenon DEF settleExhausted
  <2> DEFINE s == blockRound(rv)
  <2>2. /\ Refated(rv, s) /\ s.pending = {} /\ s.blocked = TRUE /\ s.status = "blocked" /\ s.skip = rv.skip
        /\ \A i \in DOMAIN rv.findings :
              /\ s.findings[i].fate = IF i \in rv.pending /\ rv.findings[i].fate = "open"
                                      THEN "expired" ELSE rv.findings[i].fate
              /\ [s.findings[i] EXCEPT !.fate = rv.findings[i].fate] = rv.findings[i]
    <3>1. WellFormed(rv)
      BY <1>1
    <3>2. QED
      BY <3>1, BlockRoundEffect, Zenon
  <2>3. rv' = s /\ stage' = "idle" /\ decision' \in {"block", "unverified"}
    BY <2>1 DEF Answer
  <2> HIDE DEF s
  <2>4. PICK i \in DOMAIN rv.findings : i \in rv.pending
    BY <1>1, <1>3
  <2>5. s.findings[i].fate = "expired"
    BY <1>2, <2>2, <2>4, Zenon
  <2>6. QED
    BY <1>2, <2>2, <2>3, <2>5, Zenon
<1>4. CASE settleRecurring
  <2> DEFINE k == recurringEarlier(rv)
             x == [rv EXCEPT !.findings[k].fate = "expired"]
             s == blockRound(x)
  <2>1. recurring(rv) # {} /\ Answer(s, "block")
    BY <1>4 DEF settleRecurring
  <2>2. k \in DOMAIN rv.findings /\ rv.findings[k].confirmed
    BY <2>1, EarlierExists
  <2>3. /\ WellFormed(x) /\ Refated(rv, x) /\ x.pending = rv.pending /\ x.skip = rv.skip
        /\ \A i \in DOMAIN rv.findings :
              /\ x.findings[i].fate = IF i = k THEN "expired" ELSE rv.findings[i].fate
              /\ [x.findings[i] EXCEPT !.fate = rv.findings[i].fate] = rv.findings[i]
    <3>1. WellFormed(rv)
      BY <1>1
    <3> HIDE DEF k
    <3>2. QED
      BY <3>1, ExpireOne, Zenon
  <2> HIDE DEF k, x
  <2>4. /\ Refated(x, s) /\ s.pending = {} /\ s.blocked = TRUE /\ s.status = "blocked" /\ s.skip = x.skip
        /\ \A i \in DOMAIN x.findings :
              /\ s.findings[i].fate = IF i \in x.pending /\ x.findings[i].fate = "open"
                                      THEN "expired" ELSE x.findings[i].fate
              /\ [s.findings[i] EXCEPT !.fate = x.findings[i].fate] = x.findings[i]
    BY <2>3, BlockRoundEffect, Zenon
  <2>5. rv' = s /\ stage' = "idle" /\ decision' \in {"block", "unverified"}
    BY <2>1 DEF Answer
  <2> HIDE DEF s
  <2>6. Refated(rv, s)
    <3>1. Refated(rv, x) /\ Refated(x, s)
      BY <2>3, <2>4
    <3>2. QED
      BY <3>1 DEF Refated, SameClaim
  <2>7. \A i \in DOMAIN rv.findings : s.findings[i].fate =
           IF i = k \/ rv.findings[i].fate = "open" THEN "expired" ELSE rv.findings[i].fate
    <3> TAKE i \in DOMAIN rv.findings
    <3>1. i \in DOMAIN x.findings
      BY <2>3 DEF Refated
    <3>2. x.findings[i].fate = IF i = k THEN "expired" ELSE rv.findings[i].fate
      BY <2>3
    <3>3. s.findings[i].fate = IF i \in rv.pending /\ x.findings[i].fate = "open"
                               THEN "expired" ELSE x.findings[i].fate
      BY <2>3, <2>4, <3>1
    <3>4. QED
      BY <1>2, <3>2, <3>3
  <2>8. QED
    BY <2>2, <2>3, <2>4, <2>5, <2>6, <2>7
<1>5. QED
  BY <1>3, <1>4

(* The end of a round. *)
LEMMA SettleKeepsFindings ==
    ASSUME Basis, FindingsInv, settle PROVE FindingsInv'
<1>1. /\ stage = "classify" /\ rv.rounds \in Nat /\ ~rv.blocked /\ ~rv.skip /\ tree' = tree /\ askTree' = askTree
      /\ \A i \in DOMAIN rv.findings : rv.findings[i].round \in Nat
  <2>1. stage = "classify" /\ tree' = tree /\ askTree' = askTree
    BY DEF settle
  <2>2. QED
    BY <2>1, BasisGives DEF FindingsInv, Terminal, Entered
<1>2. CASE settleClean \/ settleFeedback \/ (settleExhausted /\ rv.pending = {})
  <2>1. /\ Same(rv, rv') /\ rv'.skip = rv.skip /\ recurring(rv) = {} /\ stage' = "idle"
        /\ decision' \in {"pass", "block", "feedback", "unverified"}
        /\ decision' = "pass" => rv.pending = {}
    BY <1>2, SettleKeepsRecord
  <2>2. rv'.findings = rv.findings /\ rv'.pending = rv.pending /\ rv'.rounds = rv.rounds /\ rv'.blocked = rv.blocked
    BY <2>1 DEF Same
  <2>3. Ledger' /\ ThisRound'
    BY <2>1, <2>2, Zenon DEF FindingsInv, Ledger, ThisRound
  <2>4. Recurrences'
    <3>1. \A i, j : Recurs(i, j)' <=> Recurs(i, j)
      BY <2>2, Zenon DEF Recurs
    <3>2. \A i, j \in DOMAIN rv.findings : ~Recurs(i, j)
      BY <1>1, <2>1, NothingRecurs
    <3>3. QED
      BY <2>2, <3>1, <3>2, Zenon DEF Recurrences
  <2>5. Terminal' /\ Entered'
    BY <1>1, <2>1, <2>2 DEF Terminal, Entered
  <2>6. \A i \in DOMAIN rv.findings : rv.findings[i].round = rv.rounds => rv.findings[i].fate # "expired"
    BY <1>1, Zenon DEF FindingsInv, ThisRound
  <2>7. Passed'
    BY <2>1, <2>2, <2>6, Zenon DEF Passed
  <2>8. QED
    BY <2>3, <2>4, <2>5, <2>7 DEF FindingsInv
<1>3. CASE settleRecurring \/ (settleExhausted /\ rv.pending # {})
  <2>1. /\ Refated(rv, rv') /\ rv'.pending = {} /\ rv'.blocked = TRUE /\ rv'.status = "blocked"
        /\ rv'.skip = rv.skip /\ stage' = "idle" /\ decision' \in {"block", "unverified"}
        /\ \A i \in DOMAIN rv.findings :
              IF rv.findings[i].fate = "open" THEN rv'.findings[i].fate = "expired"
              ELSE \/ rv'.findings[i].fate = rv.findings[i].fate
                   \/ rv.findings[i].confirmed /\ rv'.findings[i].fate = "expired"
        /\ \E i \in DOMAIN rv.findings : rv'.findings[i].fate = "expired"
    BY <1>3, SettleBlocks
  <2>2. DOMAIN rv'.findings = DOMAIN rv.findings /\ rv'.rounds = rv.rounds
    BY <2>1 DEF Refated
  <2>3. Ledger'
    <3> SUFFICES ASSUME NEW i \in DOMAIN rv'.findings
                 PROVE  /\ rv'.findings[i].fate # "open"
                        /\ rv'.findings[i].confirmed => rv'.findings[i].fate \in {"open", "repaired", "expired"}
                        /\ rv'.findings[i].round <= rv'.rounds
      BY <2>1 DEF Ledger
    <3>1. /\ rv.findings[i].confirmed => rv.findings[i].fate \in {"open", "repaired", "expired"}
          /\ rv.findings[i].round <= rv.rounds /\ SameClaim(rv.findings[i], rv'.findings[i])
      BY <2>1, <2>2, Zenon DEF FindingsInv, Ledger, Refated
    <3>2. QED
      BY <2>1, <2>2, <3>1 DEF SameClaim
  <2>4. ThisRound' /\ Recurrences' /\ Entered' /\ Passed'
    BY <1>1, <2>1 DEF ThisRound, Recurrences, Entered, Passed
  <2>5. Terminal'
    BY <2>1, <2>2, Zenon DEF Terminal
  <2>6. QED
    BY <2>3, <2>4, <2>5 DEF FindingsInv
<1>4. QED
  BY <1>2, <1>3 DEF settle

(* The report, the solver's edits and the cancel. *)
LEMMA OutsideKeepsFindings ==
    ASSUME Basis, FindingsInv, solverEdits \/ report \/ cancel \/ UNCHANGED reviewVars
    PROVE  FindingsInv'
<1>1. CASE cancel \/ UNCHANGED reviewVars
  <2>1. UNCHANGED <<rv, stage, decision, tree, askTree>>
    BY <1>1 DEF cancel, reviewVars
  <2>2. QED
    BY <2>1 DEF FindingsInv, Ledger, ThisRound, Recurrences, Recurs, Terminal, Entered, Passed
<1>2. CASE solverEdits
  <2>1. UNCHANGED <<rv, stage, decision, askTree>> /\ stage = "idle"
    BY <1>2 DEF solverEdits, awaitingSolver
  <2>2. QED
    BY <2>1 DEF FindingsInv, Ledger, ThisRound, Recurrences, Recurs, Terminal, Entered, Passed
<1>3. CASE report
  <2> DEFINE p == resolvePending(rv, "expired")
  <2>1. WellFormed(rv) /\ "expired" \in Fates
    BY BasisGives DEF Fates
  <2>2. /\ WellFormed(p) /\ Refated(rv, p) /\ p.pending = {}
        /\ p.blocked = rv.blocked /\ p.skip = rv.skip /\ p.status = rv.status
        /\ \A i \in DOMAIN rv.findings :
              /\ p.findings[i].fate = IF i \in rv.pending /\ rv.findings[i].fate = "open"
                                      THEN "expired" ELSE rv.findings[i].fate
              /\ [p.findings[i] EXCEPT !.fate = rv.findings[i].fate] = rv.findings[i]
    BY <2>1, ResolveEffect, Zenon
  <2>3. rv' = [p EXCEPT !.reported = TRUE]
    BY <1>3 DEF report
  <2> HIDE DEF p
  <2>4. /\ rv'.findings = p.findings /\ rv'.pending = p.pending /\ rv'.blocked = p.blocked
        /\ rv'.skip = p.skip /\ rv'.rounds = p.rounds /\ rv'.status = p.status
    BY <2>2, <2>3, Zenon DEF WellFormed, ReviewState
  <2>5. stage = "idle" /\ UNCHANGED <<stage, decision, tree, askTree>>
    BY <1>3 DEF report
  <2>6. /\ DOMAIN rv'.findings = DOMAIN rv.findings /\ rv'.rounds = rv.rounds
        /\ \A i \in DOMAIN rv.findings : SameClaim(rv.findings[i], rv'.findings[i])
    BY <2>2, <2>4, Zenon DEF Refated
  <2>7. \A i \in DOMAIN rv.findings : /\ rv.findings[i].fate = "open" <=> i \in rv.pending
                                      /\ rv'.findings[i].fate = IF i \in rv.pending THEN "expired"
                                                                ELSE rv.findings[i].fate
    <3>1. \A i \in DOMAIN rv.findings : rv.findings[i].fate = "open" <=> i \in rv.pending
      BY Zenon DEF FindingsInv, Ledger
    <3>2. QED
      BY <2>2, <2>4, <3>1, Zenon
  <2>8. Ledger'
    <3> SUFFICES ASSUME NEW i \in DOMAIN rv'.findings
                 PROVE  /\ rv'.findings[i].fate # "open"
                        /\ rv'.findings[i].confirmed => rv'.findings[i].fate \in {"open", "repaired", "expired"}
                        /\ rv'.findings[i].round <= rv'.rounds
      BY <2>2, <2>4 DEF Ledger
    <3>1. /\ rv.findings[i].confirmed => rv.findings[i].fate \in {"open", "repaired", "expired"}
          /\ rv.findings[i].round <= rv.rounds /\ SameClaim(rv.findings[i], rv'.findings[i])
      BY <2>6, Zenon DEF FindingsInv, Ledger
    <3>2. QED
      BY <2>6, <2>7, <3>1 DEF SameClaim
  <2>9. ThisRound' /\ Entered'
    BY <2>2, <2>4, <2>5 DEF ThisRound, Entered, FindingsInv
  <2>10. Recurrences'
    <3>1. rv'.blocked = rv.blocked
      BY <2>2, <2>4
    <3>2. \A i, j \in DOMAIN rv'.findings : Recurs(i, j)' => Recurs(i, j)
      BY <2>6, Zenon DEF Recurs, SameClaim
    <3>3. \A i, j \in DOMAIN rv.findings : Recurs(i, j) => rv.blocked
      BY <2>5, Zenon DEF FindingsInv, Recurrences
    <3>4. QED
      BY <2>6, <3>1, <3>2, <3>3, Zenon DEF Recurrences
  <2>11. Terminal'
    <3> SUFFICES ASSUME rv.blocked PROVE Terminal'
      BY <2>2, <2>4 DEF Terminal
    <3>1. PICK i \in DOMAIN rv.findings : rv.findings[i].fate = "expired"
      BY Zenon DEF FindingsInv, Terminal
    <3>2. rv'.findings[i].fate = "expired" /\ i \in DOMAIN rv'.findings
      BY <2>6, <2>7, <3>1, Zenon
    <3>3. rv'.pending = {} /\ rv'.status = rv.status
      BY <2>2, <2>4
    <3>4. QED
      BY <2>5, <3>2, <3>3 DEF FindingsInv, Terminal
  <2>12. Passed'
    <3> SUFFICES ASSUME decision = "pass", rv.status \notin Infrastructure \cup {"canceled"}, askTree # BaseTree
                 PROVE  Passed'
      BY <2>2, <2>4, <2>5 DEF Passed
    <3>1. /\ rv.pending = {}
          /\ \A i \in DOMAIN rv.findings : rv.findings[i].round = rv.rounds => rv.findings[i].fate # "expired"
      BY DEF FindingsInv, Passed
    <3>2. \A i \in DOMAIN rv'.findings : rv'.findings[i].round = rv'.rounds => rv'.findings[i].fate # "expired"
      BY <2>6, <2>7, <3>1 DEF SameClaim
    <3>3. QED
      BY <2>2, <2>4, <3>2 DEF Passed
  <2>13. QED
    BY <2>8, <2>9, <2>10, <2>11, <2>12 DEF FindingsInv
<1>4. QED
  BY <1>1, <1>2, <1>3

(* A review starts without a finding.                                        *)
LEMMA RecordInit ==
    ASSUME ReviewInit
    PROVE  /\ rv.findings = <<>> /\ rv.pending = {} /\ rv.blocked = FALSE
           /\ rv.skip => rv.status = "unavailable"
<1> DEFINE armed == [armed |-> TRUE, skip |-> FALSE, rounds |-> 0, status |-> "none", blocked |-> FALSE,
                     salvage |-> FALSE, findings |-> <<>>, pending |-> {}, reported |-> FALSE]
           unarmed == [armed EXCEPT !.armed = FALSE, !.skip = TRUE, !.status = "unavailable"]
<1>1. rv \in {armed, unarmed}
  BY Zenon DEF ReviewInit, newReviewState
<1>2. CASE rv = armed
  BY <1>2
<1>3. CASE rv = unarmed
  BY <1>3, Zenon
<1>4. QED
  BY <1>1, <1>2, <1>3

LEMMA FindingsInit == ReviewInit => FindingsInv
<1> SUFFICES ASSUME ReviewInit PROVE FindingsInv
  OBVIOUS
<1>1. /\ rv.findings = <<>> /\ rv.pending = {} /\ rv.blocked = FALSE
      /\ rv.skip => rv.status = "unavailable"
  BY RecordInit
<1>2. DOMAIN rv.findings = {}
  BY <1>1
<1>3. stage = "idle" /\ decision = "none" /\ "unavailable" \in Infrastructure
  BY DEF ReviewInit, Infrastructure
<1>4. Ledger /\ ThisRound /\ Recurrences
  BY <1>2, Zenon DEF Ledger, ThisRound, Recurrences
<1>5. Terminal /\ Entered /\ Passed
  BY <1>1, <1>3 DEF Terminal, Entered, Passed
<1>6. QED
  BY <1>4, <1>5 DEF FindingsInv

(* Every step of a review keeps the invariant on findings.                   *)
LEMMA FindingsInductive == Basis /\ FindingsInv /\ [ReviewNext]_reviewVars => FindingsInv'
<1> SUFFICES ASSUME Basis, FindingsInv, [ReviewNext]_reviewVars PROVE FindingsInv'
  OBVIOUS
<1>1. CASE solverFinishes \/ runFails
  BY <1>1, EntryKeepsFindings
<1>2. CASE salvageCapture \/ captureDiffFails \/ nothingToReview \/ reviewFails
  BY <1>2, EarlyKeepsFindings
<1>3. CASE startRound \/ reviewReturns \/ solicitReturns \/ solicitFails
  BY <1>3, RoundKeepsFindings
<1>4. CASE classifyProse \/ escalate \/ escalateSettles \/ escalateUnsnapshotted
  BY <1>4, LadderKeepsFindings
<1>5. CASE settle
  BY <1>5, SettleKeepsFindings
<1>6. CASE solverEdits \/ report \/ cancel \/ UNCHANGED reviewVars
  BY <1>6, OutsideKeepsFindings
<1>7. QED
  BY <1>1, <1>2, <1>3, <1>4, <1>5, <1>6 DEF ReviewNext, reviewStep

(* The types, where the ladder is, and that nothing is decided while it runs. *)
LEMMA BasisHolds == ReviewSpec => []Basis
<1>1. ReviewTypeOK /\ ReproAt /\ ReviewInv => Basis
  BY DEF Basis, ReviewInv
<1>2. ReviewSpec => [](ReviewTypeOK /\ ReproAt)
  BY ReviewTypeInit, ReviewTypeInductive, PTL DEF ReviewSpec
<1>3. QED
  BY <1>1, <1>2, ReviewInvariant, PTL

(* The findings and the gate's position always agree. *)
THEOREM FindingsInvariant == ReviewSpec => []FindingsInv
  BY FindingsInit, FindingsInductive, BasisHolds, PTL DEF ReviewSpec

(* Under every policy a pass, a block and an early stop agree with the       *)
(* findings the gate reports.                                                *)
THEOREM ReviewVerdictExplained == ReviewSpec => []VerdictIsExplained
<1>1. FindingsInv => VerdictIsExplained
  <2> SUFFICES ASSUME FindingsInv PROVE VerdictIsExplained
    OBVIOUS
  <2>1. BlockerNeverPasses
    <3> SUFFICES ASSUME decision = "pass", rv.status \notin Infrastructure \cup {"canceled"}, askTree # BaseTree,
                        NEW i \in DOMAIN rv.findings, rv.findings[i].round = rv.rounds
                 PROVE  rv.findings[i].fate \notin {"open", "expired"}
      BY Zenon DEF BlockerNeverPasses
    <3>1. rv.pending = {} /\ rv.findings[i].fate # "expired"
      BY DEF FindingsInv, Passed
    <3>2. rv.findings[i].fate = "open" => i \in rv.pending
      BY Zenon DEF FindingsInv, Ledger
    <3>3. QED
      BY <3>1, <3>2
  <2>2. RecurrenceStops
    <3> SUFFICES ASSUME stage = "idle", NEW i \in DOMAIN rv.findings, NEW j \in DOMAIN rv.findings, Recurs(i, j)
                 PROVE  rv.blocked
      BY Zenon DEF RecurrenceStops, Recurs
    <3>1. QED
      BY DEF FindingsInv, Recurrences
  <2>3. BlockIsExplained
    BY DEF BlockIsExplained, FindingsInv, Terminal, Ledger
  <2>4. QED
    BY <2>1, <2>2, <2>3 DEF VerdictIsExplained
<1>2. QED
  BY <1>1, FindingsInvariant, PTL

-----------------------------------------------------------------------------
(* The fates along a run. *)

(* A finding differs from another of the same claim by its fate at most. *)
LEMMA FateRestores ==
    ASSUME NEW x \in Finding, NEW y \in Finding, SameClaim(x, y)
    PROVE  [y EXCEPT !.fate = x.fate] = x
  BY Zenon DEF Finding, SameClaim

(* How a fate may move from r to s. *)
FateMoves(i) ==
    LET old == rv.findings[i]  new == rv'.findings[i]
    IN  \/ new.fate = old.fate
        \/ old.fate = "open" /\ new.fate \in {"repaired", "expired"}
        \/ old.fate = "repaired" /\ new.fate = "expired" /\ rv'.blocked

(* A step keeps every claim made and moves fates only along their table.     *)
LEMMA FatesMove ==
    ASSUME Basis, FindingsInv, [ReviewNext]_reviewVars
    PROVE  /\ \A i \in DOMAIN rv.findings :
                 i \in DOMAIN rv'.findings /\ SameClaim(rv.findings[i], rv'.findings[i]) /\ FateMoves(i)
           /\ \/ DOMAIN rv'.findings = DOMAIN rv.findings
              \/ classifyProse \/ escalateSettles \/ escalateUnsnapshotted
<1>1. WellFormed(rv)
  BY BasisGives
<1>2. ASSUME rv'.findings = rv.findings
      PROVE  /\ \A i \in DOMAIN rv.findings :
                   i \in DOMAIN rv'.findings /\ SameClaim(rv.findings[i], rv'.findings[i]) /\ FateMoves(i)
             /\ DOMAIN rv'.findings = DOMAIN rv.findings
  BY <1>2, Zenon DEF SameClaim, FateMoves
<1>3. \A i \in DOMAIN rv.findings : rv.findings[i].fate = "open" <=> i \in rv.pending
  BY Zenon DEF FindingsInv, Ledger
<1>4. CASE solverFinishes \/ runFails \/ solverEdits \/ cancel \/ UNCHANGED reviewVars \/ escalate
           \/ reviewReturns \/ solicitReturns \/ solicitFails \/ nothingToReview \/ captureDiffFails
           \/ reviewFails \/ salvageCapture
  <2>1. CASE solverFinishes \/ runFails \/ solverEdits \/ cancel \/ UNCHANGED reviewVars
    <3>1. rv' \in {rv, [rv EXCEPT !.status = "canceled"]}
      BY <2>1 DEF solverFinishes, reviewFinish, Answer, runFails, reviewUnverified, solverEdits, cancel, reviewVars
    <3>2. Same(rv, [rv EXCEPT !.status = "canceled"])
      BY <1>1, FieldsApart, Zenon
    <3>3. QED
      BY <1>2, <3>1, <3>2 DEF Same
  <2>2. CASE escalate \/ reviewReturns \/ solicitReturns
    BY <1>2, <2>2 DEF escalate, reviewReturns, solicitReturns
  <2>3. CASE solicitFails
    <3>1. PICK st : rv' = rv \/ rv' = [rv EXCEPT !.status = st]
      BY <2>3, Zenon DEF solicitFails
    <3>2. Same(rv, [rv EXCEPT !.status = st])
      BY <1>1, FieldsApart, Zenon
    <3>3. QED
      BY <1>2, <3>1, <3>2 DEF Same
  <2>4. CASE nothingToReview
    <3>1. rv' = setReviewSemanticStatus(rv, "clean")
      BY <2>4 DEF nothingToReview, Answer
    <3>2. Same(rv, setReviewSemanticStatus(rv, "clean"))
      BY <1>1, SemanticApart, Zenon
    <3>3. QED
      BY <1>2, <3>1, <3>2 DEF Same
  <2>5. CASE captureDiffFails \/ reviewFails
    <3>1. PICK st : rv' = failOpen(rv, st)
      BY <2>5, Zenon DEF captureDiffFails, reviewFails, Answer
    <3>2. Same(rv, failOpen(rv, st))
      BY <1>1, FailOpenApart, Zenon
    <3>3. QED
      BY <1>2, <3>1, <3>2 DEF Same
  <2>6. CASE salvageCapture
    <3>1. rv' \in {rv, [rv EXCEPT !.skip = TRUE, !.status = "unavailable"], [rv EXCEPT !.skip = TRUE],
                   [rv EXCEPT !.salvage = TRUE], [rv EXCEPT !.salvage = TRUE, !.status = "canceled"]}
      BY <2>6, Zenon DEF salvageCapture, Answer
    <3>2. rv'.findings = rv.findings
      BY <1>1, <3>1, Zenon DEF WellFormed, ReviewState
    <3>3. QED
      BY <1>2, <3>2
  <2>7. QED
    BY <1>4, <2>1, <2>2, <2>3, <2>4, <2>5, <2>6
<1>5. CASE startRound \/ report
  <2>1. PICK fate \in {"repaired", "expired"} : \E p :
           /\ p = resolvePending(rv, fate)
           /\ rv' = [p EXCEPT !.rounds = rv.rounds + 1] \/ rv' = [p EXCEPT !.reported = TRUE]
    BY <1>5, Zenon DEF startRound, report
  <2> DEFINE p == resolvePending(rv, fate)
  <2>2. fate \in Fates
    BY DEF Fates
  <2>3. /\ WellFormed(p) /\ Refated(rv, p) /\ p.pending = {}
        /\ p.blocked = rv.blocked /\ p.skip = rv.skip /\ p.status = rv.status
        /\ \A i \in DOMAIN rv.findings :
              /\ p.findings[i].fate = IF i \in rv.pending /\ rv.findings[i].fate = "open"
                                      THEN fate ELSE rv.findings[i].fate
              /\ [p.findings[i] EXCEPT !.fate = rv.findings[i].fate] = rv.findings[i]
    BY <1>1, <2>2, ResolveEffect, Zenon
  <2>4. rv' = [p EXCEPT !.rounds = rv.rounds + 1] \/ rv' = [p EXCEPT !.reported = TRUE]
    BY <2>1
  <2> HIDE DEF p
  <2>5. rv'.findings = p.findings
    BY <2>3, <2>4, Zenon DEF WellFormed, ReviewState
  <2>6. QED
    BY <2>3, <2>5 DEF Refated, FateMoves
<1>6. CASE classifyProse \/ escalateSettles \/ escalateUnsnapshotted
  <2>1. PICK c \in Claim, fate \in Fates, confirmed \in BOOLEAN : record(c, fate, confirmed)
    BY <1>6, LadderRecords
  <2> DEFINE n == Len(rv.findings) + 1
  <2>2. /\ n \in Nat /\ DOMAIN rv.findings = 1..(n - 1) /\ DOMAIN rv'.findings = 1..n
        /\ \A i \in DOMAIN rv.findings : rv'.findings[i] = rv.findings[i]
    BY <1>1, <2>1, RecordAppends, Zenon
  <2> HIDE DEF n
  <2>3. \A i \in DOMAIN rv.findings :
           i \in DOMAIN rv'.findings /\ SameClaim(rv.findings[i], rv'.findings[i]) /\ FateMoves(i)
    BY <2>2 DEF SameClaim, FateMoves
  <2>4. QED
    BY <1>6, <2>3
<1>7. CASE settle
  <2>1. CASE settleClean \/ settleFeedback \/ (settleExhausted /\ rv.pending = {})
    <3>1. rv'.findings = rv.findings
      BY <2>1, SettleKeepsRecord DEF Same
    <3>2. QED
      BY <1>2, <3>1
  <2>2. CASE settleRecurring \/ (settleExhausted /\ rv.pending # {})
    <3>1. /\ Refated(rv, rv') /\ rv'.blocked = TRUE
          /\ \A i \in DOMAIN rv.findings :
                IF rv.findings[i].fate = "open" THEN rv'.findings[i].fate = "expired"
                ELSE \/ rv'.findings[i].fate = rv.findings[i].fate
                     \/ rv.findings[i].confirmed /\ rv'.findings[i].fate = "expired"
      BY <2>2, SettleBlocks
    <3>2. \A i \in DOMAIN rv.findings :
             rv.findings[i].confirmed => rv.findings[i].fate \in {"open", "repaired", "expired"}
      BY Zenon DEF FindingsInv, Ledger
    <3>3. QED
      BY <3>1, <3>2 DEF Refated, FateMoves
  <2>3. QED
    BY <1>7, <2>1, <2>2 DEF settle
<1>8. QED
  BY <1>4, <1>5, <1>6, <1>7 DEF ReviewNext, reviewStep

(* A finding never disappears, and its fate is final once it is resolved but *)
(* for the repaired one that blocks again.                                   *)
THEOREM FatesStayFinal == ReviewSpec => FatesAreFinal
<1>1. Basis /\ FindingsInv /\ ReviewTypeOK' /\ [ReviewNext]_reviewVars =>
         [\A i \in DOMAIN rv.findings :
            LET old == rv.findings[i]  new == rv'.findings[i]
            IN  /\ i \in DOMAIN rv'.findings
                /\ [new EXCEPT !.fate = old.fate] = old
                /\ \/ new.fate = old.fate
                   \/ old.fate = "open" /\ new.fate \in {"repaired", "expired"}
                   \/ old.fate = "repaired" /\ new.fate = "expired" /\ rv'.blocked]_rv
  <2> SUFFICES ASSUME Basis, FindingsInv, ReviewTypeOK', [ReviewNext]_reviewVars, NEW i \in DOMAIN rv.findings
               PROVE  /\ i \in DOMAIN rv'.findings
                      /\ [rv'.findings[i] EXCEPT !.fate = rv.findings[i].fate] = rv.findings[i]
                      /\ FateMoves(i)
    BY Zenon DEF FateMoves
  <2>1. i \in DOMAIN rv'.findings /\ SameClaim(rv.findings[i], rv'.findings[i]) /\ FateMoves(i)
    BY FatesMove
  <2>2. rv.findings[i] \in Finding
    BY BasisGives, FindingsAre, Zenon
  <2>3. rv'.findings[i] \in Finding
    BY <2>1, TypeParts, FindingsAre, Zenon
  <2>4. QED
    BY <2>1, <2>2, <2>3, FateRestores, Zenon
<1>2. QED
  BY <1>1, BasisHolds, FindingsInvariant, ReviewTypeCorrect, PTL DEF ReviewSpec, FatesAreFinal

-----------------------------------------------------------------------------
(* The repro budget of a round. *)

(* The findings of round n that owe their fate to an execution, and the      *)
(* claims before k the ladder could execute.                                 *)
Executed(n) == {i \in DOMAIN rv.findings : /\ rv.findings[i].round = n
                                           /\ (rv.findings[i].confirmed \/ rv.findings[i].fate = "refuted")}
Tried(k) == {j \in 1..(k - 1) : reproEligible(claims[j])}

(* No round has more of them than the cap, the round under way no more than  *)
(* it tried, and a command only runs while the budget lasts.                 *)
BudgetInv ==
    /\ \A n \in Nat : Cardinality(Executed(n)) <= ReproCap
    /\ stage = "soliciting" => next = 1
    /\ stage \in {"classify", "repro"} => Cardinality(Executed(rv.rounds)) <= Cardinality(Tried(next))
    /\ stage = "repro" => Cardinality(Tried(next)) < ReproCap

LEMMA ExecutedIsFinite ==
    ASSUME Basis, NEW n
    PROVE  IsFiniteSet(Executed(n)) /\ Cardinality(Executed(n)) \in Nat
<1>1. PICK m \in Nat : DOMAIN rv.findings = 1..m
  <2>1. rv.findings \in Seq(Finding)
    BY BasisGives, FindingsAre, Zenon
  <2>2. QED
    BY <2>1
<1>2. IsFiniteSet(1..m)
  BY FS_Interval
<1>3. Executed(n) \in SUBSET (1..m)
  BY <1>1 DEF Executed
<1>4. QED
  BY <1>2, <1>3, FS_Subset, FS_CardinalityType

LEMMA TriedIsFinite ==
    ASSUME NEW k \in Nat
    PROVE  IsFiniteSet(Tried(k)) /\ Cardinality(Tried(k)) \in Nat
<1>1. IsFiniteSet(1..(k - 1))
  BY FS_Interval
<1>2. Tried(k) \in SUBSET (1..(k - 1))
  BY DEF Tried
<1>3. QED
  BY <1>1, <1>2, FS_Subset, FS_CardinalityType

(* A step that records nothing leaves them as they are. *)
LEMMA ExecutedKept ==
    ASSUME Basis, FindingsInv, [ReviewNext]_reviewVars, DOMAIN rv'.findings = DOMAIN rv.findings
    PROVE  \A n : Executed(n)' = Executed(n)
<1>1. \A i \in DOMAIN rv.findings : SameClaim(rv.findings[i], rv'.findings[i]) /\ FateMoves(i)
  BY FatesMove
<1>2. \A i \in DOMAIN rv.findings :
         /\ rv'.findings[i].round = rv.findings[i].round /\ rv'.findings[i].confirmed = rv.findings[i].confirmed
         /\ rv'.findings[i].fate = "refuted" <=> rv.findings[i].fate = "refuted"
  BY <1>1 DEF SameClaim, FateMoves
<1>3. QED
  BY <1>2 DEF Executed

(* A step that records an unexecuted claim does so too. *)
LEMMA ProseKeepsExecuted ==
    ASSUME Basis, NEW c \in Claim, NEW fate \in Fates, record(c, fate, FALSE), fate # "refuted"
    PROVE  rv'.rounds = rv.rounds /\ next' = next + 1 /\ \A n : Executed(n)' = Executed(n)
<1> DEFINE m == Len(rv.findings) + 1
<1>1. /\ m \in Nat /\ DOMAIN rv.findings = 1..(m - 1) /\ DOMAIN rv'.findings = 1..m
      /\ \A i \in DOMAIN rv.findings : rv'.findings[i] = rv.findings[i]
      /\ rv'.findings[m].fate = fate /\ rv'.findings[m].confirmed = FALSE
      /\ rv'.rounds = rv.rounds /\ next' = next + 1
  BY BasisGives, RecordAppends, Zenon
<1> HIDE DEF m
<1>2. \A i \in DOMAIN rv'.findings : i \in DOMAIN rv.findings \/ i = m
  BY <1>1
<1>3. DOMAIN rv.findings \subseteq DOMAIN rv'.findings
  BY <1>1
<1>4. QED
  BY <1>1, <1>2, <1>3 DEF Executed

(* One that records an executed one adds at most that one to its round. *)
LEMMA RecordAddsOne ==
    ASSUME Basis, NEW c \in Claim, NEW fate \in Fates, NEW confirmed \in BOOLEAN, record(c, fate, confirmed)
    PROVE  /\ rv'.rounds = rv.rounds /\ next' = next + 1
           /\ \A n : n # rv.rounds => Executed(n)' = Executed(n)
           /\ Cardinality(Executed(rv.rounds)') <= Cardinality(Executed(rv.rounds)) + 1
<1> DEFINE m == Len(rv.findings) + 1
<1>1. /\ m \in Nat /\ DOMAIN rv.findings = 1..(m - 1) /\ DOMAIN rv'.findings = 1..m
      /\ \A i \in DOMAIN rv.findings : rv'.findings[i] = rv.findings[i]
      /\ rv'.findings[m].round = rv.rounds /\ rv'.rounds = rv.rounds /\ next' = next + 1
  BY BasisGives, RecordAppends, Zenon
<1> HIDE DEF m
<1>2. \A i \in DOMAIN rv'.findings : i \in DOMAIN rv.findings \/ i = m
  BY <1>1
<1>3. DOMAIN rv.findings \subseteq DOMAIN rv'.findings
  BY <1>1
<1>4. \A n : n # rv.rounds => Executed(n)' = Executed(n)
  BY <1>1, <1>2, <1>3 DEF Executed
<1>5. Executed(rv.rounds)' \in SUBSET (Executed(rv.rounds) \cup {m})
  BY <1>1, <1>2 DEF Executed
<1>6. IsFiniteSet(Executed(rv.rounds)) /\ Cardinality(Executed(rv.rounds)) \in Nat
  BY ExecutedIsFinite
<1>7. /\ IsFiniteSet(Executed(rv.rounds) \cup {m})
      /\ Cardinality(Executed(rv.rounds) \cup {m}) \in {Cardinality(Executed(rv.rounds)), Cardinality(Executed(rv.rounds)) + 1}
  BY <1>6, FS_AddElement
<1>8. IsFiniteSet(Executed(rv.rounds)') /\ Cardinality(Executed(rv.rounds)') <= Cardinality(Executed(rv.rounds) \cup {m})
  BY <1>5, <1>7, FS_Subset
<1>9. Cardinality(Executed(rv.rounds)') \in Nat
  BY <1>8, FS_CardinalityType
<1>10. QED
  BY <1>1, <1>4, <1>6, <1>7, <1>8, <1>9

(* The round under way is the same one. *)
LEMMA RoundShifts ==
    ASSUME rv'.rounds = rv.rounds, \A n : Executed(n)' = Executed(n)
    PROVE  Executed(rv.rounds)' = Executed(rv.rounds)
<1>1. Executed(rv.rounds)' = {i \in DOMAIN rv'.findings : /\ rv'.findings[i].round = rv.rounds
                                 /\ (rv'.findings[i].confirmed \/ rv'.findings[i].fate = "refuted")}
  BY Zenon DEF Executed
<1>2. @ = Executed(rv.rounds)
  BY Zenon DEF Executed
<1>3. QED
  BY <1>1, <1>2

(* The ladder: prose costs nothing, an execution its claim's place. *)
LEMMA LadderKeepsBudget ==
    ASSUME Basis, FindingsInv, BudgetInv,
           classifyProse \/ escalate \/ escalateSettles \/ escalateUnsnapshotted
    PROVE  BudgetInv'
<1>1. /\ next \in Nat \ {0} /\ claims \in Seq(Claim) /\ stage \in {"classify", "repro"}
      /\ rv.rounds \in Nat /\ ReproCap \in Nat
  BY BasisGives, RoundsAssumption
     DEF Basis, ReviewTypeOK, classifyProse, escalate, escalateSettles, escalateUnsnapshotted
<1>2. /\ IsFiniteSet(Tried(next)) /\ Cardinality(Tried(next)) \in Nat
      /\ IsFiniteSet(Tried(next + 1)) /\ Cardinality(Tried(next + 1)) \in Nat
      /\ \A n : Cardinality(Executed(n)) \in Nat
  <2>1. next \in Nat /\ next + 1 \in Nat
    BY <1>1
  <2>2. \A n : Cardinality(Executed(n)) \in Nat
    BY ExecutedIsFinite
  <2>3. QED
    BY <2>1, <2>2, TriedIsFinite, Zenon
<1>3. /\ \A n \in Nat : Cardinality(Executed(n)) <= ReproCap
      /\ Cardinality(Executed(rv.rounds)) <= Cardinality(Tried(next))
  BY <1>1 DEF BudgetInv
<1>4. Tried(next) \subseteq Tried(next + 1) /\ Cardinality(Tried(next)) <= Cardinality(Tried(next + 1))
  <2>1. Tried(next) \in SUBSET Tried(next + 1)
    BY <1>1 DEF Tried
  <2>2. QED
    BY <1>2, <2>1, FS_Subset
<1>5. CASE classifyProse \/ escalateUnsnapshotted
  <2>1. next \in DOMAIN claims /\ claims[next] \in Claim
    <3>1. next \in DOMAIN claims
      BY <1>5 DEF classifyProse, escalateUnsnapshotted, Basis, ReproAt
    <3>2. QED
      BY <1>1, <3>1
  <2>2. PICK fate \in Fates : record(claims[next], fate, FALSE) /\ fate # "refuted"
    <3>1. \E fate \in {ladderFate(claims[next]), "dropped"} : record(claims[next], fate, FALSE)
      BY <1>5, Zenon DEF classifyProse, escalateUnsnapshotted
    <3>2. {ladderFate(claims[next]), "dropped"} \subseteq Fates \ {"refuted"}
      BY DEF ladderFate, Fates
    <3>3. QED
      BY <3>1, <3>2
  <2>3. rv'.rounds = rv.rounds /\ next' = next + 1 /\ \A n : Executed(n)' = Executed(n)
    BY <2>1, <2>2, ProseKeepsExecuted
  <2>4. claims' = claims /\ stage' = "classify"
    BY <1>5 DEF classifyProse, escalateUnsnapshotted
  <2>5. Tried(next)' = Tried(next + 1)
    BY <2>3, <2>4, Zenon DEF Tried, reproEligible
  <2>6. Executed(rv.rounds)' = Executed(rv.rounds)
    BY <2>3, RoundShifts
  <2>7. QED
    BY <1>2, <1>3, <1>4, <2>3, <2>4, <2>5, <2>6 DEF BudgetInv
<1>6. CASE escalate
  <2>1. UNCHANGED <<rv, claims, next>> /\ stage' = "repro" /\ reproBudget(next) > 0
    BY <1>6 DEF escalate
  <2>2. reproBudget(next) = ReproCap - Cardinality(Tried(next))
    BY Zenon DEF reproBudget, Tried
  <2>3. Tried(next)' = Tried(next) /\ Executed(rv.rounds)' = Executed(rv.rounds) /\ \A n : Executed(n)' = Executed(n)
    BY <2>1, Zenon DEF Tried, reproEligible, Executed
  <2>4. Cardinality(Tried(next)) < ReproCap
    <3>1. Cardinality(Tried(next)) \in Nat /\ reproBudget(next) > 0
      BY <1>2, <2>1
    <3>2. QED
      BY <1>1, <2>2, <3>1
  <2>5. QED
    BY <1>3, <2>1, <2>3, <2>4 DEF BudgetInv
<1>7. CASE escalateSettles
  <2>1. next \in DOMAIN claims /\ claims[next] \in Claim /\ reproEligible(claims[next]) /\ stage = "repro"
    BY <1>1, <1>7 DEF escalateSettles, Basis, ReproAt
  <2>2. PICK fate \in Fates, confirmed \in BOOLEAN : record(claims[next], fate, confirmed)
    <3> DEFINE c == claims[next]
               fate == CASE c.run = "mutates"     -> "dropped"
                         [] c.run = "unstartable" -> ladderFate(c)
                         [] c.run = "fails"       -> "open"
                         [] c.run = "passes"      ->
                              IF c.confidence < reviewBlockConfidence THEN "refuted" ELSE "advised"
    <3>1. record(c, fate, c.run = "fails")
      BY <1>7 DEF escalateSettles
    <3>2. c.run \in ReproRuns /\ c.run # "none"
      BY <2>1 DEF Claim, reproEligible
    <3>3. fate \in Fates
      BY <3>2 DEF ReproRuns, Fates, ladderFate
    <3>4. (c.run = "fails") \in BOOLEAN
      OBVIOUS
    <3> HIDE DEF fate
    <3>5. QED
      BY <3>1, <3>3, <3>4
  <2>3. /\ rv'.rounds = rv.rounds /\ next' = next + 1
        /\ \A n : n # rv.rounds => Executed(n)' = Executed(n)
        /\ Cardinality(Executed(rv.rounds)') <= Cardinality(Executed(rv.rounds)) + 1
    BY <2>1, <2>2, RecordAddsOne
  <2>4. claims' = claims /\ stage' = "classify"
    BY <1>7 DEF escalateSettles
  <2>5. Tried(next)' = Tried(next + 1)
    BY <2>3, <2>4, Zenon DEF Tried, reproEligible
  <2>6. Cardinality(Tried(next + 1)) = Cardinality(Tried(next)) + 1
    <3>1. Tried(next + 1) = Tried(next) \cup {next} /\ next \notin Tried(next)
      BY <1>1, <2>1 DEF Tried
    <3>2. QED
      BY <1>2, <3>1, FS_AddElement
  <2>7. Cardinality(Tried(next)) < ReproCap
    BY <2>1 DEF BudgetInv
  <2>8. Cardinality(Executed(rv.rounds)') <= Cardinality(Tried(next + 1)) /\ Cardinality(Executed(rv.rounds)') <= ReproCap
    <3>1. Cardinality(Executed(rv.rounds)') \in Nat
      <4>1. IsFiniteSet(Executed(rv.rounds)')
        <5>1. Cardinality(Executed(rv.rounds)) \in Nat
          BY <1>2
        <5>2. PICK m \in Nat : DOMAIN rv'.findings = 1..m
          BY <2>1, <2>2, BasisGives, RecordAppends, Zenon
        <5>3. IsFiniteSet(1..m)
          BY FS_Interval
        <5>4. Executed(rv.rounds)' \in SUBSET (1..m)
          BY <5>2 DEF Executed
        <5>5. QED
          BY <5>3, <5>4, FS_Subset
      <4>2. QED
        BY <4>1, FS_CardinalityType
    <3>2. Cardinality(Executed(rv.rounds)) \in Nat /\ Cardinality(Tried(next)) \in Nat
      BY <1>2
    <3>3. Cardinality(Executed(rv.rounds)') <= Cardinality(Executed(rv.rounds)) + 1
      BY <2>3
    <3>4. Cardinality(Executed(rv.rounds)) <= Cardinality(Tried(next))
      BY <1>3
    <3> DEFINE new == Cardinality(Executed(rv.rounds)')
               old == Cardinality(Executed(rv.rounds))
    <3> HIDE DEF new, old
    <3>5. new \in Nat /\ old \in Nat /\ new <= old + 1 /\ old <= Cardinality(Tried(next))
      BY <3>1, <3>2, <3>3, <3>4 DEF new, old
    <3>6. new <= Cardinality(Tried(next + 1)) /\ new <= ReproCap
      BY <1>1, <2>6, <2>7, <3>2, <3>5
    <3>7. QED
      BY <3>6 DEF new
  <2>9. \A n \in Nat : Cardinality(Executed(n)') <= ReproCap
    <3> TAKE n \in Nat
    <3>1. CASE n = rv.rounds
      <4>1. Executed(n)' = Executed(rv.rounds)'
        BY <2>3, <3>1, Zenon DEF Executed
      <4>2. QED
        BY <2>8, <4>1
    <3>2. CASE n # rv.rounds
      BY <1>3, <2>3, <3>2
    <3>3. QED
      BY <3>1, <3>2
  <2>10. QED
    BY <2>4, <2>5, <2>8, <2>9 DEF BudgetInv
<1>8. QED
  BY <1>5, <1>6, <1>7

(* A verdict starts the count anew: the round has no finding yet.            *)
LEMMA VerdictKeepsBudget ==
    ASSUME Basis, FindingsInv, BudgetInv, [ReviewNext]_reviewVars, reviewReturns \/ solicitReturns \/ solicitFails
    PROVE  BudgetInv'
<1>1. rv'.findings = rv.findings /\ rv'.rounds = rv.rounds
  <2>1. CASE solicitFails
    BY <2>1, BasisGives, Zenon DEF solicitFails, WellFormed, ReviewState
  <2>2. CASE reviewReturns \/ solicitReturns
    BY <2>2 DEF reviewReturns, solicitReturns
  <2>3. QED
    BY <2>1, <2>2
<1>2. next' = 1 /\ stage \in {"reviewing", "soliciting"} /\ stage' \in {"soliciting", "classify"}
  BY DEF BudgetInv, reviewReturns, solicitReturns, solicitFails
<1>3. \A n : Executed(n)' = Executed(n)
  BY <1>1, Zenon DEF Executed
<1>4. Executed(rv.rounds)' = {}
  <2>1. \A i \in DOMAIN rv.findings : rv.findings[i].round < rv.rounds
    BY <1>2, Zenon DEF FindingsInv, ThisRound
  <2>2. \A i \in DOMAIN rv.findings : rv.findings[i].round # rv.rounds
    BY <2>1, BasisGives
  <2>3. QED
    BY <1>1, <2>2 DEF Executed
<1>5. Tried(next)' = {}
  BY <1>2 DEF Tried
<1>6. Cardinality(Executed(rv.rounds)') <= Cardinality(Tried(next)')
  BY <1>4, <1>5, FS_EmptySet
<1>7. QED
  BY <1>2, <1>3, <1>6 DEF BudgetInv

(* Every other step keeps the findings' number, and leaves the ladder alone. *)
LEMMA OthersKeepBudget ==
    ASSUME Basis, FindingsInv, BudgetInv, [ReviewNext]_reviewVars, DOMAIN rv'.findings = DOMAIN rv.findings,
           \/ stage' \notin {"soliciting", "classify", "repro"}
           \/ rv'.rounds = rv.rounds /\ UNCHANGED <<stage, claims, next>>
    PROVE  BudgetInv'
<1>1. \A n : Executed(n)' = Executed(n)
  BY ExecutedKept
<1>2. CASE stage' \notin {"soliciting", "classify", "repro"}
  BY <1>1, <1>2 DEF BudgetInv
<1>3. CASE rv'.rounds = rv.rounds /\ UNCHANGED <<stage, claims, next>>
  <2>1. Tried(next)' = Tried(next)
    BY <1>3, Zenon DEF Tried, reproEligible
  <2>2. Executed(rv.rounds)' = Executed(rv.rounds)
    BY <1>1, <1>3, RoundShifts
  <2>3. QED
    BY <1>1, <1>3, <2>1, <2>2 DEF BudgetInv
<1>4. QED
  BY <1>2, <1>3

(* Every step of a review keeps the invariant on its budget.                 *)
LEMMA BudgetInductive == Basis /\ FindingsInv /\ BudgetInv /\ [ReviewNext]_reviewVars => BudgetInv'
<1> SUFFICES ASSUME Basis, FindingsInv, BudgetInv, [ReviewNext]_reviewVars PROVE BudgetInv'
  OBVIOUS
<1>1. CASE classifyProse \/ escalate \/ escalateSettles \/ escalateUnsnapshotted
  BY <1>1, LadderKeepsBudget
<1>2. CASE reviewReturns \/ solicitReturns \/ solicitFails
  BY <1>2, VerdictKeepsBudget
<1>3. CASE ~(classifyProse \/ escalate \/ escalateSettles \/ escalateUnsnapshotted
             \/ reviewReturns \/ solicitReturns \/ solicitFails)
  <2>1. DOMAIN rv'.findings = DOMAIN rv.findings
    BY <1>3, FatesMove
  <2>2. \/ stage' \notin {"soliciting", "classify", "repro"}
        \/ rv'.rounds = rv.rounds /\ UNCHANGED <<stage, claims, next>>
    <3>1. CASE solverFinishes \/ runFails \/ salvageCapture \/ captureDiffFails \/ nothingToReview \/ startRound
      BY <3>1, Zenon DEF solverFinishes, reviewFinish, runFails, reviewUnverified, salvageCapture,
                  captureDiffFails, nothingToReview, startRound, Answer
    <3>2. CASE reviewFails \/ settle
      BY <3>2, Zenon DEF reviewFails, settle, settleRecurring, settleClean, settleFeedback, settleExhausted, Answer
    <3>3. CASE solverEdits \/ cancel \/ UNCHANGED reviewVars
      BY <3>3 DEF solverEdits, cancel, reviewVars
    <3>4. CASE report
      BY <3>4 DEF report
    <3>5. QED
      BY <1>3, <3>1, <3>2, <3>3, <3>4 DEF ReviewNext, reviewStep
  <2>3. QED
    BY <2>1, <2>2, OthersKeepBudget
<1>4. QED
  BY <1>1, <1>2, <1>3

(* At most ReproCap findings of a round owe their fate to an execution,      *)
(* whatever the reviewer claims and answers.                                 *)
THEOREM ReproBudgetKept == ReviewSpec => []ReproBudgetHeld
<1>1. ReviewInit => BudgetInv
  <2> SUFFICES ASSUME ReviewInit PROVE BudgetInv
    OBVIOUS
  <2>1. rv.findings = <<>> /\ stage = "idle"
    BY RecordInit DEF ReviewInit
  <2>2. \A n : Executed(n) = {}
    BY <2>1 DEF Executed
  <2>3. \A n : Cardinality(Executed(n)) = 0
    BY <2>2, FS_EmptySet
  <2>4. QED
    BY <2>1, <2>3, RoundsAssumption DEF BudgetInv
<1>2. Basis /\ BudgetInv => ReproBudgetHeld
  <2> SUFFICES ASSUME Basis, BudgetInv, NEW n \in 1..rv.rounds PROVE Cardinality(Executed(n)) <= ReproCap
    BY Zenon DEF ReproBudgetHeld, Executed
  <2>1. n \in Nat
    BY BasisGives
  <2>2. QED
    BY <2>1 DEF BudgetInv
<1>3. QED
  BY <1>1, <1>2, BasisHolds, FindingsInvariant, BudgetInductive, PTL DEF ReviewSpec
=============================================================================
