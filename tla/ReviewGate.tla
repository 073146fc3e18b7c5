------------------------------ MODULE ReviewGate ------------------------------
(***************************************************************************)
(* Stage 2 of the closing gates of package agent: the model reviewer       *)
(* (agent/review.go and the review half of agent/gate.go).                 *)
(*                                                                         *)
(* reviewFinish is called once per accepted done-signal.  It captures the  *)
(* solver's diff, calls the injected reviewer, optionally solicits repro   *)
(* commands, runs the deterministic ladder (classify / escalate) over the  *)
(* claims, and answers pass, feedback (one more repair round) or block.    *)
(* Every external call is a step of its own, because the user's cancel is  *)
(* propagated into the gate by gateContext and may arrive between any two. *)
(***************************************************************************)
EXTENDS Integers, Sequences, FiniteSets

CONSTANTS
    Trees,         \* git tree objects the workspace can be in
    BaseTree,      \* the tree captured at run start (reviewState.baseTree)
    Claims,        \* the reviewer claims considered (a subset of Claim)
    Quotes,        \* File+Quote identities of claims
    MaxClaims,     \* bound: claims per verdict
    MaxRounds,     \* Policy.ReviewRounds
    ReproCap,      \* reviewReproCap (2 in the code)
    IOMayFail,     \* may git and file walks fail on their own, without a cancel?
    Policies       \* resolved policies a run may have been given

reviewBlockConfidence  == 8
reviewAdviseConfidence == 5
solicitConfidence      == 7

ReviewPolicy == {"default", "required", "failOpen", "optional",
                 "requiredOptional", "failOpenOptional"}

(* What executing a claim's repro command does; "none": no command.  A repro *)
(* killed by its timeout prints a failure and so counts as "fails".          *)
ReproRuns == {"none", "fails", "passes", "mutates", "unstartable"}

Claim == [quote : Quotes, grounded : BOOLEAN, blocker : BOOLEAN,
          confidence : 0..10, run : ReproRuns]

ASSUME TreesAssumption  == BaseTree \in Trees
ASSUME RoundsAssumption == MaxRounds \in Nat \ {0} /\ ReproCap \in Nat /\ MaxClaims \in Nat
ASSUME IOAssumption == IOMayFail \in BOOLEAN
ASSUME ClaimsAssumption == Claims \subseteq Claim
ASSUME PoliciesAssumption ==
    \A p \in Policies : p.review \in ReviewPolicy /\ p.solicits \in BOOLEAN /\ p.reviewUnverified \in BOOLEAN

Infrastructure == {"unavailable", "parse_error", "timeout"}
Status == {"none", "clean", "blocked", "advisory", "canceled"} \cup Infrastructure  \* "none" for ""
Fates  == {"open", "repaired", "refuted", "expired", "advised", "note", "dropped"}     \* "open" for ""
Stages == {"idle", "salvaging", "capturing", "reviewing", "soliciting", "classify", "repro"}

Finding == [quote : Quotes, round : Nat, fate : Fates, confirmed : BOOLEAN]

ReviewState == [armed : BOOLEAN, skip : BOOLEAN, rounds : Nat, status : Status, blocked : BOOLEAN,
                salvage : BOOLEAN, findings : Seq(Finding), pending : SUBSET Nat,
                reported : BOOLEAN]

VARIABLES
    pol,        \* the run's resolved policy (immutable)
    tree,       \* the workspace, as a git tree
    canceled,   \* the caller's context was canceled (never un-canceled)
    rv,         \* reviewState; armed: baseTree # ""; reported: report() was rendered
    stage,      \* where reviewFinish is: "idle" outside a call
    claims,     \* the verdict being processed
    next,       \* index of the next claim to classify
    askTree,    \* the tree reviewFinish was asked about
    preTree,    \* escalate's snapshot before the repro command
    canContinue,\* reviewFinish's argument
    decision,   \* reviewFinish's answer: "none" before the first and while one runs
    verdicts,   \* history: <<round, tree>> for which the reviewer returned a verdict
    damaged     \* history: a repro's damage outlived escalate

reviewVars == <<pol, tree, canceled, rv, stage, claims, next, askTree, preTree,
                canContinue, decision, verdicts, damaged>>

-----------------------------------------------------------------------------
(* newReviewState: a workspace without a usable git baseline is a setup     *)
(* error unless the policy is one of the optional ones.                     *)
newReviewState ==
    LET armed   == [armed |-> TRUE, skip |-> FALSE, rounds |-> 0, status |-> "none", blocked |-> FALSE,
                    salvage |-> FALSE, findings |-> <<>>, pending |-> {}, reported |-> FALSE]
        unarmed == [armed EXCEPT !.armed = FALSE, !.skip = TRUE, !.status = "unavailable"]
    IN  {armed} \cup
        IF pol.review \in {"optional", "requiredOptional", "failOpenOptional"}
        THEN {unarmed} ELSE {}

(* The reviewer is injected in every behaviour of this module. *)
effectiveReviewRequired == pol.review \notin {"failOpen", "failOpenOptional"}

resolvePending_all(r, fate) ==
    [r EXCEPT !.findings = [i \in DOMAIN r.findings |-> [r.findings[i] EXCEPT !.fate = fate]],
              !.pending = {}]

(* Every pending blocker gets the fate; none stays pending. *)
resolvePending(r, fate) ==
    [r EXCEPT !.findings = [i \in DOMAIN r.findings |->
                 IF i \in r.pending /\ r.findings[i].fate = "open"
                 THEN [r.findings[i] EXCEPT !.fate = fate] ELSE r.findings[i]],
              !.pending = {}]

setReviewSemanticStatus(r, status) ==
    IF r.status \in Infrastructure THEN r ELSE [r EXCEPT !.status = status]

failOpen(r, status) ==
    [r EXCEPT !.status = status, !.skip = r.skip \/ r.findings = <<>>]

requiredDecision_open(r) == "pass"

(* reviewRequiredBlockReason: a required review whose infrastructure failed *)
(* blocks the finish.                                                       *)
requiredDecision(r) ==
    IF effectiveReviewRequired /\ r.status \in Infrastructure THEN "block" ELSE "pass"

(* The error class of a failed call: a canceled context wins. *)
classifyReviewErr(status) == IF canceled THEN "canceled" ELSE status

(* reviewFinish returns; the verdict of a salvage round is discarded. *)
Answer(r, d) == /\ rv' = r
                /\ decision' = IF r.salvage THEN "unverified" ELSE d
                /\ stage' = "idle"
                /\ claims' = <<>> /\ next' = 1

-----------------------------------------------------------------------------
(* Entry of reviewFinish: a gate already off and a user cancel answer at once. *)
reviewFinish(cont) ==
    /\ stage = "idle"
    /\ canContinue' = cont
    /\ askTree' = tree
    /\ \/ /\ rv.skip
          /\ Answer(rv, IF effectiveReviewRequired THEN "block" ELSE "pass")
       \/ /\ ~rv.skip /\ canceled
          /\ Answer([rv EXCEPT !.status = "canceled"], "pass")
       \/ /\ ~rv.skip /\ ~canceled
          /\ stage' = "capturing" /\ decision' = "none"
          /\ UNCHANGED <<rv, claims, next>>
    /\ UNCHANGED <<pol, tree, canceled, preTree, verdicts, damaged>>

(* reviewUnverified: one advisory round for a run that already failed. *)
salvageable == /\ pol.reviewUnverified /\ ~canceled
               /\ ~rv.skip /\ rv.rounds = 0 /\ rv.findings = <<>>

reviewUnverified ==
    /\ stage = "idle" /\ salvageable
    /\ canContinue' = FALSE
    /\ askTree' = tree
    /\ stage' = "salvaging"
    /\ decision' = "unverified"
    /\ UNCHANGED <<pol, tree, canceled, rv, claims, next, preTree, verdicts, damaged>>

(* Its own captureDiff: failed, empty, or handed on to reviewFinish. *)
salvageCapture ==
    /\ stage = "salvaging"
    /\ \/ /\ IOMayFail \/ canceled
          /\ rv' = IF rv.status = "none" THEN [rv EXCEPT !.skip = TRUE, !.status = "unavailable"] ELSE rv
          /\ stage' = "idle" /\ UNCHANGED <<decision, claims, next>>
       \/ /\ tree = BaseTree
          /\ rv' = IF rv.status = "none" THEN [rv EXCEPT !.skip = TRUE] ELSE rv
          /\ stage' = "idle" /\ UNCHANGED <<decision, claims, next>>
       \/ /\ tree # BaseTree /\ canceled
          /\ Answer([rv EXCEPT !.salvage = TRUE, !.status = "canceled"], "pass")
       \/ /\ tree # BaseTree /\ ~canceled
          /\ rv' = [rv EXCEPT !.salvage = TRUE]
          /\ stage' = "capturing" /\ UNCHANGED <<decision, claims, next>>
    /\ UNCHANGED <<pol, tree, canceled, askTree, preTree, canContinue, verdicts, damaged>>

captureDiffFails ==
    /\ stage = "capturing" /\ (IOMayFail \/ canceled)
    /\ \E s \in {"unavailable", "timeout"} :
          LET r == failOpen(rv, classifyReviewErr(s)) IN Answer(r, requiredDecision(r))
    /\ UNCHANGED <<pol, tree, canceled, askTree, preTree, canContinue, verdicts, damaged>>

nothingToReview ==
    /\ stage = "capturing" /\ tree = BaseTree
    /\ Answer(setReviewSemanticStatus(rv, "clean"), "pass")
    /\ UNCHANGED <<pol, tree, canceled, askTree, preTree, canContinue, verdicts, damaged>>

startRound ==
    /\ stage = "capturing" /\ tree # BaseTree
    /\ rv' = [resolvePending(rv, "repaired") EXCEPT !.rounds = rv.rounds + 1]
    /\ stage' = "reviewing"
    /\ UNCHANGED <<pol, tree, canceled, claims, next, askTree, preTree, canContinue,
                   decision, verdicts, damaged>>

-----------------------------------------------------------------------------
(* Reviewer.Review returns: an error (fail-open or required-block), ... *)
reviewFails ==
    /\ stage = "reviewing"
    /\ \E s \in Infrastructure :
          LET r == failOpen(rv, classifyReviewErr(s)) IN Answer(r, requiredDecision(r))
    /\ UNCHANGED <<pol, tree, canceled, askTree, preTree, canContinue, verdicts, damaged>>

(* ... or a verdict; eligible blockers without a repro are sent back first. *)
solicitable(c) == c.blocker /\ c.confidence >= solicitConfidence /\ c.run = "none"

reviewReturns ==
    /\ stage = "reviewing"
    /\ \E n \in 0..MaxClaims : \E v \in [1..n -> Claims] :
          /\ claims' = v
          /\ stage' = IF pol.solicits /\ \E k \in 1..n : solicitable(v[k])
                      THEN "soliciting" ELSE "classify"
    /\ next' = 1
    /\ verdicts' = verdicts \cup {<<rv.rounds, tree>>}
    /\ UNCHANGED <<pol, tree, canceled, rv, askTree, preTree, canContinue, decision, damaged>>

(* SolicitRepro answers are merged by File+Quote, so a claim sharing the    *)
(* quote of an eligible one receives the command too.                       *)
solicitReturns ==
    /\ stage = "soliciting"
    /\ \E given \in [{claims[k].quote : k \in {j \in DOMAIN claims : solicitable(claims[j])}}
                     -> ReproRuns] :
          claims' = [k \in DOMAIN claims |->
                       IF claims[k].quote \in DOMAIN given /\ given[claims[k].quote] # "none"
                       THEN [claims[k] EXCEPT !.run = given[claims[k].quote]]
                       ELSE claims[k]]
    /\ stage' = "classify"
    /\ UNCHANGED <<pol, tree, canceled, rv, next, askTree, preTree, canContinue,
                   decision, verdicts, damaged>>

solicitFails ==
    /\ stage = "soliciting"
    /\ \E s \in Infrastructure :
          rv' = IF classifyReviewErr(s) = "canceled" THEN rv ELSE [rv EXCEPT !.status = s]
    /\ stage' = "classify"
    /\ UNCHANGED <<pol, tree, canceled, claims, next, askTree, preTree, canContinue,
                   decision, verdicts, damaged>>

-----------------------------------------------------------------------------
(* classify: the deterministic ladder, one claim per step. *)
reproEligible(c) == c.grounded /\ c.blocker /\ c.run # "none"

reproBudget_plus1(k) == 1 + ReproCap - Cardinality({j \in 1..(k - 1) : reproEligible(claims[j])})

(* *reproBudget when the ladder reaches claim k of the round. *)
reproBudget(k) == ReproCap - Cardinality({j \in 1..(k - 1) : reproEligible(claims[j])})

(* The fate prose alone earns; "open" is blocking. *)
ladderFate(c) ==
    IF ~c.grounded THEN "dropped"
    ELSE IF ~c.blocker \/ c.confidence < reviewAdviseConfidence THEN "note"
    ELSE IF c.confidence < reviewBlockConfidence THEN "advised" ELSE "open"

record_nextIndex(c, fate, confirmed) ==
    /\ rv' = [rv EXCEPT !.findings = Append(rv.findings,
                            [quote |-> c.quote, round |-> rv.rounds,
                             fate |-> fate, confirmed |-> confirmed]),
                        !.pending = IF fate = "open" THEN rv.pending \cup {Len(rv.findings) + 2}
                                                 ELSE rv.pending]
    /\ next' = next + 1

(* The findings append, the pending index and the loop's next claim. *)
record(c, fate, confirmed) ==
    /\ rv' = [rv EXCEPT !.findings = Append(rv.findings,
                            [quote |-> c.quote, round |-> rv.rounds,
                             fate |-> fate, confirmed |-> confirmed]),
                        !.pending = IF fate = "open" THEN rv.pending \cup {Len(rv.findings) + 1}
                                                 ELSE rv.pending]
    /\ next' = next + 1

(* No execution: nothing to run, no budget, or no snapshot to bracket it.    *)
(* Once canceled, a sandbox that honours the context cannot read the quoted  *)
(* file either, and the claim is dropped as unreadable.                      *)
classifyProse ==
    /\ stage = "classify" /\ next \in DOMAIN claims
    /\ ~reproEligible(claims[next]) \/ reproBudget(next) <= 0 \/ canceled \/ IOMayFail
    /\ \E fate \in {ladderFate(claims[next])} \cup (IF canceled THEN {"dropped"} ELSE {}) :
          record(claims[next], fate, FALSE)
    /\ UNCHANGED <<pol, tree, canceled, stage, claims, askTree, preTree, canContinue,
                   decision, verdicts, damaged>>

(* escalate: snapshot, then the repro command runs. *)
escalate ==
    /\ stage = "classify" /\ next \in DOMAIN claims
    /\ reproEligible(claims[next]) /\ reproBudget(next) > 0 /\ ~canceled
    /\ preTree' = tree
    /\ tree' \in IF claims[next].run = "mutates" THEN Trees \ {tree} ELSE {tree}
    /\ stage' = "repro"
    /\ UNCHANGED <<pol, canceled, rv, claims, next, askTree, canContinue, decision, verdicts, damaged>>

escalateSettles_noRestore ==
    /\ stage = "repro" /\ ~canceled
    /\ record(claims[next], IF claims[next].run = "fails" THEN "open" ELSE "dropped", claims[next].run = "fails")
    /\ stage' = "classify"
    /\ UNCHANGED <<pol, tree, canceled, claims, askTree, preTree, canContinue, decision, verdicts, damaged>>

(* The command ended and the second snapshot worked: a mutating repro is    *)
(* rejected and RestoreTree undoes it, the others settle the claim.         *)
escalateSettles ==
    /\ stage = "repro" /\ ~canceled
    /\ LET c == claims[next] IN
       /\ record(c, CASE c.run = "mutates"     -> "dropped"
                      [] c.run = "unstartable" -> ladderFate(c)
                      [] c.run = "fails"       -> "open"
                      [] c.run = "passes"      ->
                           IF c.confidence < reviewBlockConfidence THEN "refuted" ELSE "advised",
                 c.run = "fails")
       /\ \/ tree' = preTree /\ UNCHANGED damaged
          \/ /\ IOMayFail /\ c.run = "mutates"
             /\ UNCHANGED tree /\ damaged' = TRUE
    /\ stage' = "classify"
    /\ UNCHANGED <<pol, canceled, claims, askTree, preTree, canContinue, decision, verdicts>>

(* The second snapshot failed, as it does when the cancel arrived while the  *)
(* command ran: the claim is dropped as "unsnapshottable", and the restore   *)
(* runs under the same context, whether or not the command changed files.    *)
escalateUnsnapshotted ==
    /\ stage = "repro" /\ (canceled \/ IOMayFail)
    /\ record(claims[next], "dropped", FALSE)
    /\ tree' \in {tree, preTree}
    /\ damaged' = (damaged \/ tree' # preTree)
    /\ stage' = "classify"
    /\ UNCHANGED <<pol, canceled, claims, askTree, preTree, canContinue, decision, verdicts>>

-----------------------------------------------------------------------------
(* findRecurringConfirmedBlocker: a confirmed blocker of this round that an *)
(* earlier round confirmed too, with the earlier finding.                   *)
recurring(r) ==
    {p \in r.pending \X DOMAIN r.findings :
        /\ r.findings[p[1]].confirmed
        /\ r.findings[p[2]].confirmed
        /\ r.findings[p[2]].round < r.rounds
        /\ r.findings[p[2]].quote = r.findings[p[1]].quote}

(* The earlier finding of the first recurring pair in slice order. *)
recurringEarlier(r) ==
    LET p == CHOOSE q \in recurring(r) : \A o \in recurring(r) :
                 q[1] < o[1] \/ (q[1] = o[1] /\ q[2] <= o[2])
    IN p[2]

advisories(r) == {i \in DOMAIN r.findings : r.findings[i].round = r.rounds /\ r.findings[i].fate = "advised"}

blockRound(r) == [resolvePending(r, "expired") EXCEPT !.status = "blocked", !.blocked = TRUE]

(* All claims classified: the round's answer. *)
settleRecurring ==
    /\ recurring(rv) # {}
    /\ Answer(blockRound([rv EXCEPT !.findings[recurringEarlier(rv)].fate = "expired"]), "block")

settleClean_noAdvice ==
    /\ recurring(rv) = {} /\ advisories(rv) = {}
    /\ LET r == setReviewSemanticStatus(rv, "clean") IN Answer(r, requiredDecision(r))

settleClean ==
    /\ recurring(rv) = {} /\ rv.pending = {} /\ advisories(rv) = {}
    /\ LET r == setReviewSemanticStatus(rv, "clean") IN Answer(r, requiredDecision(r))

settleFeedback_offByOne ==
    /\ recurring(rv) = {} /\ (rv.pending # {} \/ advisories(rv) # {})
    /\ canContinue /\ rv.rounds <= MaxRounds
    /\ Answer(setReviewSemanticStatus(rv, "blocked"), "feedback")

settleFeedback ==
    /\ recurring(rv) = {} /\ (rv.pending # {} \/ advisories(rv) # {})
    /\ canContinue /\ rv.rounds < MaxRounds
    /\ Answer(setReviewSemanticStatus(rv, IF rv.pending = {} THEN "advisory" ELSE "blocked"),
              "feedback")

settleExhausted ==
    /\ recurring(rv) = {} /\ (rv.pending # {} \/ advisories(rv) # {})
    /\ ~(canContinue /\ rv.rounds < MaxRounds)
    /\ IF rv.pending = {}
       THEN LET r == setReviewSemanticStatus(rv, "advisory") IN Answer(r, requiredDecision(r))
       ELSE Answer(blockRound(rv), "block")

settle ==
    /\ stage = "classify" /\ next \notin DOMAIN claims
    /\ settleRecurring \/ settleClean \/ settleFeedback \/ settleExhausted
    /\ UNCHANGED <<pol, tree, canceled, askTree, preTree, canContinue, verdicts, damaged>>

(* Every step reviewFinish takes by itself once it has been called. *)
reviewStep == \/ salvageCapture \/ captureDiffFails \/ nothingToReview \/ startRound
              \/ reviewFails \/ reviewReturns
              \/ solicitReturns \/ solicitFails
              \/ classifyProse \/ escalate \/ escalateSettles \/ escalateUnsnapshotted
              \/ settle

(* The caller's cancel may arrive at any moment. *)
cancel == /\ ~canceled
          /\ canceled' = TRUE
          /\ UNCHANGED <<pol, tree, rv, stage, claims, next, askTree, preTree, canContinue,
                         decision, verdicts, damaged>>

ReviewInit ==
    /\ pol \in Policies
    /\ tree = BaseTree /\ askTree = BaseTree /\ preTree = BaseTree
    /\ canceled = FALSE /\ canContinue = FALSE /\ damaged = FALSE
    /\ rv \in newReviewState
    /\ stage = "idle" /\ decision = "none"
    /\ claims = <<>> /\ next = 1 /\ verdicts = {}

-----------------------------------------------------------------------------
(* The gate on its own: a solver that edits and claims to be done, and a    *)
(* run that may end (report) whenever no review is in flight.               *)
awaitingSolver == stage = "idle" /\ decision \in {"none", "feedback"} /\ ~rv.reported

solverEdits ==
    /\ awaitingSolver
    /\ tree' \in Trees
    /\ UNCHANGED <<pol, canceled, rv, stage, claims, next, askTree, preTree, canContinue,
                   decision, verdicts, damaged>>

solverFinishes == awaitingSolver /\ \E cont \in BOOLEAN : reviewFinish(cont)

(* A run that ends Unverified for another reason: salvage round, if any. *)
runFails == awaitingSolver /\ reviewUnverified

(* reviewState.report: the terminal record; pending blockers expire. *)
report ==
    /\ stage = "idle" /\ ~rv.reported
    /\ rv' = [resolvePending(rv, "expired") EXCEPT !.reported = TRUE]
    /\ UNCHANGED <<pol, tree, canceled, stage, claims, next, askTree, preTree, canContinue,
                   decision, verdicts, damaged>>

ReviewNext == solverEdits \/ solverFinishes \/ runFails \/ reviewStep \/ report \/ cancel

ReviewSpec == ReviewInit /\ [][ReviewNext]_reviewVars

-----------------------------------------------------------------------------
(* Types, and that reviewState.pending only ever indexes recorded findings. *)
ReviewTypeOK ==
    /\ pol \in Policies
    /\ tree \in Trees /\ askTree \in Trees /\ preTree \in Trees
    /\ canceled \in BOOLEAN /\ canContinue \in BOOLEAN /\ damaged \in BOOLEAN
    /\ rv \in ReviewState
    /\ rv.pending \subseteq DOMAIN rv.findings
    /\ stage \in Stages
    /\ claims \in Seq(Claim) /\ next \in Nat \ {0}
    /\ decision \in {"none", "pass", "feedback", "block", "unverified"}
    /\ verdicts \subseteq Nat \X Trees

(* Policy.ReviewRounds bounds the repair loop of reviewFinish: no sequence  *)
(* of feedback, edits and finishes reaches one reviewer call more.          *)
RoundsBounded == rv.rounds <= MaxRounds

(* A required review (effectiveReviewRequired) that lets a finish pass with *)
(* a non-empty diff has a reviewer verdict, in its last round, on exactly   *)
(* the tree being delivered; only a caller cancel or a repro's unrestored   *)
(* damage can break the link.                                               *)
RequiredMeansReviewed ==
    (/\ decision = "pass" /\ effectiveReviewRequired
     /\ rv.status # "canceled" /\ askTree # BaseTree /\ ~damaged)
    => <<rv.rounds, tree>> \in verdicts

(* A finish that passes after a round that ran (no infrastructure failure,  *)
(* no cancel) leaves no blocker of that round standing.                     *)
BlockerNeverPasses ==
    (decision = "pass" /\ rv.status \notin Infrastructure \cup {"canceled"} /\ askTree # BaseTree)
    => \A i \in DOMAIN rv.findings :
          rv.findings[i].round = rv.rounds => rv.findings[i].fate \notin {"open", "expired"}

(* The early stop: a File+Quote confirmed by execution in two rounds blocks. *)
RecurrenceStops ==
    (/\ stage = "idle"
     /\ \E i, j \in DOMAIN rv.findings :
          /\ rv.findings[i].confirmed /\ rv.findings[j].confirmed
          /\ rv.findings[i].quote = rv.findings[j].quote
          /\ rv.findings[i].round # rv.findings[j].round)
    => rv.blocked

(* A block for findings names an expired blocker, and no finding is fateless. *)
BlockIsExplained ==
    rv.blocked => /\ rv.status = "blocked"
                  /\ \E i \in DOMAIN rv.findings : rv.findings[i].fate = "expired"
                  /\ \A i \in DOMAIN rv.findings : rv.findings[i].fate # "open"

(* Under every policy the answer of reviewFinish agrees with the findings   *)
(* it reports: it passes only when no blocker of the round stands, whatever *)
(* the repair rounds before it did; it blocks once the same defect was      *)
(* confirmed in two rounds; and a block is one the report can explain.      *)
VerdictIsExplained == BlockerNeverPasses /\ RecurrenceStops /\ BlockIsExplained

(* The calibration telemetry: a finding, once recorded, never disappears    *)
(* and its fate is final, except that a pending one is resolved and a       *)
(* "repaired" is corrected to "expired" when the same defect blocks again.  *)
FatesAreFinal ==
    [][\A i \in DOMAIN rv.findings :
          LET old == rv.findings[i]  new == rv'.findings[i]
          IN  /\ i \in DOMAIN rv'.findings
              /\ [new EXCEPT !.fate = old.fate] = old
              /\ \/ new.fate = old.fate
                 \/ old.fate = "open" /\ new.fate \in {"repaired", "expired"}
                 \/ old.fate = "repaired" /\ new.fate = "expired" /\ rv'.blocked]_rv

(* escalate executes at most reviewReproCap repro commands per round, so at *)
(* most that many findings of a round owe their fate to an execution.       *)
ReproBudgetHeld ==
    \A n \in 1..rv.rounds :
        Cardinality({i \in DOMAIN rv.findings : /\ rv.findings[i].round = n
                        /\ (rv.findings[i].confirmed \/ rv.findings[i].fate = "refuted")})
        <= ReproCap

(* reviewFinish hands the workspace back as it was asked about it: repro    *)
(* damage is undone before the next claim, unless a restore failed.         *)
WorkspacePreserved ==
    (stage \notin {"idle", "repro"} \/ decision \in {"pass", "block"}) /\ ~damaged
    => tree = askTree

-----------------------------------------------------------------------------
(* What the repository says and the code does not do. *)

(* "A repro that mutates the workspace is rejected and its damage restored" *)
(* (classify): whatever arrives while it runs.                              *)
DamageIsRestored == ~damaged
=============================================================================
