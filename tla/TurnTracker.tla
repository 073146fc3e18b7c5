----------------------------- MODULE TurnTracker -----------------------------
(***************************************************************************)
(* The no-progress detectors and nudges both turn loops share              *)
(* (agent/tracker.go): turnTracker and spiralState as records, their        *)
(* methods as operators from an old record to a new one.                    *)
(***************************************************************************)
EXTENDS Integers, Sequences, SequencesExt

CONSTANTS
    MaxRepeats, MaxReasoningRepeats, MaxStagnant,         \* TerminationPolicy
    NavSpiralWindow, WanderMultiple, FrontierCap, GreenRepeatThreshold,
    ChurnNudgeRuns, DiagnoseAfterEdits, FinishNudgeWindow  \* trackerDeps; 0 is off

ASSUME TrackerAssumption ==
    /\ {MaxRepeats, MaxReasoningRepeats, MaxStagnant, NavSpiralWindow, WanderMultiple,
        FrontierCap, GreenRepeatThreshold} \subseteq Nat \ {0}
    /\ {ChurnNudgeRuns, DiagnoseAfterEdits, FinishNudgeWindow} \subseteq Nat

(* How a run command comes out, as isRunSuccess, isRunFailure, isInfraFault  *)
(* and runFingerprint tell it: green, red with one of two fingerprints, a    *)
(* red environment fault, or not started at all (neither green nor red).     *)
RunSaw == {"green", "red1", "red2", "infra", "error"}
isRunSuccess(out) == out = "green"
isRunFailure(out) == out \in {"red1", "red2", "infra"}
isInfraFault(out) == out = "infra"

-----------------------------------------------------------------------------
newTurnTracker ==
    [runFP |-> "none", stagnant |-> 0, lastRunFailed |-> FALSE, lastRunPassed |-> FALSE,
     failRuns |-> 0, edits |-> 0, nudged |-> FALSE, editsSinceGreen |-> 0,
     lastEditIter |-> 0, finishNudged |-> FALSE, obsFP |-> <<>>, obsRepeat |-> 0,
     greenFP |-> "none", greenRepeat |-> 0, greenNudged |-> FALSE]

observeRun_infraResets(t, out) ==
    LET failed == isRunFailure(out) /\ ~isInfraFault(out)
        passed == isRunSuccess(out)
        same   == failed /\ out = t.runFP
    IN  [t EXCEPT !.lastRunFailed = failed, !.lastRunPassed = passed,
                  !.editsSinceGreen = IF passed THEN 0 ELSE @,
                  !.failRuns = IF failed THEN @ + 1 ELSE @,
                  !.stagnant = IF ~failed THEN 0 ELSE IF same THEN @ + 1 ELSE 1,
                  !.runFP = IF ~failed THEN "none" ELSE out]

(* An environment fault is no signal: it neither counts nor resets. *)
observeRun(t, out) ==
    LET failed == isRunFailure(out)
        passed == isRunSuccess(out)
        seen   == [t EXCEPT !.lastRunFailed = failed /\ ~isInfraFault(out), !.lastRunPassed = passed,
                            !.editsSinceGreen = IF passed THEN 0 ELSE @]
    IN  IF failed /\ isInfraFault(out) THEN seen
        ELSE [seen EXCEPT
                !.failRuns    = IF failed THEN @ + 1 ELSE @,
                !.stagnant    = IF ~failed THEN 0 ELSE IF out = t.runFP THEN @ + 1 ELSE 1,
                !.runFP       = IF failed THEN out ELSE "none",
                !.greenRepeat = IF ~passed THEN 0 ELSE IF out = t.greenFP THEN @ + 1 ELSE 1,
                !.greenFP     = IF passed THEN out ELSE "none"]

(* observeRun's kill: never on an environment fault. *)
stagnantKills(t, out) == ~(isRunFailure(out) /\ isInfraFault(out)) /\ t.stagnant >= MaxStagnant

(* The call signatures and raw observations of one turn, as one fingerprint. *)
observeToolObservation(t, fp) ==
    [t EXCEPT !.obsFP = fp, !.obsRepeat = IF fp = t.obsFP THEN @ + 1 ELSE 1]

toolObsKills(t) == t.obsRepeat >= MaxReasoningRepeats

escalatingRepeatNudge(count) == count \in 3..5

mutates(verb) == verb \in {"write_file", "edit_file"}

observeAction(t, i, verb) ==
    IF mutates(verb)
    THEN [t EXCEPT !.edits = IF verb = "edit_file" THEN @ + 1 ELSE @, !.lastEditIter = i,
                  !.editsSinceGreen = @ + 1, !.greenRepeat = 0]
    ELSE t

(* The one-time hints that ride on an observation: each latches. *)
churnDue(t) == /\ ~t.nudged /\ ChurnNudgeRuns > 0
               /\ t.failRuns >= ChurnNudgeRuns \/ t.edits >= ChurnNudgeRuns

greenRepeatDue(t) == ~t.greenNudged /\ t.greenRepeat >= GreenRepeatThreshold

observationNudges(t) == [t EXCEPT !.nudged = @ \/ churnDue(t), !.greenNudged = @ \/ greenRepeatDue(t)]

diagnosticsDue(t) == DiagnoseAfterEdits > 0 /\ t.editsSinceGreen >= DiagnoseAfterEdits

(* The near-cap finisher: green, stable for the window, a turn left to act. *)
finishNudgeDue(t, i, maxIter) ==
    /\ ~t.finishNudged /\ FinishNudgeWindow > 0 /\ i < maxIter
    /\ maxIter - i <= FinishNudgeWindow /\ t.lastRunPassed
    /\ i - t.lastEditIter >= FinishNudgeWindow

repeatThreshold(advanced) == IF advanced THEN MaxReasoningRepeats ELSE MaxRepeats

-----------------------------------------------------------------------------
(* spiralState: the visited set is the range of order, the FIFO of targets. *)
newSpiralState == [order |-> <<>>, cycleRun |-> 0, wander |-> 0]

add(order, tgt) ==
    LET o == Append(order, tgt) IN IF Len(o) > FrontierCap THEN Tail(o) ELSE o

(* The targets of a turn are visited in order. *)
visit(order, tgt) == IF tgt \in ToSet(order) THEN order ELSE add(order, tgt)

visitAll(order, targets) ==
    LET upTo[i \in 0..Len(targets)] == IF i = 0 THEN order ELSE visit(upTo[i - 1], targets[i])
    IN  upTo[Len(targets)]

(* A target not seen before is orientation; only revisits count as a cycle. *)
observeDiscoveryTurn(s, targets) ==
    LET novel == ~(ToSet(targets) \subseteq ToSet(s.order))
    IN  [order    |-> visitAll(s.order, targets),
         cycleRun |-> IF novel THEN 0 ELSE s.cycleRun + 1,
         wander   |-> s.wander + 1]

spiralKill(s) == IF s.cycleRun >= NavSpiralWindow THEN "spiral_cycle"
                 ELSE IF s.wander >= WanderMultiple * NavSpiralWindow THEN "spiral_wander"
                 ELSE "none"

-----------------------------------------------------------------------------
TrackerState ==
    [runFP : RunSaw \cup {"none"}, stagnant : Nat, lastRunFailed : BOOLEAN, lastRunPassed : BOOLEAN,
     failRuns : Nat, edits : Nat, nudged : BOOLEAN, editsSinceGreen : Nat, lastEditIter : Nat,
     finishNudged : BOOLEAN, obsFP : Seq(Seq(STRING)), obsRepeat : Nat,
     greenFP : RunSaw \cup {"none"}, greenRepeat : Nat, greenNudged : BOOLEAN]
=============================================================================
