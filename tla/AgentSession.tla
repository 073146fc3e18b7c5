----------------------------- MODULE AgentSession -----------------------------
(***************************************************************************)
(* The continuing session of package agent (session.go, session_config.go, *)
(* and the auto-verify resolution of loop_shared.go): one driving goroutine *)
(* that sends turns and changes the verify command between them, and the    *)
(* background goroutine of PrewarmAutoVerify, which probes the derived test *)
(* suite while turns may already be editing the workspace.                  *)
(***************************************************************************)
EXTENDS Naturals

CONSTANTS
    Trees,      \* workspace states
    Pristine,   \* the workspace when the session starts
    Green,      \* trees on which the verify command passes
    MaxSends    \* bound: turns of one session

ASSUME SessionAssumption ==
    /\ Pristine \in Trees /\ Green \subseteq Trees
    /\ MaxSends \in Nat

VerifyState == [cmd : {"none", "user", "auto"}, soft : BOOLEAN, cont : BOOLEAN,
                skip : BOOLEAN, resolved : BOOLEAN]
Resolutions == {"none", "underived", "disarmed", "armed"}
Probe == [started : BOOLEAN, done : BOOLEAN, applied : BOOLEAN, resolution : Resolutions]

VARIABLES
    vs,       \* Session.vs, the persisted verification state
    turnVS,   \* the running turn's copy
    probe,    \* Session.autoVerifyProbe
    turn,     \* "idle", or "running": a Send is in flight
    sends,    \* turns sent so far
    tree,     \* the workspace
    runBase,  \* the turn's runBaseTree
    user,     \* history: the last /verify: "unset", "user" or "none" (off)
    accepted  \* history: how the last turn's finish gate passed, or "none"

sessionVars == <<vs, turnVS, probe, turn, sends, tree, runBase, user, accepted>>

SessionInit ==
    /\ vs = [cmd |-> "none", soft |-> FALSE, cont |-> FALSE, skip |-> FALSE, resolved |-> FALSE]
    /\ turnVS = vs
    /\ probe = [started |-> FALSE, done |-> FALSE, applied |-> FALSE, resolution |-> "none"]
    /\ turn = "idle" /\ sends = 0
    /\ tree = Pristine /\ runBase = Pristine
    /\ user = "unset" /\ accepted = "none"

-----------------------------------------------------------------------------
(* probeAutoVerify: nothing to derive, or the derived suite ran on the tree *)
(* as it is; a suite that times out or cannot start disarms like a red one. *)
probeAutoVerify == {"underived", "disarmed"} \cup (IF tree \in Green THEN {"armed"} ELSE {})

applyAutoVerifyResolution(v, res) ==
    CASE res = "underived" -> [v EXCEPT !.resolved = TRUE]
      [] res = "disarmed"  -> [v EXCEPT !.resolved = TRUE, !.skip = TRUE]
      [] res = "armed"     -> [v EXCEPT !.resolved = TRUE, !.skip = TRUE, !.cmd = "auto",
                                        !.soft = TRUE, !.cont = TRUE]

resolveAutoVerify_again(v) ==
    IF v.cmd # "none" THEN {v}
    ELSE {applyAutoVerifyResolution(v, res) : res \in probeAutoVerify}

(* The lazy path inside the loop: one decision per session. *)
resolveAutoVerify(v) ==
    IF v.cmd # "none" \/ v.resolved THEN {v}
    ELSE {applyAutoVerifyResolution(v, res) : res \in probeAutoVerify}

PrewarmAutoVerify ==
    /\ turn = "idle" /\ vs.cmd = "none" /\ ~probe.started
    /\ probe' = [probe EXCEPT !.started = TRUE]
    /\ UNCHANGED <<vs, turnVS, turn, sends, tree, runBase, user, accepted>>

probeDone_beforeResult ==
    /\ probe.started /\ ~probe.done
    /\ probe' = [probe EXCEPT !.done = TRUE]
    /\ UNCHANGED <<vs, turnVS, turn, sends, tree, runBase, user, accepted>>

(* The background goroutine publishes its result, during a turn or not. *)
probeDone ==
    /\ probe.started /\ ~probe.done
    /\ \E res \in probeAutoVerify :
          probe' = [probe EXCEPT !.done = TRUE, !.resolution = res]
    /\ UNCHANGED <<vs, turnVS, turn, sends, tree, runBase, user, accepted>>

SetVerifyCmd_offForgotten(cmd) ==
    /\ turn = "idle"
    /\ vs' = [vs EXCEPT !.cmd = cmd, !.soft = FALSE]
    /\ user' = cmd
    /\ UNCHANGED <<turnVS, probe, turn, sends, tree, runBase, accepted>>

(* /verify: cmd = "none" switches the gate off for good. *)
SetVerifyCmd(cmd) ==
    /\ turn = "idle"
    /\ vs' = [vs EXCEPT !.cmd = cmd, !.soft = FALSE, !.resolved = vs.resolved \/ cmd = "none"]
    /\ user' = cmd
    /\ UNCHANGED <<turnVS, probe, turn, sends, tree, runBase, accepted>>

-----------------------------------------------------------------------------
(* SendParts up to the loop's first model call: a finished probe is applied *)
(* once to the session and to the turn, an unfinished one suppresses the    *)
(* turn's own preflight, and otherwise the loop resolves for itself.        *)
SendParts ==
    /\ turn = "idle" /\ sends < MaxSends
    /\ LET applies == probe.started /\ probe.done /\ ~probe.applied
           waiting == probe.started /\ ~probe.done
           s == IF applies THEN applyAutoVerifyResolution(vs, probe.resolution) ELSE vs
           t == IF waiting THEN [s EXCEPT !.resolved = TRUE] ELSE s
       IN /\ vs' = s
          /\ probe' = [probe EXCEPT !.applied = probe.applied \/ applies]
          /\ turnVS' \in resolveAutoVerify(t)
    /\ turn' = "running" /\ sends' = sends + 1
    /\ runBase' = tree /\ accepted' = "none"
    /\ UNCHANGED <<tree, user>>

loopEdits ==
    /\ turn = "running"
    /\ tree' \in Trees
    /\ UNCHANGED <<vs, turnVS, probe, turn, sends, runBase, user, accepted>>

persistAutoVerify_losesSoft ==
    IF ~turnVS.resolved \/ turnVS.cmd = "none" THEN [vs EXCEPT !.resolved = vs.resolved \/ turnVS.resolved]
    ELSE [vs EXCEPT !.resolved = TRUE, !.cmd = turnVS.cmd]

(* persistAutoVerify, on whatever result the loop returned. *)
persistAutoVerify ==
    IF ~turnVS.resolved THEN vs
    ELSE IF turnVS.cmd = "none" THEN [vs EXCEPT !.resolved = TRUE]
    ELSE turnVS

(* The closing gate as far as the session sees it: the unchanged tree under *)
(* a soft gate is accepted unrun; a soft gate ends up accepting a red tree. *)
gateAnswers ==
    IF turnVS.cmd = "none" THEN {"ungated"}
    ELSE IF turnVS.soft /\ tree = runBase THEN {"skipped"}
    ELSE IF tree \in Green THEN {"passed"}
    ELSE IF turnVS.soft THEN {"softAccepted", "rejected"} ELSE {"rejected"}

(* The turn ends: an answer (or a rejected one), a kill, error or cancel    *)
(* before any gate was asked, or a setup error (newGates) on the untouched  *)
(* tree, which returns no result and so persists nothing.                   *)
turnReturns ==
    /\ turn = "running"
    /\ turn' = "idle"
    /\ \/ accepted' \in gateAnswers \cup {"stopped"} /\ vs' = persistAutoVerify
       \/ tree = runBase /\ accepted' = "refused" /\ vs' = vs
    /\ UNCHANGED <<turnVS, probe, sends, tree, runBase, user>>

SessionNext ==
    \/ PrewarmAutoVerify \/ probeDone
    \/ \E cmd \in {"user", "none"} : SetVerifyCmd(cmd)
    \/ SendParts \/ loopEdits \/ turnReturns

SessionSpec == SessionInit /\ [][SessionNext]_sessionVars

-----------------------------------------------------------------------------
(* Types, and the order of the prewarm slot's flags. *)
SessionTypeOK ==
    /\ vs \in VerifyState /\ turnVS \in VerifyState
    /\ probe \in Probe /\ (probe.applied => probe.done) /\ (probe.done => probe.started)
    /\ probe.done <=> probe.resolution # "none"
    /\ turn \in {"idle", "running"} /\ sends \in 0..MaxSends
    /\ tree \in Trees /\ runBase \in Trees
    /\ user \in {"unset", "user", "none"}
    /\ accepted \in {"none", "ungated", "skipped", "passed", "softAccepted", "rejected", "stopped", "refused"}

(* Across every hand-off between session, probe and turn, the derived       *)
(* command is soft and nothing else is: a user's /verify is never downgraded *)
(* to a gate that accepts a red tree, a derived one never becomes hard.      *)
DerivedIsSoft == \A v \in {vs, turnVS} : v.soft <=> v.cmd = "auto"

(* "This session has made its one auto-verify decision" (resolveAutoVerify): *)
(* once resolved, with no prewarm outstanding, no turn changes the command,  *)
(* whatever state its edits left the tree in.                                *)
DecisionIsFinal ==
    [][vs.resolved /\ (probe.started => probe.applied) /\ turn' # turn => vs'.cmd = vs.cmd]_sessionVars

(* The user's last /verify is the session's command and the command of every *)
(* turn sent after it.                                                       *)
UserGoverns == user # "unset" => /\ vs.cmd = user
                                 /\ turn = "running" => turnVS.cmd = user

(* In a session that was never prewarmed the user's last word stands through *)
(* any number of turns: a derived command never replaces it, and "off" is    *)
(* never re-armed by a later turn's own resolution.                          *)
UserVerifyStandsLazily == ~probe.started => UserGoverns

-----------------------------------------------------------------------------
(* What the repository says and the code does not do. *)

(* SetVerifyCmd: "each finish from then on must pass it", and "an explicit   *)
(* /verify off is a user decision", prewarmed or not.                        *)
UserVerifyStands == UserGoverns

(* verifyCompletion skips the soft gate on an unchanged tree because "its    *)
(* probe ran the derived suite GREEN on the untouched tree": an accepted     *)
(* unrun finish leaves a green tree.                                         *)
SkipMeansGreen == accepted = "skipped" => tree \in Green
=============================================================================
