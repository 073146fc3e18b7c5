-------------------------- MODULE AgentSession_proofs --------------------------
(* Theorems about AgentSession for every set of trees, every choice of the   *)
(* green ones, and any number of turns.                                      *)
EXTENDS AgentSession, TLAPS

(* Applying a finished probe: the state stays well typed, becomes resolved,  *)
(* and its command is either kept or replaced by the derived, soft one.      *)
LEMMA Applied ==
    ASSUME NEW v \in VerifyState, NEW res \in Resolutions \ {"none"}
    PROVE  LET w == applyAutoVerifyResolution(v, res)
           IN  /\ w \in VerifyState /\ w.resolved
               /\ (w.cmd = v.cmd /\ w.soft = v.soft) \/ (w.cmd = "auto" /\ w.soft)
<1>1. CASE res = "underived"
  BY <1>1, Zenon DEF applyAutoVerifyResolution, VerifyState
<1>2. CASE res = "disarmed"
  BY <1>2, Zenon DEF applyAutoVerifyResolution, VerifyState
<1>3. CASE res = "armed"
  BY <1>3, Zenon DEF applyAutoVerifyResolution, VerifyState
<1>4. QED
  BY <1>1, <1>2, <1>3 DEF Resolutions

(* The loop's own resolution leaves a decided state alone. *)
LEMMA Resolved ==
    ASSUME NEW v \in VerifyState, NEW w \in resolveAutoVerify(v)
    PROVE  /\ w \in VerifyState
           /\ v.resolved \/ v.cmd # "none" => w = v
           /\ (w.cmd = v.cmd /\ w.soft = v.soft) \/ (w.cmd = "auto" /\ w.soft)
<1>1. CASE v.cmd # "none" \/ v.resolved
  BY <1>1 DEF resolveAutoVerify
<1>2. CASE ~(v.cmd # "none" \/ v.resolved)
  <2>1. PICK res \in probeAutoVerify : w = applyAutoVerifyResolution(v, res)
    BY <1>2, Zenon DEF resolveAutoVerify
  <2>2. res \in Resolutions \ {"none"}
    BY <2>1 DEF probeAutoVerify, Resolutions
  <2>3. QED
    BY <1>2, <2>1, <2>2, Applied, Zenon
<1>3. QED
  BY <1>1, <1>2

-----------------------------------------------------------------------------
(* Everything SendParts does to the two copies and to the probe slot. *)
LEMMA SendEffect ==
    ASSUME SessionTypeOK, SendParts
    PROVE  /\ vs' \in VerifyState /\ turnVS' \in VerifyState
           /\ vs'.resolved => turnVS' = vs'
           /\ (probe.started => probe.applied) => vs' = vs
           /\ ~probe.started => probe' = probe
           /\ (vs'.cmd = vs.cmd /\ vs'.soft = vs.soft) \/ (vs'.cmd = "auto" /\ vs'.soft)
           /\ (turnVS'.cmd = vs'.cmd /\ turnVS'.soft = vs'.soft) \/ (turnVS'.cmd = "auto" /\ turnVS'.soft)
           /\ vs'.cmd # "none" => turnVS'.cmd = vs'.cmd
           /\ probe' \in Probe /\ probe'.started = probe.started /\ probe'.done = probe.done
           /\ probe'.resolution = probe.resolution /\ (probe'.applied => probe'.done)
<1> DEFINE applies == probe.started /\ probe.done /\ ~probe.applied
           waiting == probe.started /\ ~probe.done
           s == IF applies THEN applyAutoVerifyResolution(vs, probe.resolution) ELSE vs
           t == IF waiting THEN [s EXCEPT !.resolved = TRUE] ELSE s
<1>1. /\ vs' = s /\ turnVS' \in resolveAutoVerify(t)
      /\ probe' = [probe EXCEPT !.applied = probe.applied \/ applies]
  BY DEF SendParts
<1>2. /\ vs \in VerifyState /\ probe \in Probe
      /\ (probe.applied => probe.done) /\ (probe.done <=> probe.resolution # "none")
  BY DEF SessionTypeOK
<1>3. /\ s \in VerifyState /\ (applies => s.resolved)
      /\ (s.cmd = vs.cmd /\ s.soft = vs.soft) \/ (s.cmd = "auto" /\ s.soft)
  <2>1. CASE applies
    <3>1. probe.resolution \in Resolutions \ {"none"}
      BY <1>2, <2>1 DEF Probe
    <3>2. QED
      BY <1>2, <2>1, <3>1, Applied, Zenon
  <2>2. CASE ~applies
    BY <1>2, <2>2
  <2>3. QED
    BY <2>1, <2>2
<1>4. /\ t \in VerifyState /\ t.cmd = s.cmd /\ t.soft = s.soft
      /\ s.resolved => t = s
  BY <1>3, Zenon DEF VerifyState
<1>5. /\ turnVS' \in VerifyState
      /\ t.resolved \/ t.cmd # "none" => turnVS' = t
      /\ (turnVS'.cmd = t.cmd /\ turnVS'.soft = t.soft) \/ (turnVS'.cmd = "auto" /\ turnVS'.soft)
  <2>1. t \in VerifyState /\ turnVS' \in resolveAutoVerify(t)
    BY <1>1, <1>4
  <2> HIDE DEF t
  <2>2. QED
    BY <2>1, Resolved, Zenon
<1>6. /\ probe' \in Probe /\ probe'.started = probe.started /\ probe'.done = probe.done
      /\ probe'.resolution = probe.resolution /\ (probe'.applied => probe'.done)
      /\ ~probe.started => probe' = probe
  BY <1>1, <1>2, Zenon DEF Probe
<1> HIDE DEF applies, waiting, s, t
<1>7. (probe.started => probe.applied) => s = vs
  BY Zenon DEF s, applies
<1>8. QED
  BY <1>1, <1>3, <1>4, <1>5, <1>6, <1>7, Zenon

-----------------------------------------------------------------------------
(* Every handler of the session, the probe and the turn preserves the types. *)
LEMMA SessionTypeInductive == SessionTypeOK /\ [SessionNext]_sessionVars => SessionTypeOK'
<1> SUFFICES ASSUME SessionTypeOK, [SessionNext]_sessionVars PROVE SessionTypeOK'
  OBVIOUS
<1> USE SessionAssumption
<1>1. CASE PrewarmAutoVerify
  <2>1. /\ probe' \in Probe /\ probe'.started /\ probe'.done = probe.done
        /\ probe'.applied = probe.applied /\ probe'.resolution = probe.resolution
    BY <1>1, Zenon DEF SessionTypeOK, PrewarmAutoVerify, Probe
  <2>2. QED
    BY <1>1, <2>1 DEF SessionTypeOK, PrewarmAutoVerify
<1>2. CASE probeDone
  <2>1. PICK res \in probeAutoVerify : probe' = [probe EXCEPT !.done = TRUE, !.resolution = res]
    BY <1>2 DEF probeDone
  <2>2. res \in Resolutions /\ res # "none"
    BY <2>1 DEF probeAutoVerify, Resolutions
  <2>3. /\ probe' \in Probe /\ probe'.done /\ probe'.started = probe.started
        /\ probe'.applied = probe.applied /\ probe'.resolution = res
    BY <2>1, <2>2, Zenon DEF SessionTypeOK, Probe
  <2>4. QED
    BY <1>2, <2>2, <2>3 DEF SessionTypeOK, probeDone
<1>3. ASSUME NEW cmd \in {"user", "none"}, SetVerifyCmd(cmd) PROVE SessionTypeOK'
  <2>1. vs' \in VerifyState
    BY <1>3, Zenon DEF SessionTypeOK, SetVerifyCmd, VerifyState
  <2>2. QED
    BY <1>3, <2>1 DEF SessionTypeOK, SetVerifyCmd
<1>4. CASE SendParts
  <2>1. /\ vs' \in VerifyState /\ turnVS' \in VerifyState /\ probe' \in Probe
        /\ probe'.started = probe.started /\ probe'.done = probe.done
        /\ probe'.resolution = probe.resolution /\ (probe'.applied => probe'.done)
    BY <1>4, SendEffect, Zenon
  <2>2. /\ turn' = "running" /\ sends' \in 0..MaxSends /\ runBase' \in Trees
        /\ accepted' = "none" /\ tree' \in Trees /\ user' = user
    BY <1>4 DEF SessionTypeOK, SendParts
  <2>3. QED
    BY <2>1, <2>2 DEF SessionTypeOK
<1>5. CASE loopEdits
  BY <1>5 DEF SessionTypeOK, loopEdits
<1>6. CASE turnReturns
  <2>1. persistAutoVerify \in VerifyState
    BY Zenon DEF SessionTypeOK, persistAutoVerify, VerifyState
  <2>2. vs' \in VerifyState
    BY <1>6, <2>1 DEF SessionTypeOK, turnReturns
  <2>3. QED
    BY <1>6, <2>2 DEF SessionTypeOK, turnReturns, gateAnswers
<1>7. CASE UNCHANGED sessionVars
  BY <1>7 DEF SessionTypeOK, sessionVars
<1>8. QED
  BY <1>1, <1>2, <1>3, <1>4, <1>5, <1>6, <1>7 DEF SessionNext

(* The session's state is well typed and the prewarm slot's flags are raised *)
(* in order, whatever the interleaving of probe, turns and /verify.          *)
THEOREM SessionTypeCorrect == SessionSpec => []SessionTypeOK
<1>1. SessionInit => SessionTypeOK
  BY SessionAssumption DEF SessionInit, SessionTypeOK, VerifyState, Probe, Resolutions
<1>2. QED
  BY <1>1, SessionTypeInductive, PTL DEF SessionSpec

-----------------------------------------------------------------------------
(* A turn in flight runs under the session's command, unless the session was *)
(* undecided and without one when the turn was sent.                         *)
TurnAgrees ==
    turn = "running" /\ (vs.resolved \/ vs.cmd # "none") => turnVS.cmd = vs.cmd

(* What persistAutoVerify can write back. *)
LEMMA PersistEffect ==
    ASSUME SessionTypeOK
    PROVE  LET w == persistAutoVerify
           IN  \/ w.cmd = vs.cmd /\ w.soft = vs.soft /\ (vs.resolved => w.resolved)
               \/ w = turnVS /\ turnVS.resolved /\ turnVS.cmd # "none"
  BY Zenon DEF SessionTypeOK, persistAutoVerify, VerifyState

(* The turn's copy follows the session through every handler. *)
LEMMA TurnAgreesInductive ==
    SessionTypeOK /\ TurnAgrees /\ [SessionNext]_sessionVars => TurnAgrees'
<1> SUFFICES ASSUME SessionTypeOK, TurnAgrees, [SessionNext]_sessionVars PROVE TurnAgrees'
  OBVIOUS
<1>1. CASE PrewarmAutoVerify
  BY <1>1, Zenon DEF PrewarmAutoVerify, TurnAgrees
<1>2. CASE probeDone
  BY <1>2, Zenon DEF probeDone, TurnAgrees
<1>3. ASSUME NEW cmd \in {"user", "none"}, SetVerifyCmd(cmd) PROVE TurnAgrees'
  BY <1>3 DEF SetVerifyCmd, TurnAgrees
<1>4. CASE SendParts
  BY <1>4, SendEffect, Zenon DEF TurnAgrees
<1>5. CASE loopEdits
  BY <1>5, Zenon DEF loopEdits, TurnAgrees
<1>6. CASE turnReturns
  BY <1>6 DEF turnReturns, TurnAgrees
<1>7. CASE UNCHANGED sessionVars
  BY <1>7, Zenon DEF sessionVars, TurnAgrees
<1>8. QED
  BY <1>1, <1>2, <1>3, <1>4, <1>5, <1>6, <1>7 DEF SessionNext

(* resolveAutoVerify's "one auto-verify decision": once the session is       *)
(* decided and no prewarm is outstanding, neither sending a turn nor its     *)
(* return changes the command, whatever the turn did to the tree.            *)
THEOREM DecisionNeverFlickers == SessionSpec => DecisionIsFinal
<1> DEFINE Final == vs.resolved /\ (probe.started => probe.applied) /\ turn' # turn => vs'.cmd = vs.cmd
<1>1. SessionInit => TurnAgrees
  BY DEF SessionInit, TurnAgrees
<1>2. SessionTypeOK /\ TurnAgrees /\ [SessionNext]_sessionVars => [Final]_sessionVars
  <2> SUFFICES ASSUME SessionTypeOK, TurnAgrees, SessionNext, vs.resolved,
                      probe.started => probe.applied, turn' # turn
               PROVE  vs'.cmd = vs.cmd
    BY Zenon
  <2>1. CASE SendParts
    BY <2>1, SendEffect, Zenon
  <2>2. CASE turnReturns
    BY <2>2, PersistEffect, Zenon DEF turnReturns, TurnAgrees
  <2>3. CASE PrewarmAutoVerify \/ probeDone \/ loopEdits
    BY <2>3 DEF PrewarmAutoVerify, probeDone, loopEdits
  <2>4. ASSUME NEW cmd \in {"user", "none"}, SetVerifyCmd(cmd) PROVE FALSE
    BY <2>4 DEF SetVerifyCmd
  <2>5. QED
    BY <2>1, <2>2, <2>3, <2>4 DEF SessionNext
<1>3. QED
  BY <1>1, <1>2, TurnAgreesInductive, SessionTypeCorrect, PTL DEF SessionSpec, DecisionIsFinal

-----------------------------------------------------------------------------
(* A derived command is soft and only a derived command is, through every    *)
(* hand-off between the session, the probe and the turn.                     *)
THEOREM DerivedAlwaysSoft == SessionSpec => []DerivedIsSoft
<1>1. SessionInit => DerivedIsSoft
  BY DEF SessionInit, DerivedIsSoft
<1>2. SessionTypeOK /\ DerivedIsSoft /\ [SessionNext]_sessionVars => DerivedIsSoft'
  <2> SUFFICES ASSUME SessionTypeOK, DerivedIsSoft, [SessionNext]_sessionVars PROVE DerivedIsSoft'
    OBVIOUS
  <2>1. (vs.soft <=> vs.cmd = "auto") /\ (turnVS.soft <=> turnVS.cmd = "auto")
    BY Zenon DEF DerivedIsSoft
  <2>2. SUFFICES (vs'.soft <=> vs'.cmd = "auto") /\ (turnVS'.soft <=> turnVS'.cmd = "auto")
    BY Zenon DEF DerivedIsSoft
  <2>3. CASE PrewarmAutoVerify \/ probeDone \/ loopEdits \/ UNCHANGED sessionVars
    BY <2>1, <2>3, Zenon DEF PrewarmAutoVerify, probeDone, loopEdits, sessionVars
  <2>4. ASSUME NEW cmd \in {"user", "none"}, SetVerifyCmd(cmd)
        PROVE  (vs'.soft <=> vs'.cmd = "auto") /\ (turnVS'.soft <=> turnVS'.cmd = "auto")
    <3>1. vs'.cmd = cmd /\ vs'.soft = FALSE /\ turnVS' = turnVS
      BY <2>4, Zenon DEF SetVerifyCmd, SessionTypeOK, VerifyState
    <3>2. cmd # "auto"
      OBVIOUS
    <3>3. QED
      BY <2>1, <3>1, <3>2, Zenon
  <2>5. CASE SendParts
    BY <2>1, <2>5, SendEffect, Zenon
  <2>6. CASE turnReturns
    BY <2>1, <2>6, PersistEffect, Zenon DEF turnReturns
  <2>7. QED
    BY <2>3, <2>4, <2>5, <2>6 DEF SessionNext
<1>3. QED
  BY <1>1, <1>2, SessionTypeCorrect, PTL DEF SessionSpec

-----------------------------------------------------------------------------
(* Without a prewarm, the user's last /verify is the session's command, and  *)
(* an explicit "off" has settled the automatic decision.                     *)
LazyInv ==
    /\ TurnAgrees
    /\ ~probe.started => /\ user # "unset" => vs.cmd = user
                         /\ user = "none" => vs.resolved

(* SetVerifyCmd's promise, in a session that was never prewarmed: every turn  *)
(* sent after a /verify runs under that command, and "off" stays off.        *)
THEOREM UserLastWordStands == SessionSpec => []UserVerifyStandsLazily
<1>1. SessionInit => LazyInv
  BY DEF SessionInit, LazyInv, TurnAgrees
<1>2. SessionTypeOK /\ LazyInv /\ [SessionNext]_sessionVars => LazyInv'
  <2> SUFFICES ASSUME SessionTypeOK, LazyInv, [SessionNext]_sessionVars PROVE LazyInv'
    OBVIOUS
  <2>1. TurnAgrees'
    BY TurnAgreesInductive DEF LazyInv
  <2> SUFFICES ASSUME ~probe'.started
               PROVE  (user' # "unset" => vs'.cmd = user') /\ (user' = "none" => vs'.resolved)
    BY <2>1, Zenon DEF LazyInv
  <2>2. CASE PrewarmAutoVerify
    BY <2>2, Zenon DEF PrewarmAutoVerify, SessionTypeOK, Probe
  <2>3. CASE probeDone
    BY <2>3, Zenon DEF probeDone, SessionTypeOK, Probe
  <2>4. CASE loopEdits \/ UNCHANGED sessionVars
    BY <2>4, Zenon DEF loopEdits, sessionVars, LazyInv
  <2>5. ASSUME NEW cmd \in {"user", "none"}, SetVerifyCmd(cmd)
        PROVE  vs'.cmd = user' /\ (user' = "none" => vs'.resolved)
    BY <2>5, Zenon DEF SetVerifyCmd, SessionTypeOK, VerifyState
  <2>6. CASE SendParts
    BY <2>6, SendEffect, Zenon DEF LazyInv, SendParts
  <2>7. CASE turnReturns
    <3>1. user' = user /\ probe' = probe /\ (vs' = vs \/ vs' = persistAutoVerify) /\ turn = "running"
      BY <2>7 DEF turnReturns
    <3>2. user # "unset" => turnVS.cmd = vs.cmd
      BY <3>1, Zenon DEF LazyInv, TurnAgrees
    <3>3. QED
      BY <3>1, <3>2, PersistEffect, Zenon DEF LazyInv
  <2>8. QED
    BY <2>2, <2>3, <2>4, <2>5, <2>6, <2>7 DEF SessionNext
<1>3. LazyInv => UserVerifyStandsLazily
  <2> SUFFICES ASSUME LazyInv, ~probe.started, user # "unset"
               PROVE  vs.cmd = user /\ (turn = "running" => turnVS.cmd = user)
    BY Zenon DEF UserVerifyStandsLazily, UserGoverns
  <2>1. QED
    BY Zenon DEF LazyInv, TurnAgrees
<1>4. QED
  BY <1>1, <1>2, <1>3, SessionTypeCorrect, PTL DEF SessionSpec

=============================================================================
