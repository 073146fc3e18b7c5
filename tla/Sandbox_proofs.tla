--------------------------- MODULE Sandbox_proofs ---------------------------
(* Theorems about Sandbox for every set of chains, commands and long-lived  *)
(* processes, and any number of calls.                                      *)
EXTENDS Sandbox, TLAPS

Calls == [n : Nat, phase : {"idle", "runs", "approved"}, via : {"tool", "verify"},
          cmd : Commands \cup {NoCommand}, main : {"none", "body", "cwd", "env", "exited", "left", "killed"},
          code : Int, pipe : BOOLEAN, clock : 0..2, cut : BOOLEAN, client : BOOLEAN, at : [cwd : Nat, env : Nat]]
Boxes == [life : {"new", "verifying", "up", "refused", "closing", "closed"}, container : {"none", "up", "gone"},
          runs : {"none", "runc", "runsc"}, closed : {"no", "ok", "failed"}]
Hosted == [stage : {"none", "wrapper", "program", "dead"}, client : BOOLEAN,
           kill : {"no", "read", "signalled", "done"}, pid : BOOLEAN]

(* The part of the state the arguments below read is well formed. *)
Typed ==
    /\ chain \in Chains /\ box \in Boxes /\ call \in Calls
    /\ saved \in [cwd : Nat, env : Nat] /\ kept \in [by : Nat, torn : BOOLEAN]
    /\ lingering \subseteq [n : Nat, saves : BOOLEAN] /\ proc \in [Procs -> Hosted]

LEMMA TypedInit == SandboxInit => Typed
BY DEF SandboxInit, Typed, Boxes, Calls, Hosted, NoCall, NoProc

(* A call slot that only has its number. *)
LEMMA FreshCall == ASSUME NEW m \in Nat PROVE [NoCall EXCEPT !.n = m] \in Calls
<1>1. 0 \in Int /\ 0 \in 0..2 /\ 0 \in Nat
  OBVIOUS
<1>2. NoCall \in Calls
  BY <1>1, Zenon DEF Calls, NoCall
<1>3. QED
  BY <1>2, Zenon DEF Calls

LEMMA StartedCall ==
    ASSUME NEW z \in Calls, NEW ph \in {"idle", "runs", "approved"}, NEW b \in BOOLEAN, NEW a \in [cwd : Nat, env : Nat]
    PROVE  [z EXCEPT !.phase = ph, !.main = "body", !.client = TRUE, !.pipe = b, !.at = a] \in Calls
BY Zenon DEF Calls

LEMMA TypedStep == Typed /\ [SandboxNext]_xvars => Typed'
<1> SUFFICES ASSUME Typed, [SandboxNext]_xvars PROVE Typed'
  OBVIOUS
<1> USE DEF Typed
<1>1. CASE Open
  <2>1. box' \in Boxes
    <3>1. box \in Boxes
      OBVIOUS
    <3>2. CASE OpenLocal
      BY <3>1, <3>2, Zenon DEF OpenLocal, Refuse, Boxes
    <3>3. CASE RunContainer
      BY <3>1, <3>3, Zenon DEF RunContainer, Refuse, Boxes
    <3>4. QED
      BY <1>1, <3>2, <3>3, Zenon DEF Open
  <2>2. UNCHANGED <<chain, call, saved, kept, lingering, proc>>
    BY <1>1, Zenon DEF Open
  <2>3. QED
    BY <2>1, <2>2
<1>2. CASE verifyRuntime
  <2>1. box' \in Boxes
    <3>1. box \in Boxes
      OBVIOUS
    <3>2. QED
      BY <1>2, <3>1, Zenon DEF verifyRuntime, Refuse, Boxes
  <2>2. UNCHANGED <<chain, call, saved, kept, lingering, proc>>
    BY <1>2, Zenon DEF verifyRuntime
  <2>3. QED
    BY <2>1, <2>2
<1>3. ASSUME NEW c \in Commands, NEW via \in {"tool", "verify"}, NEW reply \in {"yes", "no", "none"}, Issue(via, c, reply)
      PROVE  Typed'
  <2>1. startsAt(via, c) \in [cwd : Nat, env : Nat]
    BY DEF startsAt
  <2>2. /\ call.n + 1 \in Nat /\ [NoCall EXCEPT !.n = call.n + 1] \in Calls
        /\ [[NoCall EXCEPT !.n = call.n + 1] EXCEPT !.via = via, !.cmd = c] \in Calls
    <3>1. call.n + 1 \in Nat
      BY DEF Calls
    <3>2. [NoCall EXCEPT !.n = call.n + 1] \in Calls
      BY <3>1, FreshCall
    <3> DEFINE z == [NoCall EXCEPT !.n = call.n + 1]
    <3>3. [z EXCEPT !.via = via, !.cmd = c] \in Calls
      <4> HIDE DEF z
      <4>1. z \in Calls
        BY <3>2 DEF z
      <4>2. QED
        BY <4>1, Zenon DEF Calls
    <3>4. QED
      BY <3>1, <3>2, <3>3
  <2> DEFINE new == [NoCall EXCEPT !.n = call.n + 1, !.via = via, !.cmd = c]
             run == [new EXCEPT !.phase = IF reply = "yes" THEN "approved" ELSE "runs", !.main = "body",
                                !.client = TRUE, !.pipe = c.holds = "pipe", !.at = startsAt(via, c)]
  <2>3. run \in Calls
    <3> HIDE DEF new
    <3>1. /\ new \in Calls /\ (c.holds = "pipe") \in BOOLEAN
          /\ (IF reply = "yes" THEN "approved" ELSE "runs") \in {"idle", "runs", "approved"}
      BY <2>2 DEF new
    <3>2. QED
      BY <2>1, <3>1, StartedCall
  <2>4. call' \in {[NoCall EXCEPT !.n = new.n], run} /\ new.n = call.n + 1
    BY <1>3, <2>2 DEF Issue, NoCall
  <2>5. call' \in Calls
    BY <2>2, <2>3, <2>4
  <2>6. QED
    BY <1>3, <2>5 DEF Issue
<1>0. call.n \in Nat /\ call.main \in {"none", "body", "cwd", "env", "exited", "left", "killed"}
  BY DEF Calls
<1>4. CASE CannotStart
  <2>1. call' = [NoCall EXCEPT !.n = call.n] /\ UNCHANGED <<chain, box, saved, kept, lingering, proc>>
    BY <1>4 DEF CannotStart, Return
  <2>2. QED
    BY <1>0, <2>1, FreshCall
<1>5. CASE BodyEnds
  <2>1. PICK code \in {0, 1} \cup (IF Docker THEN {137} ELSE {}), leaves \in BOOLEAN :
          IF captures(code) /\ code # 137 /\ ~leaves
          THEN /\ call' = [call EXCEPT !.main = "cwd", !.code = code]
               /\ saved' = [saved EXCEPT !.cwd = 0]
               /\ kept' = [kept EXCEPT !.torn = FALSE]
          ELSE /\ call' = [call EXCEPT !.main = IF leaves \/ code = 137 THEN "left" ELSE "exited", !.code = code]
               /\ kept' = IF leaves \/ code = 137 THEN kept ELSE finished
               /\ UNCHANGED saved
    BY <1>5, Zenon DEF BodyEnds
  <2>2. code \in Int
    BY <2>1
  <2>3. PICK m \in {"cwd", "left", "exited"} : call' = [call EXCEPT !.main = m, !.code = code]
    BY <2>1, Zenon
  <2>4. call' \in Calls
    BY <2>2, <2>3, Zenon DEF Calls
  <2>5. [by |-> call.n, torn |-> FALSE] \in [by : Nat, torn : BOOLEAN]
    BY <1>0
  <2>6. saved' \in [cwd : Nat, env : Nat] /\ kept' \in [by : Nat, torn : BOOLEAN]
    <3>1. saved' \in {saved, [saved EXCEPT !.cwd = 0]}
      BY <2>1, Zenon
    <3>2. kept' \in {kept, [kept EXCEPT !.torn = FALSE], [by |-> call.n, torn |-> FALSE]}
      BY <2>1, Zenon DEF finished
    <3>3. [saved EXCEPT !.cwd = 0] \in [cwd : Nat, env : Nat] /\ [kept EXCEPT !.torn = FALSE] \in [by : Nat, torn : BOOLEAN]
      <4>1. 0 \in Nat /\ saved \in [cwd : Nat, env : Nat] /\ kept \in [by : Nat, torn : BOOLEAN]
        OBVIOUS
      <4>2. QED
        BY <4>1, Zenon
    <3>4. saved' \in [cwd : Nat, env : Nat]
      BY <3>1, <3>3
    <3>5. kept' \in [by : Nat, torn : BOOLEAN]
      BY <2>5, <3>2, <3>3
    <3>6. QED
      BY <3>4, <3>5
  <2>7. UNCHANGED <<chain, box, lingering, proc>>
    BY <1>5, Zenon DEF BodyEnds
  <2>8. QED
    BY <2>4, <2>6, <2>7
<1>6. CASE SaveCwd
  BY <1>6 DEF SaveCwd, Calls
<1>7. CASE SaveEnv
  BY <1>7 DEF SaveEnv, Calls
<1>8. CASE Deadline
  BY <1>8 DEF Deadline, Calls
<1>9. CASE Cancel
  BY <1>9 DEF Cancel, Calls
<1>10. ASSUME NEW code \in Int, Kill(code) PROVE Typed'
  <2>1. call' \in Calls
    BY <1>10, Zenon DEF Kill, Calls
  <2>2. kept' \in [by : Nat, torn : BOOLEAN]
    BY <1>10, Zenon DEF Kill
  <2>3. QED
    BY <1>10, <2>1, <2>2 DEF Kill
<1>11. CASE KillClient
  BY <1>11 DEF KillClient, Calls
<1>12. CASE PipeCloses
  BY <1>12 DEF PipeCloses, Calls
<1>13. CASE ReturnLocal
  <2>1. call' = [NoCall EXCEPT !.n = call.n] /\ UNCHANGED <<chain, box, saved, kept, proc>>
    BY <1>13 DEF ReturnLocal, Return
  <2>2. lingering' \in {lingering, lingering \cup {[n |-> call.n, saves |-> FALSE]}}
    BY <1>13 DEF ReturnLocal
  <2>3. call' \in Calls
    BY <1>0, <2>1, FreshCall
  <2>4. [n |-> call.n, saves |-> FALSE] \in [n : Nat, saves : BOOLEAN]
    BY <1>0
  <2>5. lingering' \subseteq [n : Nat, saves : BOOLEAN]
    BY <2>2, <2>4, Zenon
  <2>6. QED
    BY <2>1, <2>3, <2>5
<1>14. CASE ReturnDocker
  <2>1. call' = [NoCall EXCEPT !.n = call.n] /\ UNCHANGED <<chain, box, saved, proc>>
    BY <1>14 DEF ReturnDocker, Return
  <2>2. kept' \in [by : Nat, torn : BOOLEAN]
    BY <1>14, Zenon DEF ReturnDocker
  <2>3. [n |-> call.n, saves |-> Alive /\ Wrapped] \in [n : Nat, saves : BOOLEAN]
    BY <1>0, Zenon
  <2>4. lingering' \in {lingering, lingering \cup {[n |-> call.n, saves |-> Alive /\ Wrapped]}}
    BY <1>14, Zenon DEF ReturnDocker
  <2>5. lingering' \subseteq [n : Nat, saves : BOOLEAN]
    BY <2>3, <2>4, Zenon
  <2>6. QED
    BY <1>0, <2>1, <2>2, <2>5, FreshCall
<1>15. CASE LeftEnds
  <2>1. PICK o \in lingering :
          /\ lingering' = lingering \ {o}
          /\ UNCHANGED <<saved, kept>> \/ (saved' = [cwd |-> o.n, env |-> o.n] /\ kept' = [kept EXCEPT !.torn = TRUE])
          /\ UNCHANGED <<chain, box, call, proc>>
    BY <1>15, Zenon DEF LeftEnds
  <2>2. o.n \in Nat
    OBVIOUS
  <2>3. [cwd |-> o.n, env |-> o.n] \in [cwd : Nat, env : Nat] /\ [kept EXCEPT !.torn = TRUE] \in [by : Nat, torn : BOOLEAN]
    BY <2>2
  <2>4. saved' \in [cwd : Nat, env : Nat] /\ kept' \in [by : Nat, torn : BOOLEAN]
    BY <2>1, <2>3, Zenon
  <2>5. QED
    BY <2>1, <2>4
<1>16. ASSUME NEW p \in Procs, StartProcess(p) \/ procWrapper(p) \/ ProgramExits(p) \/ KillProc(p)
       PROVE  Typed'
  <2>1. PICK q \in Hosted : proc' = [proc EXCEPT ![p] = q]
    <3>1. proc[p] \in Hosted
      OBVIOUS
    <3>2. CASE StartProcess(p)
      <4>1. /\ (IF Docker THEN "wrapper" ELSE "program") \in {"none", "wrapper", "program", "dead"}
            /\ Docker \in BOOLEAN
        BY DEF Docker
      <4> DEFINE q == [proc[p] EXCEPT !.stage = IF Docker THEN "wrapper" ELSE "program", !.client = Docker]
      <4>2. q \in Hosted
        BY <3>1, <4>1, Zenon DEF Hosted
      <4>3. proc' = [proc EXCEPT ![p] = q]
        BY <3>2, Zenon DEF StartProcess
      <4>4. QED
        BY <4>2, <4>3
    <3>3. CASE procWrapper(p) \/ ProgramExits(p)
      BY <3>1, <3>3, Zenon DEF procWrapper, ProgramExits, Hosted
    <3>4. CASE KillProc(p)
      <4>1. CASE readProcPid(p)
        <5>1. \E b \in BOOLEAN : proc' = [proc EXCEPT ![p] = IF Docker THEN [proc[p] EXCEPT !.kill = "read", !.pid = b]
                                                           ELSE killGroup(proc[p])]
          BY <4>1 DEF readProcPid
        <5>2. QED
          BY <3>1, <5>1 DEF killGroup, Hosted
      <4>2. CASE signalProc(p)
        BY <3>1, <4>2 DEF signalProc, Hosted
      <4>3. CASE killClient(p)
        BY <3>1, <4>3 DEF killClient, Hosted
      <4>4. QED
        BY <3>4, <4>1, <4>2, <4>3 DEF KillProc
    <3>5. QED
      BY <1>16, <3>2, <3>3, <3>4
  <2>2. UNCHANGED <<chain, box, call, saved, kept, lingering>>
    BY <1>16 DEF StartProcess, procWrapper, ProgramExits, KillProc, readProcPid, signalProc, killClient
  <2>3. QED
    BY <2>1, <2>2
<1>17. CASE CloseSession
  BY <1>17 DEF CloseSession, Boxes
<1>18. CASE CloseBackend
  <2>1. \A q \in Hosted : Ended(q) \in Hosted
    BY Zenon DEF Ended, Hosted
  <2>2. proc' \in [Procs -> Hosted] /\ lingering' \subseteq lingering
    BY <1>18, <2>1 DEF CloseBackend, reaped
  <2>3. box' \in Boxes
    <3>1. box \in Boxes
      OBVIOUS
    <3>2. QED
      BY <1>18, <3>1, Zenon DEF CloseBackend, Boxes
  <2>4. UNCHANGED <<chain, call, saved, kept>>
    BY <1>18, Zenon DEF CloseBackend
  <2>5. QED
    BY <2>2, <2>3, <2>4
<1>19. CASE UNCHANGED xvars
  BY <1>19 DEF xvars
<1>20. QED
  BY <1>1, <1>2, <1>3, <1>4, <1>5, <1>6, <1>7, <1>8, <1>9, <1>10, <1>11, <1>12, <1>13, <1>14, <1>15, <1>16, <1>17, <1>18, <1>19
     DEF SandboxNext, ExecNext, KillLocal, KillInside
-----------------------------------------------------------------------------
(* What a step does to the command under way: it issues it, ends it, or     *)
(* leaves alone what the gates decided and where it started.                *)
Issued == \E c \in Commands, via \in {"tool", "verify"}, reply \in {"yes", "no", "none"} : Issue(via, c, reply)
Kept   == /\ call'.phase = call.phase /\ call'.cmd = call.cmd /\ call'.via = call.via
          /\ call'.n = call.n /\ call'.at = call.at

LEMMA CallSteps ==
    ASSUME Typed, [SandboxNext]_xvars
    PROVE  chain' = chain /\ (Issued \/ (call'.phase = "idle" /\ call'.n = call.n) \/ Kept)
<1>1. CASE Issued
  BY <1>1 DEF Issued, Issue
<1>2. CASE CannotStart \/ ReturnLocal \/ ReturnDocker
  BY <1>2 DEF CannotStart, ReturnLocal, ReturnDocker, Return, NoCall, Typed
<1>3. CASE BodyEnds \/ SaveCwd \/ SaveEnv
  <2>1. CASE BodyEnds
    <3>1. PICK code \in {0, 1} \cup (IF Docker THEN {137} ELSE {}), leaves \in BOOLEAN :
            IF captures(code) /\ code # 137 /\ ~leaves
            THEN /\ call' = [call EXCEPT !.main = "cwd", !.code = code]
                 /\ saved' = [saved EXCEPT !.cwd = 0]
                 /\ kept' = [kept EXCEPT !.torn = FALSE]
            ELSE /\ call' = [call EXCEPT !.main = IF leaves \/ code = 137 THEN "left" ELSE "exited", !.code = code]
                 /\ kept' = IF leaves \/ code = 137 THEN kept ELSE finished
                 /\ UNCHANGED saved
      BY <2>1, Zenon DEF BodyEnds
    <3>2. PICK m : call' = [call EXCEPT !.main = m, !.code = code]
      BY <3>1, Zenon
    <3>3. chain' = chain
      BY <2>1, Zenon DEF BodyEnds
    <3>4. QED
      BY <3>2, <3>3 DEF Kept, Typed, Calls
  <2>2. CASE SaveCwd \/ SaveEnv
    <3>1. PICK m : chain' = chain /\ call' = [call EXCEPT !.main = m]
      BY <2>2, Zenon DEF SaveCwd, SaveEnv
    <3>2. QED
      BY <3>1 DEF Kept, Typed, Calls
  <2>3. QED
    BY <1>3, <2>1, <2>2
<1>4. CASE Deadline \/ Cancel \/ KillLocal \/ KillInside \/ KillClient \/ PipeCloses
  <2>1. CASE Deadline \/ Cancel
    <3>1. CASE Deadline
      BY <3>1 DEF Deadline, Kept, Typed, Calls
    <3>2. CASE Cancel
      BY <3>2 DEF Cancel, Kept, Typed, Calls
    <3>3. QED
      BY <2>1, <3>1, <3>2
  <2>2. CASE KillLocal \/ KillInside
    <3>1. PICK code : chain' = chain /\ call' = [call EXCEPT !.main = "killed", !.code = code]
      BY <2>2, Zenon DEF KillLocal, KillInside, Kill
    <3>2. QED
      BY <3>1 DEF Kept, Typed, Calls
  <2>3. CASE KillClient \/ PipeCloses
    BY <2>3 DEF KillClient, PipeCloses, Kept, Typed, Calls
  <2>4. QED
    BY <1>4, <2>1, <2>2, <2>3
<1>5. CASE Open \/ verifyRuntime \/ LeftEnds \/ CloseSession \/ CloseBackend \/ UNCHANGED xvars
  BY <1>5 DEF Open, verifyRuntime, LeftEnds, CloseSession, CloseBackend, xvars, Kept
<1>6. ASSUME NEW p \in Procs, StartProcess(p) \/ procWrapper(p) \/ ProgramExits(p) \/ KillProc(p)
      PROVE  chain' = chain /\ Kept
  BY <1>6 DEF StartProcess, procWrapper, ProgramExits, KillProc, readProcPid, signalProc, killClient, Kept
<1>7. QED
  BY <1>1, <1>2, <1>3, <1>4, <1>5, <1>6 DEF SandboxNext, ExecNext, Issued

(* The end of a body: under the session's wrapper the capture begins, any   *)
(* other command is over and leaves the session's state alone.              *)
LEMMA BodyEndsEffect ==
    ASSUME Typed, BodyEnds
    PROVE  /\ Running /\ call.main = "body" /\ UNCHANGED <<chain, box, last, lingering, proc>>
           /\ Kept
           /\ \/ /\ Wrapped /\ call'.main = "cwd"
                 /\ saved' = [saved EXCEPT !.cwd = 0] /\ kept' = [kept EXCEPT !.torn = FALSE]
              \/ call'.main \in {"left", "exited"} /\ UNCHANGED <<saved, kept>>
<1>1. PICK code \in {0, 1} \cup (IF Docker THEN {137} ELSE {}), leaves \in BOOLEAN :
          IF captures(code) /\ code # 137 /\ ~leaves
          THEN /\ call' = [call EXCEPT !.main = "cwd", !.code = code]
               /\ saved' = [saved EXCEPT !.cwd = 0]
               /\ kept' = [kept EXCEPT !.torn = FALSE]
          ELSE /\ call' = [call EXCEPT !.main = IF leaves \/ code = 137 THEN "left" ELSE "exited", !.code = code]
               /\ kept' = IF leaves \/ code = 137 THEN kept ELSE finished
               /\ UNCHANGED saved
  BY Zenon DEF BodyEnds
<1>2. CASE Wrapped /\ code # 137 /\ ~leaves
  <2>1. /\ call' = [call EXCEPT !.main = "cwd", !.code = code]
        /\ saved' = [saved EXCEPT !.cwd = 0] /\ kept' = [kept EXCEPT !.torn = FALSE]
    BY <1>1, <1>2, Zenon DEF captures
  <2>2. call'.main = "cwd" /\ Kept
    BY <2>1 DEF Typed, Calls, Kept
  <2>3. QED
    BY <1>2, <2>1, <2>2 DEF BodyEnds
<1>3. CASE ~(Wrapped /\ code # 137 /\ ~leaves)
  <2>1. call' = [call EXCEPT !.main = IF leaves \/ code = 137 THEN "left" ELSE "exited", !.code = code]
    BY <1>1, <1>3 DEF captures
  <2>2. kept' = kept /\ saved' = saved
    BY <1>1, <1>3 DEF captures, finished
  <2>3. call'.main \in {"left", "exited"} /\ Kept
    BY <2>1 DEF Typed, Calls, Kept
  <2>4. QED
    BY <2>2, <2>3 DEF BodyEnds
<1>4. QED
  BY <1>2, <1>3

-----------------------------------------------------------------------------
(* What an issued command is, once the gates have let it through.           *)
LEMMA IssueEffect ==
    ASSUME NEW c \in Commands, NEW via, NEW reply, Issue(via, c, reply)
    PROVE  /\ Idle /\ UNCHANGED <<chain, box, saved, kept, lingering, proc>>
           /\ \/ call' = [NoCall EXCEPT !.n = call.n + 1]
              \/ /\ Passes(chain.approve, chain.trustGated, c, reply)
                 /\ call'.phase = (IF reply = "yes" THEN "approved" ELSE "runs")
                 /\ call'.cmd = c /\ call'.via = via /\ call'.main = "body"
                 /\ call'.n = call.n + 1 /\ call'.at = startsAt(via, c)
<1> DEFINE new == [NoCall EXCEPT !.n = call.n + 1, !.via = via, !.cmd = c]
           started == [new EXCEPT !.phase = IF reply = "yes" THEN "approved" ELSE "runs", !.main = "body",
                                  !.client = TRUE, !.pipe = c.holds = "pipe", !.at = startsAt(via, c)]
<1>1. Idle /\ UNCHANGED <<chain, box, saved, kept, lingering, proc>>
  BY Zenon DEF Issue
<1>2. \/ call' = [NoCall EXCEPT !.n = new.n]
      \/ Passes(chain.approve, chain.trustGated, c, reply) /\ call' = started
  BY Zenon DEF Issue
<1>3. new.n = call.n + 1
  BY DEF NoCall
<1>4. /\ started.phase = (IF reply = "yes" THEN "approved" ELSE "runs")
      /\ started.cmd = c /\ started.via = via /\ started.main = "body"
      /\ started.n = call.n + 1 /\ started.at = startsAt(via, c)
  BY DEF NoCall
<1> HIDE DEF new, started
<1>5. QED
  BY <1>1, <1>2, <1>3, <1>4, Zenon

(* The trust gate's parser takes a line for literal words only when the     *)
(* shell would run nothing but the call they make up.                       *)
LEMMA SimpleRunsNoSecond ==
    ASSUME NEW c \in Commands, parseSimpleCommand(c) PROVE ~runsSecond(c)
<1>1. SUFFICES ASSUME runsSecond(c) PROVE FALSE
  OBVIOUS
<1>2. PICK i \in DOMAIN c.words :
        \/ c.words[i].text \in Sequencing /\ c.words[i].quote = "none"
        \/ c.words[i].text \in Substituting /\ c.words[i].quote # "single"
  BY <1>1 DEF runsSecond
<1>3. literalWord(c.words[i]) /\ (c.words[i].quote = "none" => c.words[i].text \notin Sequencing)
  BY DEF parseSimpleCommand
<1>4. CASE c.words[i].text \in Sequencing /\ c.words[i].quote = "none"
  BY <1>3, <1>4
<1>5. CASE c.words[i].text \in Substituting /\ c.words[i].quote # "single"
  BY <1>3, <1>5 DEF literalWord
<1>6. QED
  BY <1>2, <1>4, <1>5

(* A flag that acts is refused wherever the parsed allowlists look.         *)
LEMMA ActingIsDenied ==
    ASSUME NEW c \in Commands, flagActs(c) PROVE ~Allows(c) /\ ~AllowsExec(c)
<1> DEFINE w == Texts(c)
<1>0. c.words \in Seq(Words)
  BY CommandsAssumption
<1>1. PICK i \in DOMAIN c.words :
        /\ c.words[i].text \in ActingFlags
        /\ \A j \in 1..(i - 1) : c.words[j].text # "--"
        /\ i > 1 => c.words[i - 1].text # "searchFlags"
  BY DEF flagActs
<1>2. /\ DOMAIN w = 1..Len(c.words) /\ Len(c.words) \in Nat /\ Len(w) = Len(c.words)
      /\ \A k \in 1..Len(c.words) : w[k] = c.words[k].text
  <2>1. DOMAIN c.words = 1..Len(c.words) /\ Len(c.words) \in Nat
    BY <1>0
  <2>2. w = [k \in 1..Len(c.words) |-> c.words[k].text]
    BY <2>1 DEF Texts
  <2> HIDE DEF w
  <2>3. DOMAIN w = 1..Len(c.words) /\ \A k \in 1..Len(c.words) : w[k] = c.words[k].text
    BY <2>2
  <2>4. Len(w) = Len(c.words)
    <3>1. w \in Seq(STRING)
      <4>0. \A k \in 1..Len(c.words) : c.words[k] \in Words
        BY <1>0, <2>1
      <4>1. \A k \in 1..Len(c.words) : c.words[k].text \in STRING
        BY <4>0 DEF Words
      <4>2. w \in [1..Len(c.words) -> STRING]
        BY <2>2, <4>1
      <4>3. QED
        BY <2>1, <4>2
    <3>2. QED
      BY <2>1, <2>3, <3>1
  <2>5. QED
    BY <2>1, <2>3, <2>4
<1>3. /\ i \in 1..Len(w) /\ w[i] \in ActingFlags /\ \A j \in 1..(i - 1) : w[j] # "--"
      /\ i > 1 => w[i - 1] # "searchFlags"
  <2>1. i \in 1..Len(c.words)
    BY <1>0, <1>1
  <2>2. \A j \in 1..(i - 1) : j \in 1..Len(c.words)
    BY <1>2, <2>1
  <2>3. i > 1 => i - 1 \in 1..Len(c.words)
    BY <1>2, <2>1
  <2> HIDE DEF w
  <2>4. i \in 1..Len(w) /\ w[i] \in ActingFlags
    BY <1>1, <1>2, <2>1
  <2>5. \A j \in 1..(i - 1) : w[j] # "--"
    BY <1>1, <1>2, <2>2
  <2>6. i > 1 => w[i - 1] # "searchFlags"
    BY <1>1, <1>2, <2>3
  <2>7. QED
    BY <2>4, <2>5, <2>6
<1> HIDE DEF w
<1>4. /\ w[i] \notin {"go", "git", "rg", "test", "build", "vet", "status", "diff", "searchFlags", "--"}
      /\ w[i] \notin SafeGoFlags \cup StatusFlags \cup DiffFlags /\ IsFlag(w[i])
  BY <1>3 DEF ActingFlags, SafeGoFlags, StatusFlags, DiffFlags, IsFlag
<1>5. Len(w) \in Nat
  BY <1>2
<1>6. ~Allows(c)
  <2> SUFFICES ASSUME Allows(c) PROVE FALSE
    OBVIOUS
  <2>1. /\ Len(w) >= 2
        /\ \/ w[1] = "go" /\ GoAllowed(w)
           \/ w[1] = "git" /\ w[2] = "status" /\ After(w, 2) \subseteq StatusFlags
           \/ w[1] = "git" /\ w[2] = "diff" /\ DiffAllowed(w)
    BY DEF Allows, w
  <2>2. i \in 3..Len(w) /\ w[i] \in After(w, 2)
    <3>1. i # 1 /\ i # 2
      BY <1>4, <2>1 DEF GoAllowed
    <3>2. i \in 3..Len(w)
      BY <1>3, <1>5, <3>1
    <3>3. QED
      BY <3>2 DEF After
  <2>3. CASE GoAllowed(w)
    BY <1>4, <2>2, <2>3 DEF GoAllowed
  <2>4. CASE After(w, 2) \subseteq StatusFlags
    BY <1>4, <2>2, <2>4
  <2>5. CASE DiffAllowed(w)
    <3>1. ~\E j \in 3..(i - 1) : w[j] = "--"
      BY <1>3
    <3>2. w[i] \in DiffFlags
      BY <1>4, <2>2, <2>5, <3>1 DEF DiffAllowed
    <3>3. QED
      BY <1>4, <3>2
  <2>6. QED
    BY <2>1, <2>3, <2>4, <2>5
<1>7. ~AllowsExec(c)
  <2> SUFFICES ASSUME AllowsExec(c) PROVE FALSE
    OBVIOUS
  <2>1. w[1] = "rg" /\ w[2] = "searchFlags" /\ (Len(w) = 3 \/ w[4] = "--")
    BY DEF AllowsExec, w
  <2>2. i # 1 /\ i # 2
    BY <1>4, <2>1
  <2>3. i # 3
    BY <1>3, <2>1
  <2>4. i > 3 /\ Len(w) # 3
    BY <1>3, <1>5, <2>2, <2>3
  <2>5. i # 4
    BY <1>4, <2>1, <2>4
  <2>6. 4 \in 1..(i - 1)
    BY <1>3, <1>5, <2>4, <2>5
  <2>7. QED
    BY <1>3, <2>1, <2>4, <2>6
<1>8. QED
  BY <1>6, <1>7

(* What the gates let through: nothing that does more behind the trust      *)
(* gate, no second command unasked behind the review gate                   *)
(* (gated.Sandbox.Exec).                                                    *)
LEMMA GatesSeeThrough ==
    ASSUME NEW c \in Commands, NEW approve, NEW trustGated, NEW reply, Passes(approve, trustGated, c, reply)
    PROVE  /\ trustGated => ~doesMore(c)
           /\ approve # "off" /\ runsSecond(c) => reply = "yes"
<1>1. ASSUME trustGated PROVE ~doesMore(c)
  <2>1. trustVerdict(c) = "allow"
    BY <1>1 DEF Passes
  <2>2. CASE c.shell
    <3>1. Allows(c) /\ parseSimpleCommand(c)
      BY <2>1, <2>2 DEF trustVerdict, Allows
    <3>2. QED
      BY <3>1, SimpleRunsNoSecond, ActingIsDenied DEF doesMore
  <2>3. CASE ~c.shell
    <3>1. AllowsExec(c)
      BY <2>1, <2>3 DEF trustVerdict
    <3>2. QED
      BY <2>3, <3>1, ActingIsDenied DEF doesMore, runsSecond
  <2>4. QED
    BY <2>2, <2>3
<1>2. ASSUME approve # "off", runsSecond(c) PROVE reply = "yes"
  <2>1. hasShellChaining(c)
    BY <1>2 DEF runsSecond, hasShellChaining
  <2>2. reviewVerdict(approve, c) = "ask"
    BY <1>2, <2>1 DEF reviewVerdict, DefaultPolicy
  <2>3. QED
    BY <2>2 DEF Passes
<1>3. QED
  BY <1>1, <1>2

(* For every set of chains and every line of words, quoted or not: behind a *)
(* trust gate nothing runs that does more than its words name, by shell     *)
(* syntax or by a program's acting flags, and behind a review gate a second *)
(* command only runs on a human's yes (gated.Sandbox.Exec, profile.Allows). *)
THEOREM HiddenCommandsAreAsked == SandboxSpec => []NothingRunsUnasked
<1>1. SandboxInit => NothingRunsUnasked
  BY DEF SandboxInit, NothingRunsUnasked, Running, NoCall
<1>2. Typed /\ NothingRunsUnasked /\ [SandboxNext]_xvars => NothingRunsUnasked'
  <2> SUFFICES ASSUME Typed, NothingRunsUnasked, [SandboxNext]_xvars PROVE NothingRunsUnasked'
    OBVIOUS
  <2>1. CASE Issued
    <3>1. PICK c \in Commands, via \in {"tool", "verify"}, reply \in {"yes", "no", "none"} : Issue(via, c, reply)
      BY <2>1 DEF Issued
    <3>2. CASE call' = [NoCall EXCEPT !.n = call.n + 1]
      BY <3>2 DEF NothingRunsUnasked, Running, NoCall
    <3>3. CASE call' # [NoCall EXCEPT !.n = call.n + 1]
      <4>1. /\ chain' = chain /\ call'.cmd = c /\ Passes(chain.approve, chain.trustGated, c, reply)
            /\ call'.phase = (IF reply = "yes" THEN "approved" ELSE "runs")
        BY <3>1, <3>3, IssueEffect
      <4>2. QED
        BY <4>1, GatesSeeThrough DEF NothingRunsUnasked
    <3>4. QED
      BY <3>2, <3>3
  <2>2. CASE ~Issued
    BY <2>2, CallSteps DEF NothingRunsUnasked, Running, Kept
  <2>3. QED
    BY <2>1, <2>2
<1>3. QED
  BY <1>1, <1>2, TypedInit, TypedStep, PTL DEF SandboxSpec

-----------------------------------------------------------------------------
(* Before the chain is open nothing was asked of it, and what is open runs  *)
(* under the runtime that was asked for.                                    *)
Verified ==
    /\ box.life = "up" /\ chain.backend = "docker" /\ chain.runtime = "runsc" => box.runs = "runsc"
    /\ box.life \in {"new", "verifying", "refused"} =>
         call.n = 0 /\ call.phase = "idle" /\ \A p \in Procs : proc[p].stage = "none"

LEMMA VerifiedStep == Typed /\ Verified /\ [SandboxNext]_xvars => Verified'
<1> SUFFICES ASSUME Typed, Verified, [SandboxNext]_xvars PROVE Verified'
  OBVIOUS
<1>1. CASE Open
  <2>1. UNCHANGED <<chain, call, proc>> /\ box.life = "new"
    BY <1>1 DEF Open
  <2>2. box'.life \in {"up", "verifying", "refused"} /\ (box'.life = "up" => chain.backend # "docker")
    BY <1>1 DEF Open, OpenLocal, RunContainer, Refuse, Docker, Typed, Boxes
  <2>3. box'.life = "up" => call.n = 0 /\ call.phase = "idle" /\ \A p \in Procs : proc[p].stage = "none"
    BY <2>1 DEF Verified
  <2>4. QED
    BY <2>1, <2>2, <2>3 DEF Verified
<1>2. CASE verifyRuntime
  BY <1>2 DEF verifyRuntime, verified, Refuse, Verified, Typed, Boxes
<1>3. CASE Issued
  <2>1. box' = box /\ box.life = "up" /\ chain' = chain
    BY <1>3 DEF Issued, Issue, Idle
  <2>2. QED
    BY <2>1 DEF Verified
<1>4. CASE CannotStart \/ BodyEnds \/ SaveCwd \/ SaveEnv \/ Deadline \/ Cancel \/ KillLocal \/ KillInside \/ KillClient
           \/ PipeCloses \/ ReturnLocal \/ ReturnDocker
  <2>1. call.phase # "idle" /\ box' = box /\ chain' = chain
    BY <1>4 DEF CannotStart, BodyEnds, SaveCwd, SaveEnv, Deadline, Cancel, KillLocal, KillInside, Kill, KillClient,
                PipeCloses, ReturnLocal, ReturnDocker, Running
  <2>2. QED
    BY <2>1 DEF Verified, Typed, Boxes
<1>5. CASE LeftEnds \/ UNCHANGED xvars
  BY <1>5 DEF LeftEnds, xvars, Verified
<1>6. ASSUME NEW p \in Procs, StartProcess(p) \/ procWrapper(p) \/ ProgramExits(p) \/ KillProc(p)
      PROVE  Verified'
  <2>1. UNCHANGED <<chain, box, call>> /\ (box.life = "up" \/ proc[p].stage # "none")
    BY <1>6 DEF StartProcess, procWrapper, ProgramExits, KillProc, readProcPid, signalProc, killClient, Idle
  <2>2. QED
    BY <2>1 DEF Verified
<1>7. CASE CloseSession \/ CloseBackend
  <2>1. chain' = chain /\ box'.life \in {"closing", "closed"}
    BY <1>7 DEF CloseSession, CloseBackend, Typed, Boxes
  <2>2. QED
    BY <2>1 DEF Verified
<1>8. QED
  BY <1>1, <1>2, <1>3, <1>4, <1>5, <1>6, <1>7 DEF SandboxNext, ExecNext, Issued

(* Whatever runtime the daemon gave the container, an open sandbox never    *)
(* advertises a kernel boundary it lacks, and a refused one was used by     *)
(* nobody (docker.New, verifyRuntime).                                      *)
THEOREM IsolationClaimIsReal == SandboxSpec => []ClaimIsReal
<1>1. SandboxInit => Verified
  BY DEF SandboxInit, Verified, NoCall, NoProc
<1>2. Verified => ClaimIsReal
  BY DEF Verified, ClaimIsReal, isolation, Docker
<1>3. QED
  BY <1>1, <1>2, TypedInit, TypedStep, VerifiedStep, PTL DEF SandboxSpec

-----------------------------------------------------------------------------
(* A running command has a process or had one, and a killed one has not     *)
(* exited with 0.                                                           *)
KilledShows ==
    /\ Running => call.main # "none"
    /\ call.main = "killed" => call.code # 0

LEMMA KilledStep == Typed /\ KilledShows /\ [SandboxNext]_xvars => KilledShows'
<1> SUFFICES ASSUME Typed, KilledShows, [SandboxNext]_xvars PROVE KilledShows'
  OBVIOUS
<1> USE DEF KilledShows, Running
<1>1. CASE Issued
  <2>1. PICK c \in Commands, via \in {"tool", "verify"}, reply \in {"yes", "no", "none"} : Issue(via, c, reply)
    BY <1>1 DEF Issued
  <2>2. QED
    BY <2>1, IssueEffect DEF NoCall
<1>2. CASE CannotStart \/ ReturnLocal \/ ReturnDocker
  BY <1>2 DEF CannotStart, ReturnLocal, ReturnDocker, Return, NoCall
<1>3. CASE BodyEnds
  BY <1>3, BodyEndsEffect
<1>4. CASE KillLocal \/ KillInside
  <2>1. PICK k \in {-1, 137} : call' = [call EXCEPT !.main = "killed", !.code = k]
    BY <1>4, Zenon DEF KillLocal, KillInside, Kill
  <2>2. call'.code = k /\ call'.main = "killed"
    BY <2>1, Zenon DEF Typed, Calls
  <2>3. k # 0
    OBVIOUS
  <2>4. QED
    BY <2>2, <2>3
<1>5. CASE SaveCwd \/ SaveEnv
  <2>1. PICK m \in {"env", "exited"} : call' = [call EXCEPT !.main = m]
    BY <1>5, Zenon DEF SaveCwd, SaveEnv
  <2>2. call'.main \in {"env", "exited"}
    BY <2>1 DEF Typed, Calls
  <2>3. QED
    BY <2>2
<1>6. CASE Deadline \/ Cancel \/ KillClient \/ PipeCloses
  BY <1>6 DEF Deadline, Cancel, KillClient, PipeCloses, Typed, Calls
<1>7. CASE Open \/ verifyRuntime \/ LeftEnds \/ CloseSession \/ CloseBackend \/ UNCHANGED xvars
  BY <1>7 DEF Open, verifyRuntime, LeftEnds, CloseSession, CloseBackend, xvars
<1>8. ASSUME NEW p \in Procs, StartProcess(p) \/ procWrapper(p) \/ ProgramExits(p) \/ KillProc(p)
      PROVE  KilledShows'
  BY <1>8 DEF StartProcess, procWrapper, ProgramExits, KillProc, readProcPid, signalProc, killClient
<1>9. QED
  BY <1>1, <1>2, <1>3, <1>4, <1>5, <1>6, <1>7, <1>8 DEF SandboxNext, ExecNext, Issued

(* What reads as a clean success ended by itself with 0: no kill, refusal   *)
(* or failure to start is reported as one (local.Exec, docker.Exec,         *)
(* gated.blocked).                                                          *)
THEOREM SuccessWasReal == SandboxSpec => SuccessIsReal
<1> DEFINE Clean == last' # last /\ last'.exit = 0 /\ ~last'.timedOut /\ ~last'.err
           Real  == call.main \in {"exited", "left"} /\ call.code = 0
<1>1. SandboxInit => KilledShows
  BY DEF SandboxInit, KilledShows, Running, NoCall
<1> DEFINE failed == [NothingReturned EXCEPT !.exit = -1, !.err = TRUE]
           notFound == [NothingReturned EXCEPT !.exit = 127]
<1>r. blocked.exit = 126 /\ failed.exit = -1 /\ notFound.exit = 127
  BY DEF blocked, NothingReturned
<1>2. ASSUME Typed, KilledShows, [SandboxNext]_xvars, Clean PROVE Real
  <2>1. CASE Issued
    <3>1. last' \in {last, blocked, failed}
      BY <2>1 DEF Issued, Issue
    <3> HIDE DEF failed
    <3>2. QED
      BY <1>r, <1>2, <3>1, SMT
  <2>2. CASE CannotStart
    <3>1. last' \in {notFound, failed}
      BY <2>2 DEF CannotStart, Return
    <3> HIDE DEF failed, notFound
    <3>2. QED
      BY <1>r, <1>2, <3>1, SMT
  <2>3. CASE ReturnLocal
    <3>1. Running /\ ~Alive /\ last'.exit = call.code
      BY <2>3 DEF ReturnLocal, Return
    <3>2. call.main \in {"exited", "left", "killed"}
      BY <1>2, <3>1 DEF KilledShows, Alive, Typed, Calls
    <3>3. QED
      BY <1>2, <3>1, <3>2 DEF KilledShows
  <2>4. CASE ReturnDocker
    <3>1. Running /\ (~call.client \/ ~Alive) /\ last'.exit = (IF call.client THEN call.code ELSE -1)
      BY <2>4 DEF ReturnDocker, Return
    <3>2. call.main \in {"exited", "left", "killed"}
      BY <1>2, <3>1 DEF KilledShows, Alive, Typed, Calls
    <3>3. QED
      BY <1>2, <3>1, <3>2 DEF KilledShows
  <2>5. CASE BodyEnds \/ SaveCwd \/ SaveEnv \/ Deadline \/ Cancel \/ KillLocal \/ KillInside \/ KillClient
             \/ PipeCloses \/ LeftEnds
    BY <1>2, <2>5 DEF BodyEnds, SaveCwd, SaveEnv, Deadline, Cancel, KillLocal, KillInside, Kill, KillClient, PipeCloses, LeftEnds
  <2>6. CASE Open \/ verifyRuntime \/ CloseSession \/ CloseBackend \/ UNCHANGED xvars
    BY <1>2, <2>6 DEF Open, verifyRuntime, CloseSession, CloseBackend, xvars
  <2>7. ASSUME NEW p \in Procs, StartProcess(p) \/ procWrapper(p) \/ ProgramExits(p) \/ KillProc(p)
        PROVE  FALSE
    BY <1>2, <2>7 DEF StartProcess, procWrapper, ProgramExits, KillProc, readProcPid, signalProc, killClient
  <2>8. QED
    BY <1>2, <2>1, <2>2, <2>3, <2>4, <2>5, <2>6, <2>7 DEF SandboxNext, ExecNext, Issued
<1>3. Typed /\ KilledShows /\ [SandboxNext]_xvars => [Clean => Real]_xvars
  BY <1>2
<1>4. QED
  BY <1>1, <1>3, TypedInit, TypedStep, KilledStep, PTL DEF SandboxSpec, SuccessIsReal

-----------------------------------------------------------------------------
(* A local process that was killed is dead, and a closed chain runs nothing *)
(* and starts nothing.                                                      *)
KillsHold ==
    \A p \in Procs :
        /\ chain.backend # "docker" => proc[p].kill \in {"no", "done"}
        /\ chain.backend # "docker" /\ proc[p].kill = "done" => proc[p].stage = "dead"
        /\ proc[p].kill # "no" => proc[p].stage # "none"
Closed ==
    /\ call.phase # "idle" => box.life = "up"
    /\ box.closed = "ok" => /\ box.life = "closed" /\ \A p \in Procs : proc[p].stage \in {"none", "dead"}
                            /\ chain.backend = "docker" => lingering = {}

LEMMA KillsHoldStep == Typed /\ KillsHold /\ [SandboxNext]_xvars => KillsHold'
<1> SUFFICES ASSUME Typed, KillsHold, [SandboxNext]_xvars PROVE KillsHold'
  OBVIOUS
<1>0. chain' = chain
  BY CallSteps
<1>1. ASSUME NEW p \in Procs, StartProcess(p) \/ procWrapper(p) \/ ProgramExits(p) \/ KillProc(p)
      PROVE  KillsHold'
  <2>0. proc[p] \in Hosted
    BY DEF Typed
  <2>1. CASE StartProcess(p)
    BY <1>0, <2>0, <2>1 DEF StartProcess, KillsHold, Typed, Hosted, Docker
  <2>2. CASE procWrapper(p) \/ ProgramExits(p)
    BY <1>0, <2>0, <2>2 DEF procWrapper, ProgramExits, KillsHold, Typed, Hosted
  <2>3. CASE readProcPid(p)
    BY <1>0, <2>0, <2>3 DEF readProcPid, killGroup, KillsHold, Typed, Hosted, Docker
  <2>4. CASE signalProc(p)
    BY <1>0, <2>0, <2>4 DEF signalProc, KillsHold, Typed, Hosted
  <2>5. CASE killClient(p)
    BY <1>0, <2>0, <2>5 DEF killClient, KillsHold, Typed, Hosted
  <2>6. QED
    BY <1>1, <2>1, <2>2, <2>3, <2>4, <2>5 DEF KillProc
<1>2. CASE CloseBackend
  <2>1. \A p \in Procs : proc'[p] \in {proc[p], Ended(proc[p])}
    BY <1>2 DEF CloseBackend, reaped
  <2>2. \A q \in Hosted : /\ Ended(q).kill = q.kill /\ Ended(q).pid = q.pid
                          /\ q.stage = "none" <=> Ended(q).stage = "none"
                          /\ q.stage = "dead" => Ended(q).stage = "dead"
    BY DEF Ended, Hosted
  <2>3. QED
    BY <1>0, <2>1, <2>2 DEF KillsHold, Typed
<1>3. CASE Issued \/ CannotStart \/ BodyEnds \/ SaveCwd \/ SaveEnv \/ Deadline \/ Cancel \/ KillLocal \/ KillInside
           \/ KillClient \/ PipeCloses \/ ReturnLocal \/ ReturnDocker \/ LeftEnds
  <2>1. proc' = proc
    BY <1>3 DEF Issued, Issue, CannotStart, BodyEnds, SaveCwd, SaveEnv, Deadline, Cancel, KillLocal, KillInside, Kill,
                KillClient, PipeCloses, ReturnLocal, ReturnDocker, LeftEnds
  <2>2. QED
    BY <1>0, <2>1 DEF KillsHold
<1>4. CASE Open \/ verifyRuntime \/ CloseSession \/ UNCHANGED xvars
  <2>1. proc' = proc
    BY <1>4 DEF Open, verifyRuntime, CloseSession, xvars
  <2>2. QED
    BY <1>0, <2>1 DEF KillsHold
<1>5. QED
  BY <1>1, <1>2, <1>3, <1>4 DEF SandboxNext, ExecNext, Issued

LEMMA ClosedStep == Typed /\ Closed /\ [SandboxNext]_xvars => Closed'
<1> SUFFICES ASSUME Typed, Closed, [SandboxNext]_xvars PROVE Closed'
  OBVIOUS
<1>0. chain' = chain
  BY CallSteps
<1>1. CASE Open \/ verifyRuntime
  <2>1. UNCHANGED <<call, proc, lingering>> /\ box.life \notin {"up", "closed"} /\ box'.closed = box.closed
    BY <1>1 DEF Open, verifyRuntime, OpenLocal, RunContainer, Refuse, Typed, Boxes
  <2>2. QED
    BY <2>1 DEF Closed
<1>2. CASE Issued
  <2>1. UNCHANGED <<box, proc, lingering>> /\ box.life = "up"
    BY <1>2 DEF Issued, Issue, Idle
  <2>2. QED
    BY <2>1 DEF Closed
<1>3. CASE CannotStart \/ BodyEnds \/ SaveCwd \/ SaveEnv \/ Deadline \/ Cancel \/ KillLocal \/ KillInside
           \/ KillClient \/ PipeCloses \/ ReturnLocal \/ ReturnDocker
  <2>1. call.phase # "idle" /\ box' = box
    BY <1>3 DEF CannotStart, BodyEnds, SaveCwd, SaveEnv, Deadline, Cancel, KillLocal, KillInside, Kill, KillClient,
                PipeCloses, ReturnLocal, ReturnDocker, Running
  <2>2. QED
    BY <2>1 DEF Closed
<1>4. CASE LeftEnds \/ UNCHANGED xvars
  BY <1>0, <1>4 DEF LeftEnds, xvars, Closed
<1>5. ASSUME NEW p \in Procs, StartProcess(p) \/ procWrapper(p) \/ ProgramExits(p) \/ KillProc(p)
      PROVE  Closed'
  <2>1. UNCHANGED <<box, call, lingering>> /\ (box.life = "up" \/ proc[p].stage \in {"wrapper", "program"})
    BY <1>5 DEF StartProcess, procWrapper, ProgramExits, KillProc, readProcPid, signalProc, killClient, Idle
  <2>2. box.closed # "ok"
    BY <2>1 DEF Closed
  <2>3. QED
    BY <2>1, <2>2 DEF Closed
<1>6. CASE CloseSession
  <2>1. call.phase = "idle" /\ box.life = "up" /\ UNCHANGED <<call, proc, lingering>> /\ box'.closed = box.closed
    BY <1>6 DEF CloseSession, Idle, Typed, Boxes
  <2>2. QED
    BY <2>1 DEF Closed
<1>7. CASE CloseBackend
  <2>1. call' = call /\ box.life = "closing" /\ box'.life = "closed"
    BY <1>7 DEF CloseBackend, Typed, Boxes
  <2>2. box'.closed = "ok" => proc' = reaped /\ (chain.backend = "docker" => lingering' = {})
    BY <1>7 DEF CloseBackend, Docker, Typed, Boxes
  <2>3. \A p \in Procs : Ended(proc[p]).stage \in {"none", "dead"}
    BY DEF Ended, Typed, Hosted
  <2>4. QED
    BY <1>0, <2>1, <2>2, <2>3 DEF Closed, reaped
<1>8. QED
  BY <1>1, <1>2, <1>3, <1>4, <1>5, <1>6, <1>7 DEF SandboxNext, ExecNext, Issued

(* A clean close leaves no long-lived process, killed early, late, in vain  *)
(* or never, and no command in a container; a local kill takes the process  *)
(* group with it at once (Close and the kill closures).                     *)
THEOREM CloseLeavesNothing == SandboxSpec => []CloseReaps
<1>1. SandboxInit => KillsHold /\ Closed
  BY DEF SandboxInit, KillsHold, Closed, NoCall, NoProc
<1>2. KillsHold /\ Closed => CloseReaps
  BY DEF KillsHold, Closed, CloseReaps, Docker
<1>3. QED
  BY <1>1, <1>2, TypedInit, TypedStep, KillsHoldStep, ClosedStep, PTL DEF SandboxSpec

-----------------------------------------------------------------------------
(* The state files are those of the last session command that ran to its    *)
(* end, except while a command is capturing.                                *)
FilesAreKept ==
    /\ call.main = "none" <=> call.phase = "idle"
    /\ call.main \in {"cwd", "env"} => Wrapped
    /\ ~kept.torn /\ box.life \in {"new", "verifying", "up"} =>
         /\ call.main \notin {"cwd", "env"} => saved.cwd = kept.by /\ saved.env = kept.by
         /\ call.main = "env" => saved.cwd = call.n

Resuming == Closed /\ FilesAreKept /\ SessionResumes

(* Nothing the files' argument reads has changed, or a cut was noted.       *)
LEMMA ResumingKept ==
    ASSUME Typed, Resuming, chain' = chain, Kept, call'.main = call.main, saved' = saved, kept' = kept,
           box'.life \in {"new", "verifying", "up"} => box.life \in {"new", "verifying", "up"}
    PROVE  (FilesAreKept /\ SessionResumes)'
BY DEF Resuming, FilesAreKept, SessionResumes, Kept, Running, Wrapped, wrapped, shellBody

LEMMA ResumingStep == Typed /\ Resuming /\ [SandboxNext]_xvars => (FilesAreKept /\ SessionResumes)'
<1> SUFFICES ASSUME Typed, Resuming, [SandboxNext]_xvars PROVE (FilesAreKept /\ SessionResumes)'
  OBVIOUS
<1>0. chain' = chain
  BY CallSteps
<1> DEFINE Goal == (FilesAreKept /\ SessionResumes)'
<1>1. CASE Issued
  <2>1. PICK c \in Commands, via \in {"tool", "verify"}, reply \in {"yes", "no", "none"} : Issue(via, c, reply)
    BY <1>1 DEF Issued
  <2>2. box.life = "up" /\ call.phase = "idle" /\ call.main = "none" /\ UNCHANGED <<box, saved, kept>>
    BY <2>1, IssueEffect DEF Idle, Resuming, FilesAreKept
  <2>3. CASE call' = [NoCall EXCEPT !.n = call.n + 1]
    <3>1. call'.phase = "idle" /\ call'.main = "none"
      BY <2>3 DEF NoCall
    <3>2. QED
      BY <2>2, <3>1 DEF Resuming, FilesAreKept, SessionResumes, Running
  <2>4. CASE call' # [NoCall EXCEPT !.n = call.n + 1]
    <3>1. call'.phase \in {"runs", "approved"} /\ call'.main = "body" /\ call'.cmd = c /\ call'.via = via
          /\ call'.at = startsAt(via, c)
      BY <2>1, <2>4, IssueEffect
    <3>2. wrapped(via, c) => startsAt(via, c).env = saved.env /\ (c.dir = "none" => startsAt(via, c).cwd = saved.cwd)
      BY DEF startsAt
    <3>3. ~kept.torn => saved.cwd = kept.by /\ saved.env = kept.by
      BY <2>2 DEF Resuming, FilesAreKept
    <3>4. Wrapped' = wrapped(via, c)
      BY <1>0, <3>1 DEF Wrapped, wrapped, shellBody
    <3>5. QED
      BY <2>2, <3>1, <3>2, <3>3, <3>4 DEF FilesAreKept, SessionResumes, Running
  <2>5. QED
    BY <2>3, <2>4
<1>2. CASE CannotStart \/ ReturnLocal
  <2>1. /\ Running /\ call.main \notin {"cwd", "env"} /\ UNCHANGED <<box, saved, kept>>
        /\ call' = [NoCall EXCEPT !.n = call.n]
    BY <1>2 DEF CannotStart, ReturnLocal, Return, Alive
  <2>2. call'.phase = "idle" /\ call'.main = "none"
    BY <2>1 DEF NoCall
  <2>3. QED
    BY <2>1, <2>2 DEF Resuming, FilesAreKept, SessionResumes, Running
<1>3. CASE ReturnDocker
  <2>1. Running /\ UNCHANGED <<box, saved>> /\ call' = [NoCall EXCEPT !.n = call.n]
    BY <1>3 DEF ReturnDocker, Return
  <2>2. call'.phase = "idle" /\ call'.main = "none"
    BY <2>1 DEF NoCall
  <2>3. kept'.by = kept.by /\ (kept.torn => kept'.torn) /\ (call.main \in {"cwd", "env"} => kept'.torn)
    <3>1. kept' = [kept EXCEPT !.torn = @ \/ (Alive /\ Wrapped)]
      BY <1>3, Zenon DEF ReturnDocker
    <3>2. kept'.by = kept.by /\ kept'.torn = (kept.torn \/ (Alive /\ Wrapped))
      BY <3>1, Zenon DEF Typed
    <3>3. QED
      BY <3>2, Zenon DEF Resuming, FilesAreKept, Alive
  <2>4. QED
    BY <2>1, <2>2, <2>3 DEF Resuming, FilesAreKept, SessionResumes, Running
<1>4. CASE BodyEnds
  BY <1>0, <1>4, BodyEndsEffect
     DEF Resuming, FilesAreKept, SessionResumes, Running, Wrapped, wrapped, shellBody, Kept, Typed
<1>5. CASE SaveCwd
  <2>1. /\ Running /\ call.main = "cwd" /\ call' = [call EXCEPT !.main = "env"]
        /\ saved' = [cwd |-> call.n, env |-> 0] /\ kept' = kept /\ box' = box
    BY <1>5 DEF SaveCwd
  <2>2. call'.main = "env" /\ Kept
    BY <2>1 DEF Kept, Typed, Calls
  <2>3. QED
    BY <1>0, <2>1, <2>2 DEF Resuming, FilesAreKept, SessionResumes, Running, Wrapped, wrapped, shellBody, Kept
<1>6. CASE SaveEnv
  <2>1. /\ Running /\ call.main = "env" /\ call' = [call EXCEPT !.main = "exited"]
        /\ saved' = [saved EXCEPT !.env = call.n] /\ kept' = [kept EXCEPT !.by = call.n] /\ box' = box
    BY <1>6 DEF SaveEnv
  <2>2. call'.main = "exited" /\ Kept
    BY <2>1 DEF Kept, Typed, Calls
  <2>3. saved'.cwd = saved.cwd /\ saved'.env = call.n /\ kept'.by = call.n /\ kept'.torn = kept.torn
    BY <2>1 DEF Typed
  <2>4. QED
    BY <1>0, <2>1, <2>2, <2>3 DEF Resuming, FilesAreKept, SessionResumes, Running, Wrapped, wrapped, shellBody, Kept
<1>7. CASE Deadline \/ Cancel \/ KillClient \/ PipeCloses
  <2>1. call'.main = call.main /\ Kept /\ UNCHANGED <<saved, kept, box>>
    BY <1>7 DEF Deadline, Cancel, KillClient, PipeCloses, Kept, Typed, Calls
  <2>2. QED
    BY <1>0, <2>1, ResumingKept
<1>8. ASSUME NEW code, Kill(code), Running PROVE Goal
  <2>1. /\ call' = [call EXCEPT !.main = "killed", !.code = code] /\ UNCHANGED <<saved, box>>
        /\ kept' = [kept EXCEPT !.torn = @ \/ call.main \in {"cwd", "env"}]
    BY <1>8, Zenon DEF Kill
  <2>2. call'.main = "killed" /\ call'.phase = call.phase
    BY <2>1 DEF Typed, Calls
  <2>3. kept'.by = kept.by /\ kept'.torn = (kept.torn \/ call.main \in {"cwd", "env"})
    BY <2>1, Zenon DEF Typed
  <2>4. QED
    BY <1>8, <2>1, <2>2, <2>3 DEF Resuming, FilesAreKept, SessionResumes, Running
<1>9. CASE LeftEnds
  <2>1. PICK o \in lingering :
          /\ UNCHANGED <<saved, kept>> \/ (saved' = [cwd |-> o.n, env |-> o.n] /\ kept' = [kept EXCEPT !.torn = TRUE])
          /\ UNCHANGED <<chain, box, call>>
    BY <1>9, Zenon DEF LeftEnds
  <2>2. CASE kept'.torn
    BY <2>1, <2>2 DEF Resuming, FilesAreKept, SessionResumes, Wrapped, wrapped, shellBody
  <2>3. CASE ~kept'.torn
    <3>1. saved' = saved /\ kept' = kept
      BY <2>1, <2>3 DEF Typed
    <3>2. QED
      BY <1>0, <2>1, <3>1, ResumingKept DEF Kept
  <2>4. QED
    BY <2>2, <2>3
<1>10. ASSUME NEW p \in Procs, StartProcess(p) \/ procWrapper(p) \/ ProgramExits(p) \/ KillProc(p)
       PROVE  Goal
  <2>1. UNCHANGED <<box, call, saved, kept>>
    BY <1>10 DEF StartProcess, procWrapper, ProgramExits, KillProc, readProcPid, signalProc, killClient
  <2>2. QED
    BY <1>0, <2>1, ResumingKept DEF Kept
<1>11. CASE Open \/ verifyRuntime \/ CloseBackend \/ UNCHANGED xvars
  <2>1. UNCHANGED <<call, saved, kept>>
    BY <1>11 DEF Open, verifyRuntime, CloseBackend, xvars
  <2>2. box'.life \in {"new", "verifying", "up"} => box.life \in {"new", "verifying", "up"}
    BY <1>11 DEF Open, verifyRuntime, CloseBackend, xvars, Typed, Boxes
  <2>3. QED
    BY <1>0, <2>1, <2>2, ResumingKept DEF Kept
<1>12. CASE CloseSession
  <2>1. UNCHANGED <<call, kept>> /\ call.phase = "idle" /\ box'.life = "closing"
    BY <1>12 DEF CloseSession, Idle, Typed, Boxes
  <2>2. QED
    BY <2>1 DEF Resuming, FilesAreKept, SessionResumes, Running
<1>13. QED
  BY <1>1, <1>2, <1>3, <1>4, <1>5, <1>6, <1>7, <1>8, <1>9, <1>10, <1>11, <1>12
     DEF SandboxNext, ExecNext, Issued, KillLocal, KillInside

(* For any number of commands, a session command starts in the directory    *)
(* and environment the last one that ran to its end left, whatever failed,  *)
(* was refused or was killed between them (session.Exec and its wrapper).   *)
THEOREM SessionPicksUp == SandboxSpec => []SessionResumes
<1>1. SandboxInit => Resuming
  BY DEF SandboxInit, Resuming, Closed, FilesAreKept, SessionResumes, Running, NoCall, NoProc
<1>2. Typed /\ Resuming /\ [SandboxNext]_xvars => Resuming'
  BY ClosedStep, ResumingStep DEF Resuming
<1>3. Resuming => SessionResumes
  BY DEF Resuming
<1>4. QED
  BY <1>1, <1>2, <1>3, TypedInit, TypedStep, PTL DEF SandboxSpec
-----------------------------------------------------------------------------
(* Nothing is saved, kept or left behind but by a command that was issued,  *)
(* and the chain's own bound is on those (chain.calls).                     *)
Dated ==
    /\ call.n <= chain.calls /\ (Running => call.n >= 1)
    /\ saved.cwd <= call.n /\ saved.env <= call.n /\ kept.by <= call.n
    /\ \A o \in lingering : o.n \in 1..call.n

(* What a command ends with, and what Exec makes of it.                     *)
Exits ==
    /\ call.code \in {-1, 0, 1, 137}
    /\ last.exit \in {-2, -1, 0, 1, 126, 127, 137}

(* A step that issues nothing and returns nothing, and dates its marks.     *)
LEMMA DatedKept ==
    ASSUME Typed, Dated, chain' = chain, call'.n = call.n, Running' => Running,
           saved'.cwd \in {0, saved.cwd, call.n}, saved'.env \in {0, saved.env, call.n},
           kept'.by \in {kept.by, call.n}, lingering' \subseteq lingering
    PROVE  Dated'
<1>1. call.n \in Nat
  BY DEF Typed, Calls
<1>2. QED
  BY <1>1 DEF Dated, Typed

(* What a command that returns leaves behind was issued.                    *)
LEMMA DatedReturn ==
    ASSUME Typed, Dated, Running, chain' = chain, call' = [NoCall EXCEPT !.n = call.n], saved' = saved, kept'.by = kept.by,
           NEW left, left.n = call.n, lingering' \in {lingering, lingering \cup {left}}
    PROVE  Dated'
<1>1. call.n \in Nat /\ call.n >= 1 /\ call'.n = call.n /\ ~Running'
  BY DEF Typed, Calls, Dated, NoCall, Running
<1>2. \A o \in lingering' : o.n \in 1..call.n
  BY <1>1 DEF Dated
<1>3. QED
  BY <1>1, <1>2 DEF Dated

LEMMA DatedStep == Typed /\ Dated /\ [SandboxNext]_xvars => Dated'
<1> SUFFICES ASSUME Typed, Dated, [SandboxNext]_xvars PROVE Dated'
  OBVIOUS
<1>0. chain' = chain /\ call.n \in Nat /\ saved.cwd \in Nat /\ saved.env \in Nat /\ kept.by \in Nat
  BY CallSteps DEF Typed, Calls
<1>1. CASE Issued
  <2>1. PICK c \in Commands, via \in {"tool", "verify"}, reply \in {"yes", "no", "none"} : Issue(via, c, reply)
    BY <1>1 DEF Issued
  <2>2. call'.n = call.n + 1 /\ UNCHANGED <<saved, kept, lingering>>
    BY <2>1, IssueEffect DEF NoCall
  <2>3. call.n < chain.calls /\ chain.calls \in Nat
    BY <2>1, ChainsAssumption DEF Issue, Typed
  <2>4. \A o \in lingering : o.n \in 1..(call.n + 1)
    BY <1>0 DEF Dated
  <2>5. QED
    BY <1>0, <2>2, <2>3, <2>4 DEF Dated
<1>2. CASE CannotStart
  BY <1>0, <1>2, DatedReturn DEF CannotStart, Return
<1>3. CASE ReturnLocal
  <2> DEFINE left == [n |-> call.n, saves |-> FALSE]
  <2>1. lingering' \in {lingering, lingering \cup {left}} /\ left.n = call.n
    BY <1>3 DEF ReturnLocal
  <2> HIDE DEF left
  <2>2. Running /\ saved' = saved /\ kept'.by = kept.by /\ call' = [NoCall EXCEPT !.n = call.n]
    BY <1>3 DEF ReturnLocal, Return
  <2>3. QED
    BY <1>0, <2>1, <2>2, DatedReturn
<1>4. CASE ReturnDocker
  <2> DEFINE left == [n |-> call.n, saves |-> Alive /\ Wrapped]
  <2>0. left.n = call.n
    OBVIOUS
  <2>1. lingering' \in {lingering, lingering \cup {left}}
    BY <1>4, Zenon DEF ReturnDocker
  <2> HIDE DEF left
  <2>2. kept'.by = kept.by
    <3>1. kept' = [kept EXCEPT !.torn = @ \/ (Alive /\ Wrapped)]
      BY <1>4, Zenon DEF ReturnDocker
    <3>2. QED
      BY <3>1, Zenon DEF Typed
  <2>3. Running /\ saved' = saved /\ call' = [NoCall EXCEPT !.n = call.n]
    BY <1>4 DEF ReturnDocker, Return
  <2>4. QED
    BY <1>0, <2>0, <2>1, <2>2, <2>3, DatedReturn
<1>5. CASE BodyEnds
  <2>1. Running /\ Kept /\ lingering' = lingering
    BY <1>5, BodyEndsEffect
  <2>2. \/ saved' = [saved EXCEPT !.cwd = 0] /\ kept' = [kept EXCEPT !.torn = FALSE]
        \/ UNCHANGED <<saved, kept>>
    BY <1>5, BodyEndsEffect
  <2>3. /\ saved'.cwd \in {0, saved.cwd, call.n} /\ saved'.env \in {0, saved.env, call.n}
        /\ kept'.by \in {kept.by, call.n}
    BY <2>2 DEF Typed
  <2>4. QED
    BY <1>0, <2>1, <2>3, DatedKept DEF Kept, Running
<1>6. CASE SaveCwd
  <2>1. call'.n = call.n /\ call'.phase = call.phase
    BY <1>6 DEF SaveCwd, Typed, Calls
  <2>2. QED
    BY <1>0, <1>6, <2>1, DatedKept DEF SaveCwd, Running
<1>7. CASE SaveEnv
  <2>1. call'.n = call.n /\ call'.phase = call.phase
    BY <1>7 DEF SaveEnv, Typed, Calls
  <2>2. saved'.cwd = saved.cwd /\ saved'.env = call.n /\ kept'.by = call.n
    BY <1>7 DEF SaveEnv, Typed
  <2>3. QED
    BY <1>0, <1>7, <2>1, <2>2, DatedKept DEF SaveEnv, Running
<1>8. CASE Deadline \/ Cancel \/ KillClient \/ PipeCloses
  <2>1. call'.n = call.n /\ call'.phase = call.phase /\ UNCHANGED <<saved, kept, lingering>>
    BY <1>8 DEF Deadline, Cancel, KillClient, PipeCloses, Typed, Calls
  <2>2. QED
    BY <1>0, <2>1, DatedKept DEF Running
<1>9. ASSUME NEW code, Kill(code) PROVE Dated'
  <2>1. /\ call' = [call EXCEPT !.main = "killed", !.code = code] /\ UNCHANGED <<saved, lingering>>
        /\ kept' = [kept EXCEPT !.torn = @ \/ call.main \in {"cwd", "env"}]
    BY <1>9, Zenon DEF Kill
  <2>2. call'.n = call.n /\ call'.phase = call.phase
    BY <2>1 DEF Typed, Calls
  <2>3. kept'.by = kept.by
    BY <2>1, Zenon DEF Typed
  <2>4. QED
    BY <1>0, <2>1, <2>2, <2>3, DatedKept DEF Running
<1>10. CASE LeftEnds
  <2>1. PICK o \in lingering :
          /\ lingering' = lingering \ {o}
          /\ UNCHANGED <<saved, kept>> \/ (saved' = [cwd |-> o.n, env |-> o.n] /\ kept' = [kept EXCEPT !.torn = TRUE])
          /\ UNCHANGED <<chain, call>>
    BY <1>10, Zenon DEF LeftEnds
  <2>2. o.n \in 1..call.n
    BY DEF Dated
  <2>3. saved'.cwd <= call.n /\ saved'.env <= call.n /\ kept'.by <= call.n
    BY <1>0, <2>1, <2>2 DEF Dated, Typed
  <2>4. QED
    BY <2>1, <2>3 DEF Dated, Running
<1>11. ASSUME NEW p \in Procs, StartProcess(p) \/ procWrapper(p) \/ ProgramExits(p) \/ KillProc(p)
       PROVE  Dated'
  <2>1. UNCHANGED <<call, saved, kept, lingering>>
    BY <1>11 DEF StartProcess, procWrapper, ProgramExits, KillProc, readProcPid, signalProc, killClient
  <2>2. QED
    BY <1>0, <2>1, DatedKept DEF Running
<1>12. CASE Open \/ verifyRuntime \/ UNCHANGED xvars
  <2>1. UNCHANGED <<call, saved, kept, lingering>>
    BY <1>12 DEF Open, verifyRuntime, xvars
  <2>2. QED
    BY <1>0, <2>1, DatedKept DEF Running
<1>13. CASE CloseSession
  <2>1. UNCHANGED <<call, kept, lingering>> /\ saved'.cwd = 0 /\ saved'.env = 0
    BY <1>13 DEF CloseSession
  <2>2. QED
    BY <1>0, <2>1, DatedKept DEF Running
<1>14. CASE CloseBackend
  <2>1. UNCHANGED <<call, saved, kept>> /\ lingering' \subseteq lingering
    BY <1>14 DEF CloseBackend
  <2>2. QED
    BY <1>0, <2>1, DatedKept DEF Running
<1>15. QED
  BY <1>1, <1>2, <1>3, <1>4, <1>5, <1>6, <1>7, <1>8, <1>9, <1>10, <1>11, <1>12, <1>13, <1>14
     DEF SandboxNext, ExecNext, Issued, KillLocal, KillInside

(* What a command may end with is what the kill, the shell or the backend's *)
(* refusal to start it left (local.Exec, docker.Exec, gated.blocked).       *)
LEMMA ExitsStep == Typed /\ Exits /\ [SandboxNext]_xvars => Exits'
<1> SUFFICES ASSUME Typed, Exits, [SandboxNext]_xvars PROVE Exits'
  OBVIOUS
<1>0. NoCall.code = 0 /\ \A m : [NoCall EXCEPT !.n = m].code = 0
  BY DEF NoCall
<1>1. CASE Issued
  <2>1. PICK c \in Commands, via \in {"tool", "verify"}, reply \in {"yes", "no", "none"} : Issue(via, c, reply)
    BY <1>1 DEF Issued
  <2> DEFINE new == [NoCall EXCEPT !.n = call.n + 1, !.via = via, !.cmd = c]
             started == [new EXCEPT !.phase = IF reply = "yes" THEN "approved" ELSE "runs", !.main = "body",
                                    !.client = TRUE, !.pipe = c.holds = "pipe", !.at = startsAt(via, c)]
  <2>2. started.code = 0
    BY DEF NoCall
  <2>3. /\ call' = [NoCall EXCEPT !.n = new.n] \/ call' = started
        /\ last' \in {last, blocked, [NothingReturned EXCEPT !.exit = -1, !.err = TRUE]}
    BY <2>1, Zenon DEF Issue
  <2> HIDE DEF new, started
  <2>4. call'.code = 0
    BY <1>0, <2>2, <2>3
  <2> DEFINE refused == [NothingReturned EXCEPT !.exit = -1, !.err = TRUE]
  <2>5. last'.exit \in {last.exit, 126, -1}
    <3>1. refused.exit = -1 /\ blocked.exit = 126
      BY DEF blocked, NothingReturned
    <3>2. last' \in {last, blocked, refused}
      BY <2>3
    <3> HIDE DEF refused
    <3>3. QED
      BY <3>1, <3>2
  <2>6. QED
    BY <2>4, <2>5 DEF Exits
<1>2. CASE CannotStart
  BY <1>0, <1>2 DEF CannotStart, Return, Exits, NothingReturned
<1>3. CASE ReturnLocal
  <2>1. PICK err : last' = [exit |-> call.code, timedOut |-> call.clock = 1, err |-> err]
    BY <1>3 DEF ReturnLocal, Return
  <2>2. call'.code = 0
    BY <1>0, <1>3 DEF ReturnLocal, Return
  <2>3. QED
    BY <2>1, <2>2 DEF Exits
<1>4. CASE ReturnDocker
  <2> DEFINE exit == IF call.client THEN call.code ELSE -1
  <2>1. PICK timed : last' = [exit |-> exit, err |-> FALSE, timedOut |-> timed]
    BY <1>4, Zenon DEF ReturnDocker, Return
  <2>2. call'.code = 0
    BY <1>0, <1>4 DEF ReturnDocker, Return
  <2>3. last'.exit = exit
    BY <2>1
  <2>4. QED
    BY <2>2, <2>3 DEF Exits
<1>5. CASE BodyEnds
  <2>1. PICK code \in {0, 1} \cup (IF Docker THEN {137} ELSE {}) : \E m : call' = [call EXCEPT !.main = m, !.code = code]
    BY <1>5, Zenon DEF BodyEnds
  <2>2. call'.code = code
    <3>1. PICK m : call' = [call EXCEPT !.main = m, !.code = code]
      BY <2>1
    <3>2. QED
      BY <3>1 DEF Typed, Calls
  <2>3. last' = last
    BY <1>5, Zenon DEF BodyEnds
  <2>4. QED
    BY <2>1, <2>2, <2>3 DEF Exits
<1>6. CASE SaveCwd \/ SaveEnv \/ Deadline \/ Cancel \/ KillClient \/ PipeCloses
  <2>1. last' = last
    BY <1>6 DEF SaveCwd, SaveEnv, Deadline, Cancel, KillClient, PipeCloses
  <2>2. call'.code = call.code
    <3>1. CASE SaveCwd
      BY <3>1 DEF SaveCwd, Typed, Calls
    <3>2. CASE SaveEnv
      BY <3>2 DEF SaveEnv, Typed, Calls
    <3>3. CASE Deadline \/ Cancel \/ KillClient \/ PipeCloses
      BY <3>3 DEF Deadline, Cancel, KillClient, PipeCloses, Typed, Calls
    <3>4. QED
      BY <1>6, <3>1, <3>2, <3>3
  <2>3. QED
    BY <2>1, <2>2 DEF Exits
<1>7. ASSUME NEW code \in {-1, 137}, Kill(code) PROVE Exits'
  <2>1. call' = [call EXCEPT !.main = "killed", !.code = code] /\ last' = last
    BY <1>7, Zenon DEF Kill
  <2>2. call'.code = code
    BY <2>1 DEF Typed, Calls
  <2>3. QED
    BY <2>1, <2>2 DEF Exits
<1>8. CASE Open \/ verifyRuntime \/ LeftEnds \/ CloseSession \/ CloseBackend \/ UNCHANGED xvars
  BY <1>8 DEF Open, verifyRuntime, LeftEnds, CloseSession, CloseBackend, xvars, Exits
<1>9. ASSUME NEW p \in Procs, StartProcess(p) \/ procWrapper(p) \/ ProgramExits(p) \/ KillProc(p)
      PROVE  Exits'
  BY <1>9 DEF StartProcess, procWrapper, ProgramExits, KillProc, readProcPid, signalProc, killClient, Exits
<1>10. QED
  BY <1>1, <1>2, <1>3, <1>4, <1>5, <1>6, <1>7, <1>8, <1>9 DEF SandboxNext, ExecNext, Issued, KillLocal, KillInside

(* The sandbox chain's state is what its code holds: exit codes of the five *)
(* ways a command ends, and session files and left-over processes only of   *)
(* commands that were issued, which their bound counts (SandboxTypeOK).     *)
THEOREM SandboxTypes == SandboxSpec => []SandboxTypeOK
<1>1. SandboxInit => Dated /\ Exits
  <2> SUFFICES ASSUME SandboxInit PROVE Dated /\ Exits
    OBVIOUS
  <2>1. chain.calls \in Nat
    BY ChainsAssumption DEF SandboxInit
  <2>2. QED
    BY <2>1 DEF SandboxInit, Dated, Exits, Running, NoCall, NothingReturned
<1>2. Typed /\ Dated /\ Exits => SandboxTypeOK
  <2> SUFFICES ASSUME Typed, Dated, Exits PROVE SandboxTypeOK
    OBVIOUS
  <2>1. chain.calls \in 0..MaxCalls /\ MaxCalls \in Nat /\ call.n \in Nat
    BY ChainsAssumption DEF Typed, Calls
  <2>2. \A m \in Nat : m <= call.n => m \in 0..MaxCalls
    BY <2>1 DEF Dated
  <2>3. call.n \in 0..MaxCalls /\ kept.by \in 0..MaxCalls /\ saved.cwd \in 0..MaxCalls /\ saved.env \in 0..MaxCalls
    BY <2>1, <2>2 DEF Typed, Dated
  <2>4. saved \in [cwd : 0..MaxCalls, env : 0..MaxCalls]
    BY <2>3 DEF Typed
  <2>5. lingering \subseteq [n : 1..MaxCalls, saves : BOOLEAN]
    <3> SUFFICES ASSUME NEW o \in lingering PROVE o \in [n : 1..MaxCalls, saves : BOOLEAN]
      OBVIOUS
    <3>1. o \in [n : Nat, saves : BOOLEAN] /\ o.n \in 1..MaxCalls
      BY <2>1 DEF Typed, Dated
    <3>2. QED
      BY <3>1
  <2>6. QED
    BY <2>3, <2>4, <2>5 DEF Typed, Exits, SandboxTypeOK, Boxes, Calls, Hosted
<1>3. QED
  BY <1>1, <1>2, TypedInit, TypedStep, DatedStep, ExitsStep, PTL DEF SandboxSpec
=============================================================================
