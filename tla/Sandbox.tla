------------------------------- MODULE Sandbox -------------------------------
(***************************************************************************)
(* The sandbox chain a run acts through (sandbox/local, docker, session,   *)
(* gated, proc; headless/session.go): opening a backend, the gates, the    *)
(* stateful shell session, one command at a time with its deadline, its    *)
(* caller's cancel and the processes it leaves behind, long-lived          *)
(* processes and their kill, and the close.                                *)
(*                                                                         *)
(* The chain is review gate over trust gate over session over backend for  *)
(* the model's tools, and the same without the session for verification.   *)
(* Output, environment variables and file operations are left out; Tools   *)
(* has the files.  A command is what the gates see of it and what it does  *)
(* to the process table.                                                   *)
(***************************************************************************)
EXTENDS CommandPolicy, FiniteSets, Integers

CONSTANTS
    Chains,      \* the chains considered
    Commands,    \* the commands considered
    Procs,       \* the long-lived processes a driver may start
    MaxCalls     \* bound: commands issued in one run (chain.calls of them)

ASSUME CommandsAssumption ==
    \A c \in Commands : c.shell \in BOOLEAN /\ c.words \in Seq(Words)

ASSUME ChainsAssumption ==
    /\ MaxCalls \in Nat
    /\ \A c \in Chains : /\ c.backend \in {"local", "docker"} /\ c.runtime \in {"runc", "runsc"}
                         /\ c.issues \subseteq Commands /\ c.calls \in 0..MaxCalls

VARIABLES
    chain,    \* the chain this run was given, and what it will ask of it
    box,      \* the backend: its life, its container, the close
    call,     \* the command under way, or the last one
    last,     \* the result the last command returned
    saved,    \* the session's state files: which call wrote cwd and env, 0 for none
    kept,     \* the last session call that ran to its end, and whether one was cut while saving
    lingering,  \* commands that returned and still have a process
    proc      \* the long-lived processes

xvars == <<chain, box, call, last, saved, kept, lingering, proc>>

Docker == chain.backend = "docker"
NoCommand == [shell |-> FALSE, words |-> <<>>, dir |-> "none", timed |-> FALSE, holds |-> "no", ends |-> TRUE]
NoCall == [n |-> 0, phase |-> "idle", via |-> "tool", cmd |-> NoCommand, main |-> "none", code |-> 0,
           pipe |-> FALSE, clock |-> 0, cut |-> FALSE, client |-> FALSE, at |-> [cwd |-> 0, env |-> 0]]
NoProc == [stage |-> "none", client |-> FALSE, kill |-> "no", pid |-> FALSE]
NothingReturned == [exit |-> 0, timedOut |-> FALSE, err |-> FALSE]
Idle == box.life = "up" /\ call.phase = "idle"

SandboxInit ==
    /\ chain \in Chains
    /\ box = [life |-> "new", container |-> "none", runs |-> "none", closed |-> "no"]
    /\ call = NoCall
    /\ last = [NothingReturned EXCEPT !.exit = -2]
    /\ saved = [cwd |-> 0, env |-> 0]
    /\ kept = [by |-> 0, torn |-> FALSE]
    /\ lingering = {}
    /\ proc = [p \in Procs |-> NoProc]

---------------------------------------------------------------------------
(* Opening.  local.NewWithOptions needs an existing directory.  docker.New *)
(* runs the container, then, when gVisor was asked for, inspects which     *)
(* runtime it got; anything but the one asked for closes it and refuses.   *)

Refuse(container) ==
    box' = [box EXCEPT !.life = "refused", !.container = container]

OpenLocal ==
    /\ ~Docker
    /\ \/ box' = [box EXCEPT !.life = "up", !.container = "none", !.runs = "none"]
       \/ Refuse("none")

RunContainer ==
    /\ Docker
    /\ \/ \E rt \in {"runc", "runsc"} :
            box' = [box EXCEPT !.life = "verifying", !.container = "up", !.runs = rt]
       \/ Refuse("none")

(* The mutants' form: an inspect that cannot be read counts as agreement. *)
verified_failsOpen(readable) == box.runs = "runsc" \/ ~readable
verified(readable) == box.runs = "runsc" /\ readable

Open ==
    /\ box.life = "new"
    /\ OpenLocal \/ RunContainer
    /\ UNCHANGED <<chain, call, last, saved, kept, lingering, proc>>

verifyRuntime ==
    /\ box.life = "verifying"
    /\ IF chain.runtime = "runsc"
       THEN \E readable \in BOOLEAN :
                IF verified(readable) THEN box' = [box EXCEPT !.life = "up"]
                ELSE \E c \in {"gone", "up"} : Refuse(c)
       ELSE box' = [box EXCEPT !.life = "up"]
    /\ UNCHANGED <<chain, call, last, saved, kept, lingering, proc>>

(* What Capabilities advertises: the option, not the container. *)
isolation == IF ~Docker THEN "none" ELSE IF chain.runtime = "runsc" THEN "kernel" ELSE "process"

---------------------------------------------------------------------------
(* A command through the chain.                                            *)

shellBody(cmd) == cmd.shell
wrapped(via, cmd) == chain.session /\ via = "tool" /\ shellBody(cmd)

(* Where a command starts.  The session restores the environment it saved, *)
(* and the directory unless the command names one; a command that is not   *)
(* a shell line, and every verification, starts at the root.               *)
startsAt(via, cmd) ==
    IF ~wrapped(via, cmd) THEN [cwd |-> 0, env |-> 0]
    ELSE [cwd |-> IF cmd.dir = "none" THEN saved.cwd ELSE 0, env |-> saved.env]

Return(result) ==
    /\ last' = result
    /\ call' = [NoCall EXCEPT !.n = call.n]

(* The mutants' form: a refusal reads like a command that said nothing.    *)
blocked_silently == [exit |-> 0, timedOut |-> FALSE, err |-> FALSE]

(* gated.blocked: an ordinary result, exit 126. *)
blocked == [exit |-> 126, timedOut |-> FALSE, err |-> FALSE]

Issue(via, cmd, reply) ==
    /\ Idle /\ call.n < chain.calls /\ cmd \in chain.issues
    /\ reply = "none" \/ Asks(chain.approve, cmd)
    /\ LET new == [NoCall EXCEPT !.n = call.n + 1, !.via = via, !.cmd = cmd] IN
       IF ~Passes(chain.approve, chain.trustGated, cmd, reply)
       THEN call' = [NoCall EXCEPT !.n = new.n] /\ last' = blocked
       ELSE IF cmd.dir = "outside"
       THEN call' = [NoCall EXCEPT !.n = new.n] /\ last' = [NothingReturned EXCEPT !.exit = -1, !.err = TRUE]
       ELSE /\ call' = [new EXCEPT !.phase = IF reply = "yes" THEN "approved" ELSE "runs", !.main = "body",
                                   !.client = TRUE, !.pipe = cmd.holds = "pipe", !.at = startsAt(via, cmd)]
            /\ UNCHANGED last
    /\ UNCHANGED <<chain, box, saved, kept, lingering, proc>>

Running == call.phase \in {"runs", "approved"}
Wrapped == wrapped(call.via, call.cmd)

(* (History.)  This session command ran to its end. *)
finished == IF Wrapped THEN [by |-> call.n, torn |-> FALSE] ELSE kept

Alive == call.main \in {"body", "cwd", "env"}

(* A program the backend cannot start is an error of local.Exec; docker's  *)
(* client starts and reports it as an exit code.                           *)
CannotStart ==
    /\ Running /\ call.main = "body"
    /\ Return(IF Docker THEN [NothingReturned EXCEPT !.exit = 127] ELSE [NothingReturned EXCEPT !.exit = -1, !.err = TRUE])
    /\ UNCHANGED <<chain, box, saved, kept, lingering, proc>>

(* The mutants' form: state is captured only when the body succeeded.      *)
captures_onSuccess(code) == Wrapped /\ code = 0
captures(code) == Wrapped

(* The body ends.  Under the session's wrapper it then writes the working  *)
(* directory (truncating the file first); a body that leaves the shell,    *)
(* and a command that is not wrapped, just ends.  137 is an out-of-memory  *)
(* kill of the container.                                                  *)
BodyEnds ==
    /\ Running /\ call.main = "body" /\ call.cmd.ends
    /\ \E code \in {0, 1} \cup (IF Docker THEN {137} ELSE {}), leaves \in BOOLEAN :
        IF captures(code) /\ code # 137 /\ ~leaves
        THEN /\ call' = [call EXCEPT !.main = "cwd", !.code = code]
             /\ saved' = [saved EXCEPT !.cwd = 0]
             /\ kept' = [kept EXCEPT !.torn = FALSE]
        ELSE /\ call' = [call EXCEPT !.main = IF leaves \/ code = 137 THEN "left" ELSE "exited", !.code = code]
             /\ kept' = IF leaves \/ code = 137 THEN kept ELSE finished
             /\ UNCHANGED saved
    /\ UNCHANGED <<chain, box, last, lingering, proc>>

SaveCwd ==
    /\ Running /\ call.main = "cwd"
    /\ call' = [call EXCEPT !.main = "env"]
    /\ saved' = [cwd |-> call.n, env |-> 0]
    /\ UNCHANGED <<chain, box, last, kept, lingering, proc>>

SaveEnv ==
    /\ Running /\ call.main = "env"
    /\ call' = [call EXCEPT !.main = "exited"]
    /\ saved' = [saved EXCEPT !.env = call.n]
    /\ kept' = [kept EXCEPT !.by = call.n]
    /\ UNCHANGED <<chain, box, last, lingering, proc>>


(* Time: 1 is past the command's own budget, 2 past docker's grace.  An    *)
(* untimed command has neither.                                            *)
Deadline ==
    /\ Running /\ call.cmd.timed
    /\ call.clock < (IF Docker THEN 2 ELSE 1)
    /\ call' = [call EXCEPT !.clock = @ + 1]
    /\ UNCHANGED <<chain, box, last, saved, kept, lingering, proc>>

Cancel ==
    /\ Running /\ ~call.cut
    /\ call' = [call EXCEPT !.cut = TRUE]
    /\ UNCHANGED <<chain, box, last, saved, kept, lingering, proc>>

Kill(code) ==
    /\ call' = [call EXCEPT !.main = "killed", !.code = code]
    /\ kept' = [kept EXCEPT !.torn = @ \/ call.main \in {"cwd", "env"}]
    /\ UNCHANGED <<chain, box, last, saved, lingering, proc>>

(* The mutants' form: a command is killed for its caller, not its budget.  *)
KillLocal_onlyCancel == ~Docker /\ Running /\ Alive /\ call.cut /\ Kill(-1)

(* local: the context kills the command itself, never what it started.     *)
KillLocal ==
    /\ ~Docker /\ Running /\ Alive
    /\ call.clock = 1 \/ call.cut
    /\ Kill(-1)

(* docker: the in-container timeout kills the command; a context that      *)
(* ends kills the client only, and the command runs on in the container.   *)
KillInside ==
    /\ Docker /\ Running /\ Alive /\ call.clock >= 1
    /\ Kill(137)

KillClient ==
    /\ Docker /\ Running /\ call.client
    /\ call.clock = 2 \/ call.cut
    /\ call' = [call EXCEPT !.client = FALSE]
    /\ UNCHANGED <<chain, box, last, saved, kept, lingering, proc>>

(* The grandchild that holds the command's output ends by itself. *)
PipeCloses ==
    /\ Running /\ call.pipe /\ call.cmd.ends
    /\ call' = [call EXCEPT !.pipe = FALSE]
    /\ UNCHANGED <<chain, box, last, saved, kept, lingering, proc>>

(* local.Exec returns once the command is reaped and its output reached    *)
(* its end: TimedOut is whether the deadline has passed by then.  A caller *)
(* cancelled at the end of a success may see an error instead.             *)
ReturnLocal ==
    /\ ~Docker /\ Running /\ ~Alive /\ ~call.pipe
    /\ \E err \in (IF call.cut /\ call.clock = 0 /\ call.code = 0 THEN BOOLEAN ELSE {FALSE}) :
        Return([exit |-> call.code, timedOut |-> call.clock = 1, err |-> err])
    /\ lingering' = IF call.cmd.holds = "free" THEN lingering \cup {[n |-> call.n, saves |-> FALSE]} ELSE lingering
    /\ UNCHANGED <<chain, box, saved, kept, proc>>

(* docker.Exec returns when its client does: with the command's exit code, *)
(* or -1 and TimedOut when the client was killed.  An exit of 137 under a  *)
(* budget reads as a timeout.                                              *)
ReturnDocker ==
    /\ Docker /\ Running
    /\ ~call.client \/ ~Alive
    /\ LET exit == IF call.client THEN call.code ELSE -1 IN
       Return([exit |-> exit, err |-> FALSE,
               timedOut |-> call.clock = 2 \/ call.cut \/ (call.cmd.timed /\ exit = 137)])
    /\ kept' = [kept EXCEPT !.torn = @ \/ (Alive /\ Wrapped)]
    /\ lingering' = IF Alive \/ call.cmd.holds # "no"
               THEN lingering \cup {[n |-> call.n, saves |-> Alive /\ Wrapped]} ELSE lingering
    /\ UNCHANGED <<chain, box, saved, proc>>

(* What a returned command left behind ends: of itself, or, an orphan in   *)
(* the container, at its own in-container timeout.  An orphan that comes   *)
(* to its end still saves its state, over what later commands saved.       *)
LeftEnds ==
    \E o \in lingering :
        /\ lingering' = lingering \ {o}
        /\ \/ UNCHANGED <<saved, kept>>
           \/ /\ o.saves
              /\ saved' = [cwd |-> o.n, env |-> o.n]
              /\ kept' = [kept EXCEPT !.torn = TRUE]
        /\ UNCHANGED <<chain, box, call, last, proc>>

---------------------------------------------------------------------------
(* Long-lived processes (StartProcess, proc.Process).  Kill runs once,     *)
(* whoever calls it first: the driver, or the watcher of its context.      *)

(* local: the child leads its own process group and is tracked; docker:    *)
(* the wrapper will record its pid before it becomes the program.          *)
StartProcess(p) ==
    /\ Idle /\ proc[p].stage = "none" /\ chain.hosts
    /\ proc' = [proc EXCEPT ![p].stage = IF Docker THEN "wrapper" ELSE "program", ![p].client = Docker]
    /\ UNCHANGED <<chain, box, call, last, saved, kept, lingering>>

procWrapper(p) ==
    /\ proc[p].stage = "wrapper"
    /\ proc' = [proc EXCEPT ![p].stage = "program"]
    /\ UNCHANGED <<chain, box, call, last, saved, kept, lingering>>

ProgramExits(p) ==
    /\ proc[p].stage = "program"
    /\ proc' = [proc EXCEPT ![p].stage = "dead", ![p].client = FALSE]
    /\ UNCHANGED <<chain, box, call, last, saved, kept, lingering>>

(* local kill: end of input, then the whole group. *)
killGroup(q) == [q EXCEPT !.stage = "dead", !.kill = "done"]

(* docker kill, call by call: read the pid, which a failing client or a    *)
(* pidfile not yet written hides; signal it in the container, where the    *)
(* result of `docker exec kill` is discarded and may be a failure; kill    *)
(* the client.                                                             *)
readProcPid(p) ==
    /\ proc[p].stage # "none" /\ proc[p].kill = "no"
    /\ \E read \in (IF proc[p].stage = "wrapper" THEN {FALSE} ELSE BOOLEAN) :
        proc' = [proc EXCEPT ![p] = IF Docker THEN [@ EXCEPT !.kill = "read", !.pid = read] ELSE killGroup(@)]
    /\ UNCHANGED <<chain, box, call, last, saved, kept, lingering>>

signalProc(p) ==
    /\ proc[p].kill = "read"
    /\ \E signalled \in (IF proc[p].pid THEN BOOLEAN ELSE {FALSE}) :
        proc' = [proc EXCEPT ![p].kill = "signalled", ![p].stage = IF signalled THEN "dead" ELSE @]
    /\ UNCHANGED <<chain, box, call, last, saved, kept, lingering>>

killClient(p) ==
    /\ proc[p].kill = "signalled"
    /\ proc' = [proc EXCEPT ![p].kill = "done", ![p].client = FALSE]
    /\ UNCHANGED <<chain, box, call, last, saved, kept, lingering>>

KillProc(p) == box.life = "up" /\ (readProcPid(p) \/ signalProc(p) \/ killClient(p))

---------------------------------------------------------------------------
(* Closing: the session removes its state, then the backend goes.          *)

CloseSession ==
    /\ Idle
    /\ box' = [box EXCEPT !.life = "closing"]
    /\ saved' = [cwd |-> 0, env |-> 0]
    /\ UNCHANGED <<chain, call, last, kept, lingering, proc>>

Ended(q) == IF q.stage = "none" THEN q ELSE [q EXCEPT !.stage = "dead", !.client = FALSE]

(* The mutants' form: Close of the local backend has nothing to do.        *)
reaped_nothing == IF Docker THEN [p \in Procs |-> Ended(proc[p])] ELSE proc

(* local.Close kills what it tracks; a removed container ends all in it.   *)
reaped == [p \in Procs |-> Ended(proc[p])]

(* docker forgets the container's id first, so a removal that fails is     *)
(* reported once and never tried again.                                    *)
CloseBackend ==
    /\ box.life = "closing"
    /\ \/ /\ box' = [box EXCEPT !.life = "closed", !.closed = "ok", !.container = IF Docker THEN "gone" ELSE @]
          /\ proc' = reaped
          /\ lingering' = IF Docker THEN {} ELSE lingering
       \/ /\ Docker
          /\ box' = [box EXCEPT !.life = "closed", !.closed = "failed"]
          /\ UNCHANGED <<proc, lingering>>
    /\ UNCHANGED <<chain, call, last, saved, kept>>

---------------------------------------------------------------------------
ExecNext ==
    \/ \E c \in Commands, via \in {"tool", "verify"}, reply \in {"yes", "no", "none"} : Issue(via, c, reply)
    \/ CannotStart \/ BodyEnds \/ SaveCwd \/ SaveEnv \/ Deadline \/ Cancel
    \/ KillLocal \/ KillInside \/ KillClient \/ PipeCloses \/ ReturnLocal \/ ReturnDocker \/ LeftEnds

SandboxNext ==
    \/ Open \/ verifyRuntime
    \/ ExecNext
    \/ \E p \in Procs : StartProcess(p) \/ procWrapper(p) \/ ProgramExits(p) \/ KillProc(p)
    \/ CloseSession \/ CloseBackend

(* Time passes, the kernel and the container runtime deliver a kill, and   *)
(* Exec returns.  Nothing says that a command ends or a caller cancels.    *)
SandboxFairness ==
    /\ WF_xvars(Deadline) /\ WF_xvars(KillLocal) /\ WF_xvars(KillInside) /\ WF_xvars(KillClient)
    /\ WF_xvars(ReturnLocal) /\ WF_xvars(ReturnDocker)

SandboxSpec == SandboxInit /\ [][SandboxNext]_xvars /\ SandboxFairness

---------------------------------------------------------------------------
(* Properties.                                                             *)

SandboxTypeOK ==
    /\ chain \in Chains
    /\ box.life \in {"new", "verifying", "up", "refused", "closing", "closed"}
    /\ call.n \in 0..MaxCalls /\ call.clock \in 0..2
    /\ call.main \in {"none", "body", "cwd", "env", "exited", "left", "killed"}
    /\ last.exit \in {-2, -1, 0, 1, 126, 127, 137}
    /\ saved \in [cwd : 0..MaxCalls, env : 0..MaxCalls] /\ kept.by \in 0..MaxCalls
    /\ lingering \subseteq [n : 1..MaxCalls, saves : BOOLEAN]
    /\ \A p \in Procs : proc[p].stage \in {"none", "wrapper", "program", "dead"}

(* Behind a trust gate nothing runs that does more than its words name, by *)
(* shell syntax, quoting or a program's own flags; and behind a review     *)
(* gate no second command rides in on a trusted first one unless a human   *)
(* said yes: neither quoting nor the session's own wrapper, which sits     *)
(* below the gates, hides it from them (profile.Allows, AllowsExec,        *)
(* gated.DefaultPolicy).                                                   *)
NothingRunsUnasked ==
    /\ (Running /\ chain.trustGated) => ~doesMore(call.cmd)
    /\ (Running /\ chain.approve # "off" /\ runsSecond(call.cmd)) => call.phase = "approved"

(* sandbox/gated/gated.go:216-219 says of the lines DefaultPolicy allows   *)
(* unasked that they are read-only inspection, builds and tests, none of   *)
(* which mutates state outside the build cache, and :237-238 that anything *)
(* that can hide a second command is shown to the human.  A plain call is  *)
(* judged by its first words, and some of those programs run another or    *)
(* write files when a flag says so.                                        *)
PlainCommandsAreSafe ==
    (Running /\ chain.approve # "off" /\ doesMore(call.cmd)) => call.phase = "approved"

(* An open sandbox never advertises a kernel boundary its container does   *)
(* not have, whatever the daemon did with the runtime it was asked for     *)
(* (docker.New, verifyRuntime), and a refused one was opened to nobody.    *)
ClaimIsReal ==
    /\ (box.life = "up" /\ isolation = "kernel") => box.runs = "runsc"
    /\ box.life = "refused" => call.n = 0 /\ \A p \in Procs : proc[p].stage = "none"

(* A session command starts where the last one that ran to its end left    *)
(* off, whatever its exit code, and whatever gated, failed, timed-out or   *)
(* verification commands came between; only a command cut while it was     *)
(* saving, or an orphan saving late, can cost it that (session.Exec and    *)
(* its wrapper).                                                           *)
SessionResumes ==
    (Running /\ call.main = "body" /\ Wrapped /\ ~kept.torn) =>
        /\ call.at.env = kept.by
        /\ call.cmd.dir = "none" => call.at.cwd = kept.by

(* A result that reads as a clean success comes from a command that ended  *)
(* by itself with 0 before its deadline: no kill, no refusal and no        *)
(* command that never started is reported as one (local.Exec, docker.Exec, *)
(* gated.blocked).                                                         *)
SuccessIsReal ==
    [][(last' # last /\ last'.exit = 0 /\ ~last'.timedOut /\ ~last'.err) =>
            call.main \in {"exited", "left"} /\ call.code = 0]_xvars

(* After a Close that reported no error no long-lived process is alive,    *)
(* killed early, killed late, killed in vain or never, and no command of a *)
(* container is; and a local kill leaves its process group dead at once    *)
(* (local.Close, docker.Close, the kill closures).                         *)
CloseReaps ==
    /\ box.closed = "ok" =>
        /\ \A p \in Procs : proc[p].stage \in {"none", "dead"}
        /\ Docker => lingering = {}
    /\ \A p \in Procs : (~Docker /\ proc[p].kill = "done") => proc[p].stage = "dead"

(* sandbox/sandbox.go:294 says that Kill terminates the process, and       *)
(* sandbox/docker/process.go:94-96 that even a kill that found no pid is   *)
(* made good by the client kill and `rm -f`.  Neither reaches into the     *)
(* container: a kill that raced the pidfile, or whose `docker exec kill`   *)
(* failed, is over with the process still running, until the close.        *)
KillTerminates == \A p \in Procs : proc[p].kill = "done" => proc[p].stage = "dead"

(* A command with a timeout gives control back: always from the container  *)
(* backend, and from the local one unless something the command started    *)
(* holds its output open (local.Exec, docker.Exec).                        *)
CallsReturn ==
    (Running /\ call.cmd.timed /\ (Docker \/ ~call.pipe)) ~> ~Running

(* sandbox/sandbox.go:87 says of Command.Timeout that it bounds the run    *)
(* independently of the context, and that a runaway is the sandbox's to    *)
(* kill.  The local backend kills only the command itself and then waits   *)
(* for its output, so a background child that keeps the output open keeps  *)
(* the call, and the agent's loop, waiting for as long as it lives.        *)
TimeoutBoundsTheRun == (Running /\ call.cmd.timed) ~> ~Running
=============================================================================
