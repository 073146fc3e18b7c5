------------------------------ MODULE Headless ------------------------------
(***************************************************************************)
(* One headless run of the driver (headless/main.go, bestof.go, output.go, *)
(* review.go, trust.go, flags.go): the invocation's flags, the consent     *)
(* boundary and the posture it yields, the workspace decision, then either *)
(* one run or N attempts and their tournament, the patch collected from    *)
(* the worktree, the result on stdout, the review of the changes and the   *)
(* exit code.                                                              *)
(*                                                                         *)
(* The agent loop is its outcome and what it did to the worktree;          *)
(* ClosingGates and NativeLoop model it.  Providers, sandboxes, traces,    *)
(* skills and memory are the ways their set-up can fail.                   *)
(***************************************************************************)
EXTENDS Profile, Worktrees, Sequences

CONSTANTS
    Invocations,    \* the command lines and checkouts considered
    LoopOutcomes,   \* bound: the outcomes a loop may end with
    GitMayFail,     \* may git, the disk or an outside sweep fail a call?
    MaxSweeps       \* bound: worktrees deleted from outside in one run

(* A command line.  A flag that was not given is "unset" (or absent from   *)
(* overrides); dirty and inRepo describe the checkout it starts in.        *)
FlagFields == {"trust", "untrusted", "sandbox", "network", "runtime", "worktree", "profile",
               "overrides", "bestOf", "review", "action", "keep", "transcripts", "reviewer",
               "ladder", "inRepo", "dirty"}

(* A profile outside the registry is refused while the flags are parsed     *)
(* (profiles.go profileFromArgs), an unknown -review-action at the review   *)
(* flags (main.go validateReviewFlags): Parse and Ambient's set-up failure. *)
ASSUME InvocationsAssumption ==
    \A i \in Invocations :
        /\ DOMAIN i = FlagFields /\ i.bestOf \in Nat /\ i.dirty \in BOOLEAN
        /\ i.profile \in Profiles
        /\ i.action \in {"prompt", "commit", "discard", "keep"}

ASSUME EnvironmentAssumption == GitMayFail \in BOOLEAN /\ MaxSweeps \in Nat

VARIABLES
    inv,        \* the invocation
    hpc,        \* where the run is
    plan,       \* the trust plan, once consent was given
    spec,       \* the resolved specification the loop will run under
    worktreeOn, \* does the run work in a worktree?
    wt,         \* the worktrees made so far, one per attempt
    att,        \* best-of: the finished attempts, until one is chosen
    champ,      \* best-of: champion, next challenger and verdicts, until one is chosen
    result,     \* the chosen run result, as it will be reported
    patch,      \* the attempt whose diff is on disk as <id>.patch, 0 for none
    handled,    \* direct run: the worktree is no longer the deferred clean-up's
    decided,    \* what -review did with the changes
    out,        \* what stdout received: none, error or result
    ledger,     \* delegation ledger records appended
    exit        \* the exit code, or 99 while running

hvars == <<inv, hpc, plan, spec, worktreeOn, wt, att, champ, result, patch, handled, decided, out, ledger, exit>>

---------------------------------------------------------------------------
(* headless/flags.go: the tri-state -worktree flag; a profile whose        *)
(* worktree is "off" registers it as an explicit false.                    *)

worktreeSet(i) ==
    \/ i.worktree \in {"true", "false"}
    \/ i.worktree = "unset" /\ Declarations[i.profile].worktree = "off"
worktreeVal(i) == i.worktree = "true"
autoWorktree(i) == ~worktreeSet(i)

worktreeResolve(i) == IF worktreeSet(i) THEN worktreeVal(i) ELSE i.inRepo /\ ~i.review

(* Only flags the operator gave override the profile. *)
profileOverrides(i) ==
    [f \in DOMAIN i.overrides \cup (IF i.worktree = "unset" THEN {} ELSE {"worktree"}) |->
        IF f = "worktree" THEN i.worktree ELSE i.overrides[f]]

---------------------------------------------------------------------------
(* headless/trust.go.                                                      *)

(* -untrusted tightens whatever -trust named. *)
effectiveTrust(i) == IF i.untrusted = "on" THEN "untrusted" ELSE i.trust

(* Explicit settings that weaken the floor are refused by name. *)
Weakens(i, t) ==
    \/ t \in {"reviewed-local", "container", "untrusted"} /\ i.worktree = "false"
    \/ t \in {"container", "untrusted"} /\ (i.sandbox = "local" \/ i.network = "on")
    \/ t = "untrusted" /\ i.runtime = "runc"
    \/ t = "untrusted" /\ i.untrusted = "off"

(* The normalized posture: what the run will be given, whatever the flags. *)
planTrust(i) ==
    LET t        == effectiveTrust(i)
        contains == t \in {"container", "untrusted"}
    IN  [trust     |-> t,
         sandbox   |-> IF contains \/ i.sandbox = "docker" THEN "docker" ELSE "local",
         runtime   |-> IF t = "untrusted" \/ i.runtime = "runsc" THEN "runsc" ELSE "runc",
         network   |-> ~contains /\ i.network = "on",
         forceWorktree |-> t # "trusted-local",
         isolation |-> CASE t = "untrusted" -> "kernel" [] t = "container" -> "process" [] OTHER -> "none",
         gated     |-> t \in {"reviewed-local", "untrusted"},
         secrets   |-> CASE t = "untrusted" -> "none" [] t = "trusted-local" -> "ambient" [] OTHER -> "allowlist"]

postureForPlan(p) ==
    Posture(IF p.sandbox = "docker" THEN "container" ELSE "local",
            p.isolation,
            IF p.forceWorktree THEN "required" ELSE "auto",
            IF p.gated THEN "policy-gated" ELSE "none",
            p.secrets,
            IF p.sandbox = "docker" /\ ~p.network THEN "off" ELSE "unrestricted")

(* headless/configbuild.go: the request names the trust the operator       *)
(* selected and carries the plan's isolation.                              *)
buildBaseRequest(i, p) ==
    Request(i.trust, i.profile, profileOverrides(i), IF p.isolation = "none" THEN "" ELSE p.isolation, 0)

---------------------------------------------------------------------------
(* headless/output.go.                                                     *)

exitCodeFor(o) ==
    CASE o = "answered"        -> 0
      [] o = "unverified"      -> 2
      [] o \in {"hit_cap", "hit_deadline", "hit_context_limit", "hit_budget"} -> 3
      [] o \in {"killed_repeat", "killed_spiral", "killed_stagnant"}          -> 4
      [] o = "provider_error"  -> 5
      [] o = "refused_unsafe"  -> 6
      [] o = "canceled"        -> 7
      [] o = "scope_violation" -> 8
      [] OTHER                 -> 1

NoResult == [outcome |-> "", of |-> 0, patchPath |-> FALSE, worktreePath |-> FALSE, patchError |-> FALSE]

(* A collected result: the exit code is the outcome's unless the patch     *)
(* could not be written.                                                   *)
buildResult(r) == IF r.patchError THEN 1 ELSE exitCodeFor(r.outcome)

(* Set-up errors end the run with a cli_error object, a ledger record and  *)
(* exit 1; the deferred clean-up still runs.                               *)
failSetup ==
    /\ out' = "error" /\ exit' = 1 /\ ledger' = ledger + 1
    /\ hpc' = "cleanup"

---------------------------------------------------------------------------
(* Set-up, in the order of runMainWithInvocationExtras.                    *)

HeadlessInit ==
    /\ inv \in Invocations
    /\ hpc = "parse" /\ plan = <<>> /\ spec = <<>> /\ worktreeOn = FALSE
    /\ wt = <<>> /\ att = <<>> /\ champ = <<>> /\ result = NoResult
    /\ patch = 0 /\ handled = FALSE /\ decided = "none"
    /\ out = "none" /\ ledger = 0 /\ exit = 99

runVars == <<wt, att, champ, result, patch, handled, decided>>

(* A flag error is exit 2 on stderr only; an unknown format is exit 1, also *)
(* on stderr only, because there is no format to answer in.                 *)
Parse ==
    /\ hpc = "parse"
    /\ \/ /\ hpc' = "consent" /\ UNCHANGED <<out, ledger, exit>>
       \/ \E code \in {1, 2} : exit' = code /\ hpc' = "done" /\ UNCHANGED <<out, ledger>>
       \/ failSetup
    /\ UNCHANGED <<inv, plan, spec, worktreeOn, runVars>>

(* The consent boundary: trust, the profile's required trust, the plan and  *)
(* its floor, then the profile's resolution under the plan's floor.         *)
Consent ==
    /\ hpc = "consent"
    /\ LET t == effectiveTrust(inv)
           p == planTrust(inv)
           n == ProfileResolve(FloorFor(t), inv.profile, profileOverrides(inv))
       IN  IF /\ inv.trust \in Trusts /\ RequireTrust(inv.profile, inv.trust)
              /\ ~Weakens(inv, t) /\ Enforce(t, postureForPlan(p)) /\ n.error = ""
           THEN plan' = p /\ hpc' = "ambient" /\ UNCHANGED <<out, ledger, exit>>
           ELSE failSetup /\ UNCHANGED plan
    /\ UNCHANGED <<inv, spec, worktreeOn, runVars>>

(* The environment, the trace, the task, the review flags, the ladder file  *)
(* and the provider handles: any of them may be missing or malformed.  A    *)
(* ladder and a best-of are incompatible.                                   *)
Ambient ==
    /\ hpc = "ambient"
    /\ \/ ~(inv.ladder /\ inv.bestOf >= 2) /\ hpc' = "workspace" /\ UNCHANGED <<out, ledger, exit>>
       \/ failSetup
    /\ UNCHANGED <<inv, plan, spec, worktreeOn, runVars>>

(* The plan's worktree requirement beats the flag's resolution. *)
worktreeWanted(i, p) == p.forceWorktree \/ worktreeResolve(i)

(* The workspace decision.  The trust plan forces a worktree; a ladder,     *)
(* which banks no patch, turns an automatic one off again.  A best-of run   *)
(* makes its own worktrees and needs a repository.                          *)
Workspace ==
    /\ hpc = "workspace"
    /\ LET on == worktreeWanted(inv, plan)
       IN  IF \/ plan.forceWorktree /\ ~inv.inRepo
              \/ inv.ladder /\ on /\ ~autoWorktree(inv)
              \/ inv.bestOf = 0
              \/ inv.bestOf >= 2 /\ ~inv.inRepo
           THEN failSetup /\ UNCHANGED worktreeOn
           ELSE /\ worktreeOn' = (on /\ ~inv.ladder)
                /\ \/ hpc' = (CASE inv.bestOf >= 2 -> "attempt"
                                [] inv.bestOf < 2 /\ worktreeOn' -> "worktree"
                                [] OTHER -> "prepare") /\ UNCHANGED <<out, ledger, exit>>
                   \/ failSetup      \* no selector model, or no terminal to review on
    /\ handled' = TRUE
    /\ UNCHANGED <<inv, plan, spec, wt, att, champ, result, patch, decided>>

(* The deferred removal is registered only after a successful add. *)
AddWorktree ==
    /\ hpc = "worktree"
    /\ \E r \in AddResults(inv.dirty) :
          /\ r.error => GitMayFail
          /\ wt' = IF r.created THEN Append(wt, r.worktree) ELSE wt
          /\ IF r.error THEN failSetup /\ UNCHANGED handled
             ELSE hpc' = "prepare" /\ handled' = FALSE /\ UNCHANGED <<out, ledger, exit>>
    /\ UNCHANGED <<inv, plan, spec, worktreeOn, att, champ, result, patch, decided>>

(* Sandbox, session, approval chain, skills, memory, and agent.Prepare.     *)
(* A review of the working tree itself wants it clean first.                *)
Prepare ==
    /\ hpc = "prepare"
    /\ LET s == SpecResolve(buildBaseRequest(inv, plan))
       IN  \/ /\ (s.ok \/ inv.ladder) /\ (inv.review => worktreeOn \/ (inv.inRepo /\ ~inv.dirty))
              /\ spec' = s.policy
              /\ hpc' = (IF inv.ladder THEN "ladder" ELSE "loop") /\ UNCHANGED <<out, ledger, exit>>
           \/ failSetup /\ UNCHANGED spec
    /\ UNCHANGED <<inv, plan, worktreeOn, runVars>>

---------------------------------------------------------------------------
(* One run.                                                                *)

(* What a loop may leave: edits, commits of its own (nothing keeps the      *)
(* agent from running git commit), both or neither; a run refused before    *)
(* its first model call has touched nothing.                                *)
Leaves(w, o, edited, commits) ==
    IF o = "refused_unsafe" \/ w.dir # "live" THEN w
    ELSE [w EXCEPT !.edited = edited, !.commits = commits]

Loop ==
    /\ hpc = "loop"
    /\ \/ failSetup /\ UNCHANGED <<wt, result>>      \* a SetupError before the first turn
       \/ \E o \in LoopOutcomes, edited \in BOOLEAN, commits \in BOOLEAN :
             /\ wt' = IF worktreeOn THEN [wt EXCEPT ![1] = Leaves(@, o, edited, commits)] ELSE wt
             /\ result' = [NoResult EXCEPT !.outcome = o, !.of = IF worktreeOn THEN 1 ELSE 0]
             /\ hpc' = "collect" /\ UNCHANGED <<out, ledger, exit>>
    /\ UNCHANGED <<inv, plan, spec, worktreeOn, att, champ, patch, handled, decided>>

(* The ladder edits the working tree and returns before any collection. *)
Ladder ==
    /\ hpc = "ladder"
    /\ \/ failSetup /\ UNCHANGED result
       \/ \E o \in LoopOutcomes :
             /\ result' = [NoResult EXCEPT !.outcome = o]
             /\ out' = "result" /\ ledger' = ledger + 1 /\ exit' = exitCodeFor(o)
             /\ hpc' = "cleanup"
    /\ UNCHANGED <<inv, plan, spec, worktreeOn, wt, att, champ, patch, handled, decided>>

(* Something outside (a sweep of /tmp) deletes a live worktree.             *)
Sweep ==
    /\ GitMayFail /\ hpc \in {"loop", "collect", "review", "attempt", "select", "winner"}
    /\ Cardinality({i \in DOMAIN wt : wt[i].dir = "swept"}) < MaxSweeps
    /\ \E i \in DOMAIN wt : wt[i].dir = "live" /\ wt' = [wt EXCEPT ![i].dir = "swept"]
    /\ UNCHANGED <<inv, hpc, plan, spec, worktreeOn, att, champ, result, patch, handled, decided, out, ledger, exit>>

---------------------------------------------------------------------------
(* The tournament of headless/bestof.go.                                   *)

attemptStructuralRank(a) ==
    CASE ~a.nonEmpty             -> 3
      [] a.nonEmpty /\ a.outcome = "answered" -> 0
      [] a.nonEmpty /\ a.outcome = "hit_cap"  -> 1
      [] OTHER                   -> 2

(* The structurally better of two attempts, the earlier one on a tie. *)
selectBestByStructure(i, j) ==
    IF \/ attemptStructuralRank(att[j]) < attemptStructuralRank(att[i])
       \/ attemptStructuralRank(att[j]) = attemptStructuralRank(att[i]) /\ j < i
    THEN j ELSE i

Candidates == {i \in DOMAIN att : att[i].nonEmpty}

(* Two rounds with the labels swapped: A then B names the first patch       *)
(* twice, B then A the second; anything else, or an error, is no verdict.   *)
Picks == {"A", "B", "error"}
Consistent_sameLabel(p1, p2) == "error" \notin {p1, p2} /\ p1 = p2
Consistent(p1, p2) == "error" \notin {p1, p2} /\ p1 # p2

runComparison(i, j, p1, p2) ==
    [pair |-> {i, j}, first |-> i, second |-> j, consistent |-> Consistent(p1, p2), picks |-> <<p1, p2>>,
     winner |-> IF Consistent(p1, p2) THEN (IF p1 = "A" THEN i ELSE j)
                ELSE selectBestByStructure(i, j)]

(* The later candidates challenge in index order. *)
NextChallenger(c) ==
    LET rest == {i \in Candidates : i > c} IN IF rest = {} THEN 0 ELSE CHOOSE i \in rest : \A j \in rest : i <= j

Choose(w) ==
    /\ result' = [NoResult EXCEPT !.outcome = att[w].outcome, !.of = w]
    /\ hpc' = "losers"

(* No patch at all degrades to the last attempt; a single one wins.        *)
StartSelection ==
    /\ hpc = "select"
    /\ IF Candidates = {} THEN Choose(Len(att)) /\ UNCHANGED champ
       ELSE LET first == NextChallenger(0)
            IN  IF NextChallenger(first) = 0 THEN Choose(first) /\ UNCHANGED champ
                ELSE /\ champ' = [at |-> first, next |-> NextChallenger(first), verdicts |-> <<>>]
                     /\ hpc' = "compare" /\ UNCHANGED result
    /\ UNCHANGED <<inv, plan, spec, worktreeOn, wt, att, patch, handled, decided, out, ledger, exit>>

Compare ==
    /\ hpc = "compare"
    /\ \E p1, p2 \in Picks :
          LET v == runComparison(champ.at, champ.next, p1, p2)
              n == NextChallenger(champ.next)
          IN  /\ champ' = [at |-> v.winner, next |-> n, verdicts |-> Append(champ.verdicts, v)]
              /\ IF n = 0 THEN Choose(v.winner) ELSE UNCHANGED <<hpc, result>>
    /\ UNCHANGED <<inv, plan, spec, worktreeOn, wt, att, patch, handled, decided, out, ledger, exit>>

---------------------------------------------------------------------------
(* runBestOfCLI.                                                           *)

Attempt ==
    /\ hpc = "attempt"
    /\ \E r \in AddResults(inv.dirty) :
          /\ r.error => GitMayFail
          /\ wt' = IF r.created THEN Append(wt, r.worktree) ELSE wt
          /\ IF r.error THEN failSetup ELSE hpc' = "solve" /\ UNCHANGED <<out, ledger, exit>>
    /\ UNCHANGED <<inv, plan, spec, worktreeOn, att, champ, result, patch, handled, decided>>

(* An attempt runs without the reviewer; its patch is the text of its diff. *)
(* A sandbox or configuration that cannot be built is a provider_error that *)
(* touched nothing.                                                         *)
Solve ==
    /\ hpc = "solve"
    /\ LET i == Len(wt) IN
       \E o \in LoopOutcomes, edited \in BOOLEAN, commits \in BOOLEAN :
          LET w == Leaves(wt[i], o, edited, commits)
              built == SpecResolve(buildBaseRequest(inv, plan)).ok
          IN  \E d \in DiffResults(w, GitMayFail) :
                /\ built \/ (o = "provider_error" /\ ~edited /\ ~commits)
                /\ wt' = [wt EXCEPT ![i] = w]
                /\ att' = Append(att, [outcome |-> o, nonEmpty |-> d])
                /\ hpc' = IF i = inv.bestOf THEN "select" ELSE "attempt"
    /\ UNCHANGED <<inv, plan, spec, worktreeOn, champ, result, patch, handled, decided, out, ledger, exit>>

(* The losers' worktrees go; a removal that fails is only logged. *)
RemoveLosers ==
    /\ hpc = "losers"
    /\ \E stuck \in SUBSET (DOMAIN wt \ {result.of}) :
          /\ stuck # {} => GitMayFail
          /\ wt' = [i \in DOMAIN wt |-> IF i = result.of \/ i \in stuck \/ wt[i].dir # "live" THEN wt[i]
                                        ELSE [wt[i] EXCEPT !.dir = "removed"]]
    /\ hpc' = "winner" /\ att' = <<>> /\ champ' = <<>>
    /\ UNCHANGED <<inv, plan, spec, worktreeOn, result, patch, handled, decided, out, ledger, exit>>

(* The review gate on the winner alone, with repair runs.  Its verdict can  *)
(* demote the result, and a sandbox that cannot be rebuilt makes it a        *)
(* provider_error; a repair run replaces it; a repair run that ends in an    *)
(* error returns exit 1 from here, before anything is emitted.               *)
WinnerReview ==
    /\ hpc = "winner"
    /\ LET w == wt[result.of]
           Skip     == UNCHANGED <<wt, result>> /\ hpc' = "collect" /\ UNCHANGED exit
           Judged   == \E o \in {result.outcome, "unverified", "provider_error"} :
                          result' = [result EXCEPT !.outcome = o] /\ hpc' = "collect" /\ UNCHANGED <<wt, exit>>
           Repaired == \E o \in LoopOutcomes \ {"provider_error"}, edited \in BOOLEAN, commits \in BOOLEAN :
                          /\ result' = [result EXCEPT !.outcome = o]
                          /\ wt' = [wt EXCEPT ![result.of] = Leaves(w, o, edited, commits)]
                          /\ hpc' = "collect" /\ UNCHANGED exit
           Failed   == exit' = 1 /\ hpc' = "cleanup" /\ UNCHANGED <<wt, result>>
       IN  IF inv.reviewer /\ result.outcome # "refused_unsafe"
           THEN Skip \/ (w.dir = "live" /\ (Judged \/ Repaired \/ Failed))
           ELSE Skip
    /\ UNCHANGED <<inv, plan, spec, worktreeOn, att, champ, patch, handled, decided, out, ledger>>

---------------------------------------------------------------------------
(* Collecting the patch, the result, the review of the changes.            *)

(* A banked patch replaces its worktree unless someone still wants it.     *)
shouldRemovePatchedWorktree == ~inv.review /\ ~inv.keep

TryRemove(i, r) ==
    \E x \in RemoveResults(wt[i], GitMayFail) :
        /\ wt' = [wt EXCEPT ![i] = x.worktree]
        /\ result' = [r EXCEPT !.worktreePath = x.error]

(* Only a diff that was computed and is empty makes a worktree disposable. *)
IsClean_ignoresError(c) == ~c.changed
IsClean(c) == ~c.error /\ ~c.changed

TakesOver_forgets(i) == UNCHANGED handled
TakesOver(i) == handled' = TRUE

(* With transcripts off there is nowhere to write a patch: the worktree is  *)
(* kept.  A collection error keeps it too and forces exit 1; a banked patch *)
(* lets it go unless a review or -keep-worktree still wants it.             *)
Collect ==
    /\ hpc = "collect"
    /\ hpc' = "emit"
    /\ LET i == result.of
           kept == [result EXCEPT !.worktreePath = TRUE]
       IN  \/ i = 0 /\ UNCHANGED <<wt, result, patch, handled>>
           \/ /\ i # 0 /\ TakesOver(i)
              /\ \/ ~inv.transcripts /\ result' = kept /\ UNCHANGED <<wt, patch>>
                 \/ /\ inv.transcripts
                    /\ \E c \in CollectResults(wt[i], GitMayFail) :
                       \/ /\ c.error /\ result' = [kept EXCEPT !.patchError = TRUE] /\ UNCHANGED <<wt, patch>>
                       \/ /\ ~c.error /\ c.changed /\ patch' = i
                          /\ IF shouldRemovePatchedWorktree THEN TryRemove(i, [result EXCEPT !.patchPath = TRUE])
                             ELSE result' = [kept EXCEPT !.patchPath = TRUE] /\ UNCHANGED wt
                       \/ /\ IsClean(c) /\ UNCHANGED patch
                          /\ IF inv.review /\ result.outcome # "refused_unsafe"
                             THEN result' = kept /\ UNCHANGED wt
                             ELSE TryRemove(i, result)
    /\ UNCHANGED <<inv, plan, spec, worktreeOn, att, champ, decided, out, ledger, exit>>

Reviews == inv.review /\ result.outcome # "refused_unsafe"

(* finalize: the one sink of a finished run. *)
Emit ==
    /\ hpc = "emit"
    /\ out' = "result" /\ ledger' = ledger + 1 /\ exit' = buildResult(result)
    /\ hpc' = IF Reviews THEN "review" ELSE "cleanup"
    /\ UNCHANGED <<inv, plan, spec, worktreeOn, runVars>>

(* A clean worktree kept only for the review. *)
reviewOnly == result.of # 0 /\ inv.transcripts /\ ~result.patchPath /\ ~result.patchError

Decisions == IF inv.action = "prompt" THEN {"commit", "discard", "keep"} ELSE {inv.action}

(* A commit of the review moves the edits to the worktree's HEAD, a discard *)
(* throws them away.                                                        *)
Acted(w, d) ==
    CASE d = "commit"  -> [w EXCEPT !.edited = FALSE, !.commits = TRUE]
      [] d = "discard" -> [w EXCEPT !.edited = FALSE]
      [] OTHER         -> w

(* reviewChanges: stage, diff, act.  A git failure overrides the exit code. *)
Review ==
    /\ hpc = "review"
    /\ \/ /\ (GitMayFail \/ (result.of # 0 /\ wt[result.of].dir # "live"))
          /\ exit' = 1 /\ hpc' = "cleanup" /\ UNCHANGED <<wt, decided>>
       \/ /\ result.of # 0 => wt[result.of].dir = "live"
          /\ \/ (result.of # 0 => ~wt[result.of].edited) /\ decided' = "nothing" /\ UNCHANGED wt
             \/ \E d \in Decisions :
                   /\ decided' = d
                   /\ result.of # 0 => wt[result.of].edited
                   /\ wt' = IF result.of # 0 THEN [wt EXCEPT ![result.of] = Acted(@, d)] ELSE wt
          /\ hpc' = IF reviewOnly THEN "postreview" ELSE "cleanup"
          /\ UNCHANGED exit
    /\ UNCHANGED <<inv, plan, spec, worktreeOn, att, champ, result, patch, handled, out, ledger>>

PostReview ==
    /\ hpc = "postreview"
    /\ \E c \in CollectResults(wt[result.of], GitMayFail) :
          IF ~IsClean(c) THEN UNCHANGED wt
          ELSE \E x \in RemoveResults(wt[result.of], GitMayFail) : wt' = [wt EXCEPT ![result.of] = x.worktree]
    /\ hpc' = "cleanup"
    /\ UNCHANGED <<inv, plan, spec, worktreeOn, att, champ, result, patch, handled, decided, out, ledger, exit>>

(* The deferred removal of a worktree nobody handled. *)
Cleanup ==
    /\ hpc = "cleanup" /\ hpc' = "done"
    /\ IF handled \/ wt = <<>> THEN UNCHANGED wt
       ELSE \E x \in RemoveResults(wt[1], GitMayFail) : wt' = [wt EXCEPT ![1] = x.worktree]
    /\ UNCHANGED <<inv, plan, spec, worktreeOn, att, champ, result, patch, handled, decided, out, ledger, exit>>

HeadlessNext ==
    \/ Parse \/ Consent \/ Ambient \/ Workspace \/ AddWorktree \/ Prepare
    \/ Loop \/ Ladder \/ Sweep
    \/ Attempt \/ Solve \/ StartSelection \/ Compare \/ RemoveLosers \/ WinnerReview
    \/ Collect \/ Emit \/ Review \/ PostReview \/ Cleanup

HeadlessSpec == HeadlessInit /\ [][HeadlessNext]_hvars

---------------------------------------------------------------------------
(* Properties.                                                             *)

(* The variables keep their types; a finished run has an exit code of the   *)
(* documented table, and stdout and the ledger got one entry or none        *)
(* (output.go exitCodeFor, main.go finalize).                               *)
HeadlessTypeOK ==
    /\ hpc \in {"parse", "consent", "ambient", "workspace", "worktree", "prepare", "loop", "ladder", "attempt", "solve",
                "select", "compare", "losers", "winner", "collect", "emit", "review", "postreview", "cleanup", "done"}
    /\ worktreeOn \in BOOLEAN /\ handled \in BOOLEAN
    /\ \A i \in DOMAIN wt : wt[i] \in Worktree
    /\ Len(att) <= inv.bestOf /\ result.of \in 0..Len(wt) /\ patch \in {0, result.of}
    /\ decided \in {"none", "nothing", "commit", "discard", "keep"}
    /\ exit \in 0..8 \cup {99} /\ (hpc = "done" => exit # 99)
    /\ ledger = (IF out = "none" THEN 0 ELSE 1)

(* No step of the driver deletes a worktree that holds the agent's edits    *)
(* unless they are on disk as the run's patch or lost the tournament, and   *)
(* none deletes one that holds commits, except at a collection, which       *)
(* takes a committed worktree for a clean one (see CommittedIsReported):    *)
(* not the deferred clean-up of a failed set-up, not the clean removal      *)
(* after a collection error, not the removal after a review that committed  *)
(* (main.go).                                                               *)
WorkIsNeverDropped ==
    [][\A i \in DOMAIN wt :
          wt[i].dir = "live" /\ wt'[i].dir = "removed"
             => \/ hpc = "losers" /\ i # result.of
                \/ /\ wt[i].edited => patch' = i
                   /\ wt[i].commits => hpc \in {"collect", "postreview"} /\ decided # "commit"]_hvars

(* When a run has reported, its edits can be found from the report: as the  *)
(* patch it names, or in the worktree it names, which is still there unless *)
(* someone else swept it.  So can its commits, wherever no diff was taken,  *)
(* the diff failed, or it is the review that committed; and a run whose     *)
(* work could not be collected does not exit 0 (main.go, output.go).        *)
DeliveredIsReported ==
    hpc = "done" /\ out = "result" /\ result.of # 0 =>
        LET w    == wt[result.of]
            kept == result.worktreePath /\ w.dir # "removed"
        IN  /\ w.edited => kept \/ (result.patchPath /\ patch = result.of)
            /\ w.commits /\ (decided = "commit" \/ ~inv.transcripts \/ result.patchError) => kept
            /\ result.patchError => exit = 1
            /\ exit = 0 => result.outcome = "answered"

(* Of -worktree the CLI says "any resulting diff is written next to the     *)
(* transcript as <run-id>.patch" (flags.go), and the specification that     *)
(* patch_path is null when "there were no changes" (CLI-SCRIPTABLE.md).     *)
(* Taken at their word, what the agent committed in its worktree is         *)
(* reported too.  The diff is against the worktree's own HEAD, so committed *)
(* work reads as no change, and the clean worktree goes with it.            *)
CommittedIsReported ==
    hpc = "done" /\ out = "result" /\ result.of # 0 /\ wt[result.of].commits =>
        result.worktreePath /\ wt[result.of].dir # "removed"

(* The tournament is a knockout over the attempts that have a patch: the    *)
(* winner has one if any attempt has, every other candidate was the loser   *)
(* of exactly one comparison and the winner of none after it, a comparison  *)
(* counts only when both rounds chose the same patch under opposite labels, *)
(* and with no such comparison the winner is the structurally best attempt, *)
(* earliest first (bestof.go selectBestOf, runComparison).                  *)
KnockoutIsSound ==
    champ # <<>> /\ hpc = "losers" =>
        LET V        == champ.verdicts
            losses(i) == {n \in DOMAIN V : i \in V[n].pair /\ V[n].winner # i}
            rank(i)  == attemptStructuralRank(att[i])
        IN  /\ result.of \in Candidates /\ losses(result.of) = {}
            /\ \A i \in Candidates \ {result.of} :
                  \E n \in DOMAIN V : losses(i) = {n} /\ \A m \in DOMAIN V : m > n => i \notin V[m].pair
            /\ \A n \in DOMAIN V : V[n].consistent =>
                  V[n].winner = (IF V[n].picks = <<"A", "B">> THEN V[n].first ELSE V[n].second)
            /\ (\A n \in DOMAIN V : V[n].picks[1] = V[n].picks[2] \/ "error" \in {V[n].picks[1], V[n].picks[2]}) =>
                  \A i \in Candidates :
                     rank(result.of) < rank(i) \/ (rank(result.of) = rank(i) /\ result.of <= i)

(* The floor of a headless run: every trust but trusted-local demands a     *)
(* worktree (trust.go ForceWorktree).                                       *)
HeadlessFloor(t) == [FloorFor(t) EXCEPT !.worktree = IF t = "trusted-local" THEN @ ELSE "required"]

(* The posture a run has: the plan's, with a worktree only where one was    *)
(* made.                                                                    *)
ActualPosture == [postureForPlan(plan) EXCEPT !.worktree = IF wt # <<>> THEN "required" ELSE "auto"]

(* Nothing the operator combined with -trust brings a run to its loop below *)
(* the floor of the trust it runs under: the posture it gets meets every    *)
(* dimension, its worktree included, in a direct run and in an attempt of a *)
(* tournament, and every dimension but the worktree in a ladder run (see    *)
(* LadderMeetsFloor) (main.go, trust.go, posture.go).                       *)
RunMeetsFloor ==
    hpc \in {"loop", "solve", "ladder"} =>
        /\ \A d \in Dimensions \ (IF hpc = "ladder" THEN {"worktree"} ELSE {}) :
              Satisfies(d, ActualPosture, HeadlessFloor(plan.trust))
        /\ hpc = "loop" => RankIn("isolation", spec.isolation) >= RankIn("isolation", FloorFor(plan.trust).isolation)

(* The worktree is a floor field which "execution profiles and CLI flags    *)
(* may only tighten", "Weakening = hard startup error", and headless        *)
(* demands one for every trust but trusted-local (PROFILES.md).  A ladder   *)
(* run turns the worktree off that the trust plan forced, and starts.       *)
LadderMeetsFloor ==
    hpc = "ladder" => Satisfies("worktree", ActualPosture, HeadlessFloor(plan.trust))

(* A flag the operator gave is what the loop runs with, a zero, FALSE or    *)
(* the profile's own default included; a flag left out leaves the           *)
(* profile's value, unless trust raised it or it is the zero that the       *)
(* defaults fill (resolve.go, runspec.go).                                  *)
FlagsAreFinal ==
    hpc = "loop" =>
        LET given == profileOverrides(inv)
        IN  \A f \in Fields :
              IF f \in DOMAIN given
              THEN \/ spec.values[f] = given[f]
                   \/ f = "nav_spiral_window" /\ given[f] = 0
              ELSE \/ spec.values[f] = Declarations[inv.profile][f]
                   \/ f = "worktree" /\ spec.values[f] = "required"
                   \/ f = "max_iters" /\ Declarations[inv.profile][f] = 0

(* The loop a run gets is the one the operator asked for, and never a       *)
(* weaker one than the trust demands, by whatever flag or profile; a ladder *)
(* run keeps all of it but the worktree.                                    *)
SetupIsHonoured == RunMeetsFloor /\ FlagsAreFinal
=============================================================================
