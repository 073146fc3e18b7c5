------------------------------ MODULE Profile ------------------------------
(***************************************************************************)
(* How a run's configuration is resolved: the trust floors and their       *)
(* partial orders (profile/posture.go, profile/profile.go), the execution  *)
(* profiles and the merge of declarations, flags and floor                 *)
(* (profile/exec.go, profile/resolve.go), and the request resolution of    *)
(* runspec/runspec.go.  Pure operators, no state: Headless calls them.     *)
(*                                                                         *)
(* Of the nineteen profile fields the model keeps those with a rule of     *)
(* their own: max_iters (a zero is filled), worktree (raised by the        *)
(* floor), memory (a boolean flag that can be set to FALSE), run_timeout   *)
(* (which the verify timeout follows, in minutes) and nav_spiral_window    *)
(* (with an alias).                                                        *)
(***************************************************************************)
EXTENDS Naturals, FiniteSets

---------------------------------------------------------------------------
(* profile/posture.go: six dimensions, each with its own order.            *)

Trusts == {"trusted-local", "reviewed-local", "container", "untrusted"}

(* The ordered dimensions, weakest first; approval is a partial order.     *)
Ladders == [sandbox   |-> <<"local", "container">>,
            isolation |-> <<"none", "process", "kernel">>,
            worktree  |-> <<"auto", "required">>,
            secrets   |-> <<"ambient", "allowlist", "none">>,
            network   |-> <<"unrestricted", "allowlisted", "off">>]

Dimensions == DOMAIN Ladders \cup {"approval"}

RankIn(d, v) == CHOOSE i \in DOMAIN Ladders[d] : Ladders[d][i] = v

ApprovalSatisfies(a, floor) ==
    \/ a = "deny-all" \/ floor = "none"
    \/ floor = "required" /\ a \in {"required", "interactive", "policy-gated"}
    \/ floor \in {"interactive", "policy-gated"} /\ a = floor

Satisfies(d, candidate, floor) ==
    IF d = "approval" THEN ApprovalSatisfies(candidate.approval, floor.approval)
    ELSE RankIn(d, candidate[d]) >= RankIn(d, floor[d])

Posture(sandbox, isolation, worktree, approval, secrets, network) ==
    [sandbox |-> sandbox, isolation |-> isolation, worktree |-> worktree,
     approval |-> approval, secrets |-> secrets, network |-> network]

FloorFor(t) ==
    CASE t = "trusted-local"  -> Posture("local", "none", "auto", "none", "ambient", "unrestricted")
      [] t = "reviewed-local" -> Posture("local", "none", "auto", "required", "allowlist", "unrestricted")
      [] t = "container"      -> Posture("container", "process", "required", "none", "allowlist", "off")
      [] t = "untrusted"      -> Posture("container", "process", "required", "policy-gated", "none", "off")

Enforce(t, candidate) == \A d \in Dimensions : Satisfies(d, candidate, FloorFor(t))

---------------------------------------------------------------------------
(* profile/exec.go: the closed registry.                                   *)

Declare(maxIters, worktree, memory, stance) ==
    [max_iters |-> maxIters, worktree |-> worktree, memory |-> memory,
     run_timeout |-> 1, nav_spiral_window |-> 4, stance |-> stance]

Declarations ==
    [p \in {"coding-v1", "coding-v2", "interactive-v1", "interactive-v2", "observe-v1", "eval-swe-v1"} |->
        CASE p \in {"coding-v1", "coding-v2", "observe-v1"} -> Declare(40, "auto", TRUE, "default")
          [] p \in {"interactive-v1", "interactive-v2"}     -> Declare(0, "off", TRUE, "default")
          [] p = "eval-swe-v1"                              -> Declare(30, "off", FALSE, "demand")]

Profiles == DOMAIN Declarations
Fields   == {"max_iters", "worktree", "memory", "run_timeout", "nav_spiral_window"}

(* No shipped profile declares a required trust. *)
RequiredTrust(e) == ""

RequireTrust(e, selected) ==
    \/ RequiredTrust(e) = ""
    \/ \A d \in Dimensions : Satisfies(d, FloorFor(selected), FloorFor(RequiredTrust(e)))

---------------------------------------------------------------------------
(* profile/resolve.go.  ov is a function whose domain is the set of flags  *)
(* the operator gave: presence, not value, decides.                        *)

(* Only the word "required" counts as a required worktree. *)
worktreeValue(s) == IF s = "required" THEN "required" ELSE "auto"

(* The mutants' form: a flag given its zero value reads as not given.      *)
Merged_byValue(e, ov) ==
    LET unset(f, v) == CASE f = "memory" -> ~v [] f = "worktree" -> FALSE [] OTHER -> v = 0
    IN  [f \in Fields |-> IF f \in DOMAIN ov /\ ~unset(f, ov[f]) THEN ov[f] ELSE Declarations[e][f]]

Merged(e, ov) ==
    [f \in Fields |-> IF f \in DOMAIN ov THEN ov[f] ELSE Declarations[e][f]]

(* The result: ok or the refusing layer, the values, and each value's source. *)
ProfileResolve(floor, e, ov) ==
    LET n     == Merged(e, ov)
        src   == [f \in Fields |-> IF f \in DOMAIN ov THEN "cli" ELSE "profile"]
        below == RankIn("worktree", worktreeValue(n.worktree)) < RankIn("worktree", floor.worktree)
        error == CASE ~below                           -> ""
                   [] below /\ src.worktree = "cli"    -> "cli"
                   [] below /\ src.worktree # "cli" /\ Declarations[e].stance = "demand" -> "demand"
                   [] OTHER                            -> ""
        raise == below /\ error = ""
    IN  [error     |-> error,
         values    |-> IF raise THEN [n EXCEPT !.worktree = "required"] ELSE n,
         source    |-> IF raise THEN [src EXCEPT !.worktree = "trust"] ELSE src,
         canonical |-> DOMAIN ov = {}]

---------------------------------------------------------------------------
(* runspec/runspec.go: request to policy, with the defaults filled last.   *)

DefaultMaxIterations   == 8
DefaultNavSpiralWindow == 4
DefaultVerifyTimeout   == 5     \* minutes

(* A request: the trust named in it, the profile, the overrides, the       *)
(* isolation asked for ("" when none), and the verify timeout (0 = unset). *)
Request(trust, e, ov, isolation, verifyTimeout) ==
    [trust |-> trust, profile |-> e, overrides |-> ov,
     isolation |-> isolation, verifyTimeout |-> verifyTimeout]

VerifyTimeout(asked, runTimeout) ==
    CASE asked # 0 -> asked
      [] asked = 0 /\ runTimeout > DefaultVerifyTimeout -> runTimeout
      [] OTHER -> DefaultVerifyTimeout

(* The zero that a profile or nobody chose is filled; one the operator     *)
(* chose is refused by validatePolicy (for the window: refilled first).    *)
FilledIters(r, v) ==
    IF v = 0 /\ "max_iters" \notin DOMAIN r.overrides THEN DefaultMaxIterations ELSE v

SpecResolve(r) ==
    LET floor  == FloorFor(r.trust)
        merged == ProfileResolve(floor, r.profile, r.overrides)
        iso    == IF r.isolation = "" THEN floor.isolation ELSE r.isolation
        netOff == floor.network = "off"
        policy == [values        |-> [merged.values EXCEPT
                                        !.max_iters = FilledIters(r, @),
                                        !.nav_spiral_window = IF @ = 0 THEN DefaultNavSpiralWindow ELSE @],
                   verifyTimeout |-> VerifyTimeout(r.verifyTimeout, merged.values.run_timeout),
                   isolation     |-> iso,
                   networkOff    |-> netOff]
        candidate == [floor EXCEPT !.isolation = iso,
                                   !.network   = IF netOff THEN "off" ELSE "unrestricted",
                                   !.worktree  = IF merged.values.worktree = "required" THEN "required" ELSE @]
        valid  == policy.values.max_iters > 0 /\ policy.values.run_timeout > 0
    IN  [ok     |-> /\ RequireTrust(r.profile, r.trust) /\ merged.error = ""
                    /\ Enforce(r.trust, candidate) /\ valid,
         policy |-> policy,
         trace  |-> [source |-> merged.source, canonical |-> merged.canonical]]
=============================================================================
