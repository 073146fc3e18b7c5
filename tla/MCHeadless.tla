----------------------------- MODULE MCHeadless -----------------------------
(* Instances of Headless: command lines and checkouts.                     *)
EXTENDS Headless

Given(f, v) == [x \in {f} |-> v]

Plain == [trust |-> "trusted-local", untrusted |-> "unset", sandbox |-> "unset", network |-> "unset", runtime |-> "unset",
          worktree |-> "unset", profile |-> "coding-v2", overrides |-> <<>>, bestOf |-> 1, review |-> FALSE,
          action |-> "keep", keep |-> FALSE, transcripts |-> TRUE, reviewer |-> FALSE, ladder |-> FALSE,
          inRepo |-> TRUE, dirty |-> FALSE]

(* Every mix of trust, posture flags, profile and overridden field. *)
SetupFamily ==
    {[Plain EXCEPT !.trust = t, !.untrusted = u, !.sandbox = s, !.network = n, !.runtime = r, !.worktree = w] :
        t \in Trusts \cup {"typo"}, u \in {"unset", "on", "off"}, s \in {"unset", "local", "docker"}, n \in {"unset", "on"},
        r \in {"unset", "runc", "runsc"}, w \in {"unset", "auto", "true", "false"}}
    \cup {[Plain EXCEPT !.trust = t, !.profile = p, !.overrides = o, !.worktree = w, !.inRepo = g, !.ladder = l] :
        t \in Trusts, p \in Profiles, w \in {"unset", "auto", "true", "false"}, g \in BOOLEAN, l \in BOOLEAN,
        o \in {<<>>, Given("max_iters", 0), Given("max_iters", 40), Given("memory", FALSE),
               Given("nav_spiral_window", 0), Given("run_timeout", 9)}}

(* Every way to collect, keep and review, for one run and for a tournament. *)
RunFamily ==
    {[Plain EXCEPT !.bestOf = n, !.review = rv, !.action = a, !.keep = k, !.transcripts = ts, !.reviewer = r,
                   !.worktree = w, !.dirty = d] :
        n \in {0, 1, 2}, rv \in BOOLEAN, a \in {"prompt", "commit", "discard", "keep"}, k \in BOOLEAN,
        ts \in BOOLEAN, r \in BOOLEAN, w \in {"unset", "true"}, d \in BOOLEAN}

(* The least unusual run: a trusted checkout and nothing but defaults. *)
PlainRun == {Plain}

(* Three attempts: the champion of the first comparison is challenged again. *)
Knockouts == {[Plain EXCEPT !.bestOf = 3, !.reviewer = r] : r \in BOOLEAN}

MCInvocations ==
    SetupFamily \cup Knockouts
    \cup {i \in RunFamily : /\ i.review \/ i.action = "keep"
                            /\ i.bestOf < 2 => ~i.reviewer
                            /\ i.bestOf = 2 => i.worktree = "unset" /\ ~i.dirty}
=============================================================================
