--------------------------- MODULE Headless_proofs ---------------------------
(* Theorems about Headless: no step of a run deletes the agent's edits, a    *)
(* reported run says where its work is, the tournament is a sound knockout,  *)
(* and no run starts below the floor of its trust, for every command line,   *)
(* every outcome of a loop and every failure of git and the disk.            *)
EXTENDS WellFoundedInduction, Headless, TLAPS

Phases == {"parse", "consent", "ambient", "workspace", "worktree", "prepare", "loop", "ladder", "attempt", "solve",
           "select", "compare", "losers", "winner", "collect", "emit", "review", "postreview", "cleanup", "done"}

Finished  == [outcome : LoopOutcomes, nonEmpty : BOOLEAN]
RunResult == [outcome : LoopOutcomes \cup {"", "unverified", "provider_error"}, of : Nat,
              patchPath : BOOLEAN, worktreePath : BOOLEAN, patchError : BOOLEAN]

Typed ==
    /\ inv \in Invocations /\ hpc \in Phases
    /\ worktreeOn \in BOOLEAN /\ handled \in BOOLEAN
    /\ wt \in Seq(Worktree) /\ att \in Seq(Finished)
    /\ result \in RunResult /\ result.of \in 0..Len(wt) /\ patch \in {0, result.of}
    /\ decided \in {"none", "nothing", "commit", "discard", "keep"}

(* A run answers once: until then there is no exit code, no record and       *)
(* nothing on stdout.                                                        *)
Answering == {"review", "postreview", "cleanup", "done"}

AnswersOnce ==
    /\ IF hpc \in Answering THEN exit \in 0..8 ELSE exit = 99 /\ out = "none"
    /\ hpc \in {"review", "postreview"} => out = "result"
    /\ out \in {"none", "error", "result"} /\ ledger = (IF out = "none" THEN 0 ELSE 1)

(* Which worktrees a run has made, and what they may hold, phase by phase.   *)
Early      == {"parse", "consent", "ambient", "workspace", "worktree"}
Single     == {"prepare", "loop", "ladder"}
Tournament == {"attempt", "solve", "select", "compare"}

NoWork(w)    == ~w.edited /\ ~w.commits
Untouched(w) == NoWork(w) /\ w.dir # "removed"

WorktreesHeld ==
    /\ hpc \in Early \cup Single \cup Tournament => result = NoResult /\ patch = 0
    /\ hpc \in Early => wt = <<>> /\ att = <<>>
    /\ hpc = "worktree" => worktreeOn
    /\ hpc \in Single => Len(wt) = (IF worktreeOn THEN 1 ELSE 0) /\ \A i \in DOMAIN wt : Untouched(wt[i])
    /\ hpc \in Tournament => handled /\ \A i \in DOMAIN wt : wt[i].dir # "removed"
    /\ hpc \in {"losers", "winner", "collect"} =>
          /\ result = [NoResult EXCEPT !.outcome = result.outcome, !.of = result.of] /\ patch = 0
          /\ IF result.of = 0 THEN hpc = "collect" /\ wt = <<>> ELSE wt[result.of].dir # "removed"
    /\ hpc \in {"losers", "winner"} => handled

(* What the deferred clean-up may remove holds no work.                      *)
CleanupIsSafe ==
    hpc \in {"emit", "review", "postreview", "cleanup"} /\ ~handled => \A i \in DOMAIN wt : NoWork(wt[i])

(* Where the edits of the chosen run are, once its result is known.          *)
Found ==
    LET w == wt[result.of] IN
    \/ ~w.edited
    \/ result.patchPath /\ patch = result.of
    \/ result.worktreePath /\ w.dir # "removed"

Delivered ==
    /\ (hpc \in {"emit", "review", "postreview"} \/ out = "result") /\ result.of # 0 => handled /\ Found
    /\ out = "result" => (result.patchError => exit = 1) /\ (exit = 0 => result.outcome = "answered")
    /\ hpc = "postreview" => result.of # 0

(* One worktree and one finished attempt per index, in order.                *)
AttemptsInOrder ==
    /\ Len(att) <= inv.bestOf
    /\ hpc \in Tournament => inv.bestOf >= 2
    /\ hpc = "attempt" => Len(wt) = Len(att) /\ Len(att) < inv.bestOf
    /\ hpc = "solve" => Len(wt) = Len(att) + 1 /\ Len(wt) <= inv.bestOf
    /\ hpc \in {"select", "compare", "losers"} => Len(wt) = Len(att) /\ Len(att) >= 1

HeadlessInv == Typed /\ AnswersOnce /\ WorktreesHeld /\ CleanupIsSafe /\ Delivered /\ AttemptsInOrder

(* Where the commits in the chosen worktree are, wherever no diff was taken, *)
(* the diff failed, or the review committed; and what a review finds.        *)
LetStand   == result.worktreePath /\ wt[result.of].dir # "removed"
ForReview  == hpc = "review" \/ (hpc = "emit" /\ Reviews)

CommitsHeld ==
    /\ hpc \notin {"postreview", "cleanup", "done"} => decided = "none"
    /\ hpc = "postreview" => decided # "commit" /\ reviewOnly
    /\ ForReview /\ result.of # 0 => LetStand /\ (reviewOnly => ~wt[result.of].edited)
    /\ (hpc \in {"emit", "review"} \/ out = "result") /\ result.of # 0 /\ wt[result.of].commits
          /\ (decided = "commit" \/ ~inv.transcripts \/ result.patchError) => LetStand

(* The knockout so far: every candidate below the next challenger has met    *)
(* the champion or lost to one that did.                                     *)
Losses(V, i)  == {n \in DOMAIN V : i \in V[n].pair /\ V[n].winner # i}
NoVerdict(v) == v.picks[1] = v.picks[2] \/ "error" \in {v.picks[1], v.picks[2]}
StructurallyBest(A, w, S) ==
    \A i \in S : LET a == attemptStructuralRank(A[w])
                     b == attemptStructuralRank(A[i])
                 IN  a < b \/ (a = b /\ w <= i)

Knockout(V, A, w, S) ==
    /\ w \in S /\ Losses(V, w) = {}
    /\ \A n \in DOMAIN V : V[n].pair \subseteq S
    /\ \A i \in S \ {w} : \E n \in DOMAIN V : Losses(V, i) = {n} /\ \A m \in DOMAIN V : m > n => i \notin V[m].pair
    /\ \A n \in DOMAIN V : V[n].consistent =>
          V[n].winner = (IF V[n].picks = <<"A", "B">> THEN V[n].first ELSE V[n].second)
    /\ (\A n \in DOMAIN V : NoVerdict(V[n])) => StructurallyBest(A, w, S)

Verdict == [pair : SUBSET Nat, first : Nat, second : Nat, consistent : BOOLEAN, picks : Seq(Picks), winner : Nat]

KnockoutInv ==
    /\ hpc \notin {"compare", "losers"} => champ = <<>>
    /\ hpc = "compare" =>
          /\ champ.next \in Candidates /\ champ.verdicts \in Seq(Verdict)
          /\ Knockout(champ.verdicts, att, champ.at, {i \in Candidates : i < champ.next})
    /\ hpc = "losers" /\ champ # <<>> => Knockout(champ.verdicts, att, result.of, Candidates)

(* What the operator consented to is what the run is set up with.            *)
Consented ==
    /\ plan = planTrust(inv) /\ inv.trust \in Trusts
    /\ Enforce(effectiveTrust(inv), postureForPlan(plan))

SetupInv ==
    /\ hpc \in {"ambient", "workspace", "worktree", "prepare", "loop", "ladder", "attempt", "solve"} => Consented
    /\ hpc \in {"worktree", "prepare", "loop"} => inv.ladder \/ worktreeOn = worktreeWanted(inv, plan)
    /\ hpc = "loop" => LET s == SpecResolve(buildBaseRequest(inv, plan)) IN ~inv.ladder /\ s.ok /\ spec = s.policy

-----------------------------------------------------------------------------
(* The worktree calls.                                                       *)

(* A worktree that was just made is untouched, whatever failed after it.     *)
LEMMA Added ==
    ASSUME NEW d \in BOOLEAN, NEW r \in AddResults(d)
    PROVE  /\ r.error \in BOOLEAN /\ r.created \in BOOLEAN
           /\ r.worktree \in Worktree /\ NoWork(r.worktree)
           /\ ~r.error => r.created /\ r.worktree.dir = "live"
<1>1. \A b \in BOOLEAN : /\ Fresh(b) \in Worktree /\ NoWork(Fresh(b)) /\ Fresh(b).dir = "live"
                       /\ RewriteFailed(Fresh(b)) \in Worktree /\ NoWork(RewriteFailed(Fresh(b)))
  BY DEF Fresh, RewriteFailed, Worktree, NoWork
<1>2. \/ r = [error |-> FALSE, created |-> TRUE, worktree |-> Fresh(d)]
      \/ r = [error |-> TRUE, created |-> FALSE, worktree |-> Fresh(FALSE)]
      \/ r = [error |-> TRUE, created |-> TRUE, worktree |-> RewriteFailed(Fresh(FALSE))]
      \/ \E p \in BOOLEAN : r = [error |-> TRUE, created |-> TRUE, worktree |-> Fresh(p)]
  BY Zenon DEF AddResults
<1>3. \E e, h \in BOOLEAN, v \in Worktree :
          /\ r = [error |-> e, created |-> h, worktree |-> v]
          /\ NoWork(v) /\ (~e => h /\ v.dir = "live")
  BY <1>1, <1>2, Zenon
<1>4. PICK e \in BOOLEAN, h \in BOOLEAN, v \in Worktree :
          /\ r = [error |-> e, created |-> h, worktree |-> v]
          /\ NoWork(v) /\ (~e => h /\ v.dir = "live")
  BY <1>3
<1>5. r.error = e /\ r.created = h /\ r.worktree = v
  BY <1>4
<1> QED BY <1>4, <1>5

(* Removing never edits; a removal that reports success took a live one.     *)
LEMMA Removed ==
    ASSUME NEW w \in Worktree, NEW f, NEW x \in RemoveResults(w, f)
    PROVE  /\ x.error \in BOOLEAN /\ x.worktree \in Worktree
           /\ x.worktree.edited = w.edited /\ x.worktree.commits = w.commits
           /\ x.worktree.dir = w.dir \/ (w.dir = "live" /\ x.worktree.dir = "removed")
<1> DEFINE gone == [w EXCEPT !.dir = "removed"]
<1>1. \/ x = [error |-> TRUE, worktree |-> w]
      \/ w.dir = "live" /\ \E e \in BOOLEAN : x = [error |-> e, worktree |-> gone]
  BY Zenon DEF RemoveResults
<1>2. gone \in Worktree /\ gone.edited = w.edited /\ gone.commits = w.commits /\ gone.dir = "removed"
  BY DEF Worktree
<1> HIDE DEF gone
<1>3. CASE x = [error |-> TRUE, worktree |-> w]
  <2>1. x.error = TRUE /\ x.worktree = w
    BY <1>3
  <2> QED BY <2>1
<1>4. CASE w.dir = "live" /\ \E e \in BOOLEAN : x = [error |-> e, worktree |-> gone]
  <2>1. PICK e \in BOOLEAN : x = [error |-> e, worktree |-> gone]
    BY <1>4
  <2>2. x.error = e /\ x.worktree = gone
    BY <2>1
  <2> QED BY <1>2, <1>4, <2>2
<1> QED BY <1>1, <1>3, <1>4

(* A diff that was computed is the worktree's; an error hides nothing.       *)
LEMMA Collected ==
    ASSUME NEW w \in Worktree, NEW f, NEW c \in CollectResults(w, f)
    PROVE  /\ c.error \in BOOLEAN /\ c.changed \in BOOLEAN
           /\ IsClean(c) => ~w.edited
<1>1. \E e, h \in BOOLEAN : c = [error |-> e, changed |-> h] /\ (~e => h = w.edited)
  <2>1. w.edited \in BOOLEAN
    BY DEF Worktree
  <2>2. \/ c = [error |-> TRUE, changed |-> FALSE]
        \/ c = [error |-> FALSE, changed |-> w.edited]
        \/ \E h \in {FALSE, w.edited} : c = [error |-> TRUE, changed |-> h]
    BY Zenon DEF CollectResults
  <2> QED BY <2>1, <2>2
<1> QED BY <1>1 DEF IsClean

(* A loop may edit its worktree, never remove it.                            *)
LEMMA Left ==
    ASSUME NEW w \in Worktree, NEW o, NEW edited \in BOOLEAN, NEW commits \in BOOLEAN
    PROVE  Leaves(w, o, edited, commits) \in Worktree /\ Leaves(w, o, edited, commits).dir = w.dir
BY DEF Leaves, Worktree

(* Whether an attempt has a patch is known, even after a failed diff.        *)
LEMMA DiffTyped ==
    ASSUME NEW w \in Worktree, NEW f, NEW d \in DiffResults(w, f)
    PROVE  d \in BOOLEAN
BY DEF DiffResults, Worktree

(* exitCodeFor is the documented table: 0 for an answer, and nothing else.   *)
LEMMA ExitTable ==
    ASSUME NEW r \in RunResult
    PROVE  buildResult(r) \in 0..8 /\ (r.patchError => buildResult(r) = 1)
           /\ (buildResult(r) = 0 => r.outcome = "answered")
<1>1. exitCodeFor(r.outcome) \in 0..8 /\ (exitCodeFor(r.outcome) = 0 => r.outcome = "answered")
  BY SMTT(20) DEF exitCodeFor
<1>2. r.patchError \in BOOLEAN
  BY DEF RunResult
<1>3. CASE r.patchError
  BY <1>3 DEF buildResult
<1>4. CASE ~r.patchError
  BY <1>1, <1>4, Zenon DEF buildResult
<1> QED BY <1>3, <1>4

-----------------------------------------------------------------------------
(* The invariant is kept, part by part.                                      *)

(* What the flags of an invocation are.                                      *)
LEMMA FlagsTyped ==
    ASSUME Typed
    PROVE  /\ inv.bestOf \in Nat /\ inv.dirty \in BOOLEAN /\ inv.profile \in Profiles
           /\ inv.action \in {"prompt", "commit", "discard", "keep"}
BY InvocationsAssumption DEF Typed

(* Adding a worktree changes none of the earlier ones.                       *)
LEMMA AppendWorktree ==
    ASSUME NEW s \in Seq(Worktree), NEW w \in Worktree, NEW b \in BOOLEAN,
           NEW t, t = IF b THEN Append(s, w) ELSE s
    PROVE  /\ t \in Seq(Worktree) /\ Len(t) = (IF b THEN Len(s) + 1 ELSE Len(s))
           /\ \A i \in 1..Len(s) : t[i] = s[i]
           /\ b => t[Len(s) + 1] = w
OBVIOUS

(* Changing one worktree changes no other.                                   *)
LEMMA ReplaceWorktree ==
    ASSUME NEW s \in Seq(Worktree), NEW k \in 1..Len(s), NEW w \in Worktree,
           NEW t, t = [s EXCEPT ![k] = w]
    PROVE  /\ t \in Seq(Worktree) /\ Len(t) = Len(s) /\ t[k] = w
           /\ \A i \in 1..Len(s) : i # k => t[i] = s[i]
OBVIOUS

(* A set-up that fails before the run made a result ends in the clean-up.    *)
LEMMA SetupFails ==
    ASSUME HeadlessInv, failSetup, hpc \in Early \cup Single \cup {"attempt"},
           UNCHANGED <<inv, att, result, patch, decided>>,
           handled' \in BOOLEAN, worktreeOn' \in BOOLEAN, wt' \in Seq(Worktree),
           ~handled' => \A i \in DOMAIN wt' : NoWork(wt'[i])
    PROVE  HeadlessInv'
<1>0. Typed /\ AnswersOnce /\ result = NoResult /\ patch = 0 /\ Len(att) <= inv.bestOf
  BY Zenon DEF HeadlessInv, WorktreesHeld, AttemptsInOrder, Tournament
<1>1. hpc' = "cleanup" /\ out' = "error" /\ exit' = 1 /\ ledger' = ledger + 1
      /\ out = "none"
  BY <1>0, Zenon DEF failSetup, Early, Single, AnswersOnce, Answering
<1>2. Typed'
  <2>1. result'.of = 0 /\ result' = result
    BY <1>0 DEF NoResult
  <2>2. 0 \in 0..Len(wt')
    OBVIOUS
  <2> QED BY <1>0, <1>1, <2>1, <2>2 DEF Typed, Phases
<1>3. AnswersOnce'
  BY <1>0, <1>1 DEF AnswersOnce, Answering
<1>4. WorktreesHeld'
  BY <1>1, Zenon DEF WorktreesHeld, Early, Single, Tournament
<1>5. CleanupIsSafe'
  BY DEF CleanupIsSafe
<1>6. Delivered'
  BY <1>1 DEF Delivered
<1>7. AttemptsInOrder'
  BY <1>0, <1>1 DEF AttemptsInOrder, Tournament
<1> QED BY <1>2, <1>3, <1>4, <1>5, <1>6, <1>7, Zenon DEF HeadlessInv

(* The steps before the run has a worktree.                                  *)
LEMMA EarlySteps ==
    ASSUME HeadlessInv, Parse \/ Consent \/ Ambient \/ Workspace
    PROVE  HeadlessInv'
<1>0. Typed /\ AnswersOnce /\ WorktreesHeld /\ AttemptsInOrder /\ inv.bestOf \in Nat
  BY FlagsTyped DEF HeadlessInv
<1>1. /\ hpc \in Early /\ hpc # "worktree"
      /\ UNCHANGED <<inv, wt, att, result, patch, decided>>
      /\ handled' \in BOOLEAN /\ worktreeOn' \in BOOLEAN
      /\ \/ failSetup
         \/ /\ hpc' \in {"consent", "ambient", "workspace", "worktree", "prepare", "attempt"}
            /\ UNCHANGED <<out, ledger, exit>>
            /\ hpc' = "worktree" => worktreeOn'
            /\ hpc' = "prepare" => ~worktreeOn'
            /\ hpc' = "attempt" => inv.bestOf >= 2 /\ handled'
         \/ hpc' = "done" /\ exit' \in {1, 2} /\ UNCHANGED <<out, ledger>>
  <2>1. CASE Parse
    BY <1>0, <2>1, Zenon DEF Parse, Early, runVars, Typed
  <2>2. CASE Consent
    BY <1>0, <2>2, Zenon DEF Consent, Early, runVars, Typed
  <2>3. CASE Ambient
    BY <1>0, <2>3, Zenon DEF Ambient, Early, runVars, Typed
  <2>4. CASE Workspace
    <3> DEFINE on == worktreeWanted(inv, plan)
    <3>1. worktreeOn' \in {FALSE, worktreeOn} \/ worktreeOn' = (on /\ ~inv.ladder)
      BY <2>4, Zenon DEF Workspace
    <3>2. \/ failSetup
          \/ hpc' = (CASE inv.bestOf >= 2 -> "attempt"
                         [] inv.bestOf < 2 /\ worktreeOn' -> "worktree"
                         [] OTHER -> "prepare") /\ UNCHANGED <<out, ledger, exit>>
      BY <2>4, Zenon DEF Workspace
    <3>3. /\ hpc = "workspace" /\ handled' = TRUE
          /\ UNCHANGED <<inv, wt, att, result, patch, decided>>
      BY <2>4, Zenon DEF Workspace
    <3>4. worktreeOn' \in BOOLEAN
      BY <1>0, <3>1 DEF Typed
    <3> HIDE DEF on
    <3> QED BY <1>0, <3>2, <3>3, <3>4 DEF Early
  <2> QED BY <2>1, <2>2, <2>3, <2>4
<1>2. wt = <<>> /\ att = <<>> /\ result = NoResult /\ patch = 0 /\ exit = 99 /\ out = "none" /\ ledger = 0
  BY <1>0, <1>1 DEF WorktreesHeld, AnswersOnce, Early, Answering
<1>3. CASE failSetup
  <2>1. wt' \in Seq(Worktree) /\ \A i \in DOMAIN wt' : NoWork(wt'[i])
    BY <1>1, <1>2
  <2> QED BY <1>1, <1>3, <2>1, SetupFails, Zenon
<1>4. CASE /\ hpc' \in {"consent", "ambient", "workspace", "worktree", "prepare", "attempt"}
           /\ UNCHANGED <<out, ledger, exit>>
           /\ hpc' = "worktree" => worktreeOn'
           /\ hpc' = "prepare" => ~worktreeOn'
           /\ hpc' = "attempt" => inv.bestOf >= 2 /\ handled'
  <2>1. Typed'
    BY <1>0, <1>1, <1>4 DEF Typed, Phases
  <2>2. AnswersOnce'
    BY <1>0, <1>2, <1>4 DEF AnswersOnce, Answering
  <2>3. WorktreesHeld'
    BY <1>1, <1>2, <1>4 DEF WorktreesHeld, Early, Single, Tournament
  <2>4. CleanupIsSafe'
    BY <1>4 DEF CleanupIsSafe
  <2>5. Delivered'
    BY <1>2, <1>4 DEF Delivered
  <2>6. AttemptsInOrder'
    BY <1>0, <1>1, <1>2, <1>4 DEF AttemptsInOrder, Tournament
  <2> QED BY <2>1, <2>2, <2>3, <2>4, <2>5, <2>6, Zenon DEF HeadlessInv
<1>5. CASE hpc' = "done" /\ exit' \in {1, 2} /\ UNCHANGED <<out, ledger>>
  <2>1. Typed'
    BY <1>0, <1>1, <1>5 DEF Typed, Phases
  <2>2. AnswersOnce'
    BY <1>0, <1>2, <1>5 DEF AnswersOnce, Answering
  <2>3. WorktreesHeld'
    BY <1>5 DEF WorktreesHeld, Early, Single, Tournament
  <2>4. CleanupIsSafe'
    BY <1>5 DEF CleanupIsSafe
  <2>5. Delivered'
    BY <1>2, <1>5 DEF Delivered
  <2>6. AttemptsInOrder'
    BY <1>0, <1>1, <1>5 DEF AttemptsInOrder, Tournament
  <2> QED BY <2>1, <2>2, <2>3, <2>4, <2>5, <2>6, Zenon DEF HeadlessInv
<1> QED BY <1>1, <1>3, <1>4, <1>5

(* The worktree of a single run, or the failure that leaves it behind.       *)
LEMMA AddWorktreeStep ==
    ASSUME HeadlessInv, AddWorktree
    PROVE  HeadlessInv'
<1>0. Typed /\ AnswersOnce /\ WorktreesHeld /\ AttemptsInOrder /\ inv.dirty \in BOOLEAN /\ inv.bestOf \in Nat
  BY FlagsTyped DEF HeadlessInv
<1>1. PICK r \in AddResults(inv.dirty) :
          /\ wt' = IF r.created THEN Append(wt, r.worktree) ELSE wt
          /\ IF r.error THEN failSetup /\ UNCHANGED handled
             ELSE hpc' = "prepare" /\ handled' = FALSE /\ UNCHANGED <<out, ledger, exit>>
  BY Zenon DEF AddWorktree
<1>2. /\ hpc = "worktree" /\ wt = <<>> /\ att = <<>> /\ worktreeOn = TRUE /\ result = NoResult /\ patch = 0
      /\ UNCHANGED <<inv, worktreeOn, att, result, patch, decided>>
      /\ out = "none" /\ exit = 99 /\ handled \in BOOLEAN /\ wt \in Seq(Worktree)
  BY <1>0 DEF AddWorktree, WorktreesHeld, AnswersOnce, Early, Typed, Answering
<1>3. /\ r.error \in BOOLEAN /\ r.created \in BOOLEAN
      /\ r.worktree \in Worktree /\ NoWork(r.worktree)
      /\ ~r.error => r.created /\ r.worktree.dir = "live"
  BY <1>0, Added, Zenon
<1>4. wt' \in Seq(Worktree) /\ \A i \in DOMAIN wt' : wt'[i] = r.worktree /\ r.created
  BY <1>1, <1>2, <1>3
<1>5. CASE r.error
  <2>1. failSetup /\ handled' \in BOOLEAN /\ \A i \in DOMAIN wt' : NoWork(wt'[i])
    BY <1>1, <1>2, <1>3, <1>4, <1>5, Zenon
  <2> QED BY <1>2, <1>4, <2>1, SetupFails, Zenon DEF Early
<1>6. CASE ~r.error
  <2>1. hpc' = "prepare" /\ handled' = FALSE /\ UNCHANGED <<out, ledger, exit>> /\ Len(wt') = 1
    BY <1>1, <1>2, <1>3, <1>6
  <2>2. Typed'
    <3>1. result' = NoResult /\ patch' = 0 /\ 0 \in 0..Len(wt')
      BY <1>2, <2>1
    <3>1a. result'.of = 0
      BY <3>1 DEF NoResult
    <3>2. result' \in RunResult /\ att' \in Seq(Finished)
      BY <1>0, <1>2 DEF Typed
    <3> QED BY <1>0, <1>2, <1>4, <2>1, <3>1, <3>1a, <3>2 DEF Typed, Phases
  <2>3. AnswersOnce'
    BY <1>0, <1>2, <2>1 DEF AnswersOnce, Answering
  <2>4. WorktreesHeld'
    <3>1. \A i \in DOMAIN wt' : Untouched(wt'[i])
      BY <1>3, <1>4, <1>6 DEF Untouched
    <3> QED BY <1>2, <2>1, <3>1 DEF WorktreesHeld, Early, Single, Tournament
  <2>5. CleanupIsSafe'
    BY <2>1 DEF CleanupIsSafe
  <2>6. Delivered'
    BY <1>2, <2>1 DEF Delivered
  <2>7. AttemptsInOrder'
    BY <1>0, <1>2, <2>1 DEF AttemptsInOrder, Tournament
  <2> QED BY <2>2, <2>3, <2>4, <2>5, <2>6, <2>7, Zenon DEF HeadlessInv
<1> QED BY <1>3, <1>5, <1>6

(* The last step of the set-up touches no worktree.                          *)
LEMMA PrepareStep ==
    ASSUME HeadlessInv, Prepare
    PROVE  HeadlessInv'
<1>0. Typed /\ AnswersOnce /\ WorktreesHeld /\ AttemptsInOrder
  BY DEF HeadlessInv
<1>1. /\ hpc = "prepare" /\ UNCHANGED <<inv, worktreeOn, wt, att, result, patch, decided, handled>>
      /\ failSetup \/ (hpc' \in {"ladder", "loop"} /\ UNCHANGED <<out, ledger, exit>>)
  BY Zenon DEF Prepare, runVars
<1>2. \A i \in DOMAIN wt : Untouched(wt[i])
  BY <1>0, <1>1 DEF WorktreesHeld, Single
<1>3. CASE failSetup
  <2>1. \A i \in DOMAIN wt' : NoWork(wt'[i])
    BY <1>1, <1>2, Zenon DEF Untouched
  <2> QED BY <1>0, <1>1, <1>3, <2>1, SetupFails, Zenon DEF Single, Typed
<1>4. CASE hpc' \in {"ladder", "loop"} /\ UNCHANGED <<out, ledger, exit>>
  <2>2. Typed'
    BY <1>0, <1>1, <1>4 DEF Typed, Phases
  <2>3. AnswersOnce'
    BY <1>0, <1>1, <1>4 DEF AnswersOnce, Answering
  <2>4. WorktreesHeld'
    <3>1. result = NoResult /\ patch = 0 /\ Len(wt) = (IF worktreeOn THEN 1 ELSE 0)
      BY <1>0, <1>1, Zenon DEF WorktreesHeld, Single
    <3> QED BY <1>1, <1>2, <1>4, <3>1 DEF WorktreesHeld, Early, Single, Tournament
  <2>5. CleanupIsSafe'
    BY <1>4 DEF CleanupIsSafe
  <2>6. Delivered'
    BY <1>0, <1>1, <1>4 DEF Delivered, AnswersOnce, Answering
  <2>7. AttemptsInOrder'
    BY <1>0, <1>1, <1>4 DEF AttemptsInOrder, Tournament
  <2> QED BY <2>2, <2>3, <2>4, <2>5, <2>6, <2>7, Zenon DEF HeadlessInv
<1> QED BY <1>1, <1>3, <1>4

(* A ladder run answers without a worktree and without a collection.         *)
LEMMA LadderStep ==
    ASSUME HeadlessInv, Ladder
    PROVE  HeadlessInv'
<1>0. Typed /\ AnswersOnce /\ WorktreesHeld /\ AttemptsInOrder
  BY DEF HeadlessInv
<1>1. /\ hpc = "ladder" /\ UNCHANGED <<inv, worktreeOn, wt, att, patch, decided, handled>>
      /\ \/ failSetup /\ UNCHANGED result
         \/ \E o \in LoopOutcomes :
             /\ result' = [NoResult EXCEPT !.outcome = o]
             /\ out' = "result" /\ ledger' = ledger + 1 /\ exit' = exitCodeFor(o)
             /\ hpc' = "cleanup"
  BY Zenon DEF Ladder
<1>2. (\A i \in DOMAIN wt : Untouched(wt[i])) /\ patch = 0 /\ out = "none"
  BY <1>0, <1>1 DEF WorktreesHeld, AnswersOnce, Answering, Early, Single, Tournament
<1>2a. \A i \in DOMAIN wt' : NoWork(wt'[i])
  BY <1>1, <1>2, Zenon DEF Untouched
<1>3. CASE failSetup /\ UNCHANGED result
  BY <1>0, <1>1, <1>2a, <1>3, SetupFails, Zenon DEF Single, Typed
<1>4. ASSUME NEW o \in LoopOutcomes, result' = [NoResult EXCEPT !.outcome = o],
             out' = "result", ledger' = ledger + 1, exit' = exitCodeFor(o), hpc' = "cleanup"
      PROVE  HeadlessInv'
  <2>1. /\ result'.of = 0 /\ result'.patchError = FALSE /\ result'.outcome = o /\ result' \in RunResult
        /\ exit' \in 0..8 /\ (exit' = 0 => o = "answered")
    <3>1. result' \in RunResult /\ result'.of = 0 /\ result'.patchError = FALSE /\ result'.outcome = o
      BY <1>4 DEF NoResult, RunResult
    <3>2. exit' = buildResult(result')
      BY <1>4, <3>1 DEF buildResult
    <3> QED BY <3>1, <3>2, ExitTable
  <2>2. Typed'
    BY <1>0, <1>1, <1>2, <1>4, <2>1 DEF Typed, Phases
  <2>3. AnswersOnce'
    BY <1>0, <1>2, <1>4, <2>1 DEF AnswersOnce, Answering
  <2>4. WorktreesHeld'
    BY <1>4 DEF WorktreesHeld, Early, Single, Tournament
  <2>5. CleanupIsSafe'
    BY <1>2a DEF CleanupIsSafe
  <2>6. Delivered'
    BY <1>4, <2>1 DEF Delivered
  <2>7. AttemptsInOrder'
    BY <1>0, <1>1, <1>4 DEF AttemptsInOrder, Tournament
  <2> QED BY <2>2, <2>3, <2>4, <2>5, <2>6, <2>7, Zenon DEF HeadlessInv
<1> QED BY <1>1, <1>3, <1>4

(* The loop leaves its worktree edited, perhaps, and never removed.          *)
LEMMA LoopStep ==
    ASSUME HeadlessInv, Loop
    PROVE  HeadlessInv'
<1>0. Typed /\ AnswersOnce /\ WorktreesHeld /\ AttemptsInOrder
  BY DEF HeadlessInv
<1>1. /\ hpc = "loop" /\ UNCHANGED <<inv, worktreeOn, att, patch, decided, handled>>
      /\ \/ failSetup /\ UNCHANGED <<wt, result>>
         \/ \E o \in LoopOutcomes, edited \in BOOLEAN, commits \in BOOLEAN :
             /\ wt' = IF worktreeOn THEN [wt EXCEPT ![1] = Leaves(wt[1], o, edited, commits)] ELSE wt
             /\ result' = [NoResult EXCEPT !.outcome = o, !.of = IF worktreeOn THEN 1 ELSE 0]
             /\ hpc' = "collect" /\ UNCHANGED <<out, ledger, exit>>
  BY Zenon DEF Loop
<1>2. /\ result = NoResult /\ patch = 0 /\ out = "none" /\ exit = 99
      /\ Len(wt) = (IF worktreeOn THEN 1 ELSE 0) /\ \A i \in DOMAIN wt : Untouched(wt[i])
  BY <1>0, <1>1 DEF WorktreesHeld, AnswersOnce, Answering, Early, Single, Tournament
<1>3. CASE failSetup /\ UNCHANGED <<wt, result>>
  <2>1. \A i \in DOMAIN wt' : NoWork(wt'[i])
    BY <1>2, <1>3, Zenon DEF Untouched
  <2> QED BY <1>0, <1>1, <1>3, <2>1, SetupFails, Zenon DEF Single, Typed
<1>4. ASSUME NEW o \in LoopOutcomes, NEW edited \in BOOLEAN, NEW commits \in BOOLEAN,
             wt' = IF worktreeOn THEN [wt EXCEPT ![1] = Leaves(wt[1], o, edited, commits)] ELSE wt,
             result' = [NoResult EXCEPT !.outcome = o, !.of = IF worktreeOn THEN 1 ELSE 0],
             hpc' = "collect" /\ UNCHANGED <<out, ledger, exit>>
      PROVE  HeadlessInv'
  <2>1. /\ result' \in RunResult /\ result'.of = (IF worktreeOn THEN 1 ELSE 0)
        /\ result' = [NoResult EXCEPT !.outcome = result'.outcome, !.of = result'.of]
    BY <1>4 DEF NoResult, RunResult
  <2>2. /\ wt' \in Seq(Worktree) /\ Len(wt') = Len(wt)
        /\ worktreeOn => wt'[1].dir # "removed"
    <3>1. CASE worktreeOn
      <4>0. wt \in Seq(Worktree) /\ Len(wt) = 1
        BY <1>0, <1>2, <3>1 DEF Typed
      <4>0a. 1 \in DOMAIN wt
        BY <4>0
      <4>1. wt[1] \in Worktree /\ 1 \in 1..Len(wt) /\ wt[1].dir # "removed"
        BY <1>2, <4>0, <4>0a DEF Untouched
      <4>2. Leaves(wt[1], o, edited, commits) \in Worktree /\ Leaves(wt[1], o, edited, commits).dir = wt[1].dir
        BY <4>1, Left
      <4> QED BY <1>0, <1>4, <3>1, <4>1, <4>2, ReplaceWorktree DEF Typed
    <3>2. CASE ~worktreeOn
      BY <1>0, <1>4, <3>2 DEF Typed
    <3> QED BY <3>1, <3>2
  <2>3. Typed'
    <3>1. result'.of \in 0..Len(wt')
      BY <1>0, <1>2, <2>1, <2>2 DEF Typed
    <3>2. att' \in Seq(Finished) /\ patch' = 0
      BY <1>0, <1>1, <1>2 DEF Typed
    <3> QED BY <1>0, <1>1, <1>4, <2>1, <2>2, <3>1, <3>2 DEF Typed, Phases
  <2>4. AnswersOnce'
    BY <1>0, <1>2, <1>4 DEF AnswersOnce, Answering
  <2>5. WorktreesHeld'
    <3>1. worktreeOn \in BOOLEAN /\ (~worktreeOn => wt' = <<>>)
      BY <1>0, <1>2, <2>2 DEF Typed
    <3>2. patch' = 0 /\ hpc' = "collect"
      BY <1>1, <1>2, <1>4
    <3>3. IF result'.of = 0 THEN wt' = <<>> ELSE wt'[result'.of].dir # "removed"
      BY <2>1, <2>2, <3>1
    <3> QED BY <2>1, <3>2, <3>3 DEF WorktreesHeld, Early, Single, Tournament
  <2>6. CleanupIsSafe'
    BY <1>4 DEF CleanupIsSafe
  <2>7. Delivered'
    BY <1>2, <1>4 DEF Delivered
  <2>8. AttemptsInOrder'
    BY <1>0, <1>1, <1>4 DEF AttemptsInOrder, Tournament
  <2> QED BY <2>3, <2>4, <2>5, <2>6, <2>7, <2>8, Zenon DEF HeadlessInv
<1> QED BY <1>1, <1>3, <1>4, Zenon

(* A sweep takes a live worktree and nothing from it.                        *)
LEMMA SweepStep ==
    ASSUME HeadlessInv, Sweep
    PROVE  HeadlessInv'
<1>0. Typed /\ AnswersOnce /\ WorktreesHeld /\ AttemptsInOrder /\ CleanupIsSafe /\ Delivered
  BY DEF HeadlessInv
<1>1. /\ hpc \in {"loop", "collect", "review", "attempt", "select", "winner"}
      /\ UNCHANGED <<inv, hpc, plan, spec, worktreeOn, att, champ, result, patch, handled, decided, out, ledger, exit>>
      /\ \E i \in DOMAIN wt : wt[i].dir = "live" /\ wt' = [wt EXCEPT ![i].dir = "swept"]
  BY Zenon DEF Sweep
<1>2. /\ wt' \in Seq(Worktree) /\ Len(wt') = Len(wt)
      /\ \A i \in DOMAIN wt' : /\ i \in DOMAIN wt /\ wt'[i].edited = wt[i].edited /\ wt'[i].commits = wt[i].commits
                               /\ wt[i].dir # "removed" => wt'[i].dir # "removed"
  <2>1. PICK k \in DOMAIN wt : wt' = [wt EXCEPT ![k].dir = "swept"]
    BY <1>1
  <2> DEFINE x == [wt[k] EXCEPT !.dir = "swept"]
  <2>2. wt[k] \in Worktree /\ k \in 1..Len(wt)
    BY <1>0, <2>1 DEF Typed
  <2>3. x \in Worktree /\ x.edited = wt[k].edited /\ x.commits = wt[k].commits /\ x.dir = "swept" /\ wt' = [wt EXCEPT ![k] = x]
    BY <2>1, <2>2 DEF Worktree
  <2> HIDE DEF x
  <2>4. wt \in Seq(Worktree)
    BY <1>0 DEF Typed
  <2> QED BY <2>2, <2>3, <2>4, ReplaceWorktree
<1>3. Typed'
  BY <1>0, <1>1, <1>2 DEF Typed
<1>4. AnswersOnce'
  BY <1>0, <1>1, Zenon DEF AnswersOnce
<1>5. WorktreesHeld'
  <2>1a. \A i \in DOMAIN wt' : Untouched(wt[i]) => Untouched(wt'[i])
    BY <1>2, Zenon DEF Untouched, NoWork
  <2>2. wt = <<>> => wt' = <<>>
    BY <1>2
  <2>3. result.of # 0 => result.of \in DOMAIN wt'
    BY <1>0, <1>2 DEF Typed
  <2> QED BY <1>0, <1>1, <1>2, <2>1a, <2>2, <2>3 DEF WorktreesHeld, Early, Single, Tournament
<1>6. CleanupIsSafe'
  <2>1. \A i \in DOMAIN wt' : i \in DOMAIN wt /\ (NoWork(wt[i]) => NoWork(wt'[i]))
    BY <1>2, Zenon DEF NoWork
  <2> QED BY <1>0, <1>1, <2>1, Zenon DEF CleanupIsSafe
<1>7. Delivered'
  <2>1. result.of # 0 => result.of \in DOMAIN wt'
    BY <1>0, <1>2 DEF Typed
  <2>2. result.of # 0 /\ Found => Found'
    BY <1>1, <1>2, <2>1 DEF Found
  <2> QED BY <1>0, <1>1, <2>2, Zenon DEF Delivered
<1>8. AttemptsInOrder'
  BY <1>0, <1>1, <1>2, Zenon DEF AttemptsInOrder
<1> QED BY <1>3, <1>4, <1>5, <1>6, <1>7, <1>8, Zenon DEF HeadlessInv

(* The next attempt gets the worktree of its index.                          *)
LEMMA AttemptStep ==
    ASSUME HeadlessInv, Attempt
    PROVE  HeadlessInv'
<1>0. Typed /\ AnswersOnce /\ WorktreesHeld /\ AttemptsInOrder /\ inv.dirty \in BOOLEAN /\ inv.bestOf \in Nat
  BY FlagsTyped DEF HeadlessInv
<1>1. PICK r \in AddResults(inv.dirty) :
          /\ wt' = IF r.created THEN Append(wt, r.worktree) ELSE wt
          /\ IF r.error THEN failSetup ELSE hpc' = "solve" /\ UNCHANGED <<out, ledger, exit>>
  BY Zenon DEF Attempt
<1>2. /\ hpc = "attempt" /\ result = NoResult /\ patch = 0 /\ handled = TRUE
      /\ \A i \in DOMAIN wt : wt[i].dir # "removed"
      /\ UNCHANGED <<inv, worktreeOn, att, result, patch, handled, decided>>
      /\ out = "none" /\ exit = 99 /\ wt \in Seq(Worktree)
      /\ Len(wt) = Len(att) /\ Len(att) < inv.bestOf /\ inv.bestOf >= 2
  BY <1>0 DEF Attempt, WorktreesHeld, AnswersOnce, Early, Single, Tournament, Typed, Answering, AttemptsInOrder
<1>3. /\ r.error \in BOOLEAN /\ r.created \in BOOLEAN /\ r.worktree \in Worktree
      /\ ~r.error => r.created /\ r.worktree.dir = "live"
  BY <1>0, Added, Zenon
<1>4. /\ wt' \in Seq(Worktree) /\ Len(wt') = (IF r.created THEN Len(wt) + 1 ELSE Len(wt))
      /\ \A i \in 1..Len(wt) : wt'[i] = wt[i]
      /\ r.created => wt'[Len(wt) + 1] = r.worktree
  BY <1>1, <1>2, <1>3, AppendWorktree
<1>5. CASE r.error
  <2>1. failSetup /\ handled' = TRUE
    BY <1>1, <1>2, <1>5
  <2> QED BY <1>0, <1>2, <1>4, <2>1, SetupFails DEF Typed
<1>6. CASE ~r.error
  <2>1. /\ hpc' = "solve" /\ UNCHANGED <<out, ledger, exit>> /\ Len(wt') = Len(wt) + 1
        /\ \A i \in DOMAIN wt' : wt'[i].dir # "removed"
    <3>1. hpc' = "solve" /\ UNCHANGED <<out, ledger, exit>> /\ r.created /\ Len(wt') = Len(wt) + 1
      BY <1>1, <1>3, <1>4, <1>6
    <3>2. ASSUME NEW i \in DOMAIN wt' PROVE wt'[i].dir # "removed"
      <4>1. i \in DOMAIN wt \/ i = Len(wt) + 1
        BY <1>2, <1>4, <3>1, <3>2
      <4>2. r.worktree.dir # "removed"
        BY <1>3, <1>6
      <4> QED BY <1>2, <1>4, <3>1, <4>1, <4>2
    <3> QED BY <3>1, <3>2
  <2>2. Typed'
    <3>1. result' = NoResult /\ 0 \in 0..Len(wt') /\ patch' = 0
      BY <1>2, <2>1
    <3>1a. result'.of = 0
      BY <3>1 DEF NoResult
    <3>2. result' \in RunResult /\ att' \in Seq(Finished)
      BY <1>0, <1>2 DEF Typed
    <3> QED BY <1>0, <1>2, <1>4, <2>1, <3>1, <3>1a, <3>2 DEF Typed, Phases
  <2>3. AnswersOnce'
    BY <1>0, <1>2, <2>1 DEF AnswersOnce, Answering
  <2>4. WorktreesHeld'
    BY <1>2, <2>1 DEF WorktreesHeld, Early, Single, Tournament
  <2>5. CleanupIsSafe'
    BY <2>1 DEF CleanupIsSafe
  <2>6. Delivered'
    BY <1>2, <2>1 DEF Delivered
  <2>7. AttemptsInOrder'
    BY <1>0, <1>2, <2>1 DEF AttemptsInOrder, Tournament
  <2> QED BY <2>2, <2>3, <2>4, <2>5, <2>6, <2>7, Zenon DEF HeadlessInv
<1> QED BY <1>3, <1>5, <1>6

(* An attempt finishes: its worktree may hold work, and it is recorded.      *)
LEMMA SolveStep ==
    ASSUME HeadlessInv, Solve
    PROVE  HeadlessInv'
<1>0. Typed /\ AnswersOnce /\ WorktreesHeld /\ AttemptsInOrder /\ inv.bestOf \in Nat
  BY FlagsTyped DEF HeadlessInv
<1> DEFINE k == Len(wt)
<1>2. /\ hpc = "solve" /\ result = NoResult /\ patch = 0 /\ handled = TRUE
      /\ \A i \in DOMAIN wt : wt[i].dir # "removed"
      /\ UNCHANGED <<inv, worktreeOn, result, patch, handled, decided, out, ledger, exit>>
      /\ out = "none" /\ exit = 99 /\ wt \in Seq(Worktree) /\ att \in Seq(Finished)
      /\ k = Len(att) + 1 /\ k <= inv.bestOf /\ inv.bestOf >= 2
  BY <1>0 DEF Solve, WorktreesHeld, AnswersOnce, Early, Single, Tournament, Typed, Answering, AttemptsInOrder
<1>3. k \in 1..Len(wt) /\ wt[k] \in Worktree /\ k \in Nat \ {0}
  BY <1>2
<1> HIDE DEF k
<1>1. \E o \in LoopOutcomes, edited \in BOOLEAN, commits \in BOOLEAN :
          \E d \in DiffResults(Leaves(wt[k], o, edited, commits), GitMayFail) :
              /\ wt' = [wt EXCEPT ![k] = Leaves(wt[k], o, edited, commits)]
              /\ att' = Append(att, [outcome |-> o, nonEmpty |-> d])
              /\ hpc' = IF k = inv.bestOf THEN "select" ELSE "attempt"
  BY Zenon DEF Solve, k
<1>4. PICK o \in LoopOutcomes, edited \in BOOLEAN, commits \in BOOLEAN :
          \E d \in DiffResults(Leaves(wt[k], o, edited, commits), GitMayFail) :
              /\ wt' = [wt EXCEPT ![k] = Leaves(wt[k], o, edited, commits)]
              /\ att' = Append(att, [outcome |-> o, nonEmpty |-> d])
              /\ hpc' = IF k = inv.bestOf THEN "select" ELSE "attempt"
  BY <1>1
<1>5. PICK d \in DiffResults(Leaves(wt[k], o, edited, commits), GitMayFail) :
              /\ wt' = [wt EXCEPT ![k] = Leaves(wt[k], o, edited, commits)]
              /\ att' = Append(att, [outcome |-> o, nonEmpty |-> d])
              /\ hpc' = IF k = inv.bestOf THEN "select" ELSE "attempt"
  BY <1>4
<1> DEFINE w == Leaves(wt[k], o, edited, commits)
<1>6. w \in Worktree /\ w.dir = wt[k].dir /\ d \in BOOLEAN
  <2>1. w \in Worktree /\ w.dir = wt[k].dir
    BY <1>3, Left
  <2> QED BY <1>5, <2>1, DiffTyped
<1> HIDE DEF w
<1>7. /\ wt' \in Seq(Worktree) /\ Len(wt') = k /\ \A i \in DOMAIN wt' : wt'[i].dir # "removed"
  <2>1. wt' = [wt EXCEPT ![k] = w]
    BY <1>5 DEF w
  <2>2. wt' \in Seq(Worktree) /\ Len(wt') = Len(wt) /\ wt'[k] = w /\ \A i \in 1..Len(wt) : i # k => wt'[i] = wt[i]
    BY <1>2, <1>3, <1>6, <2>1, ReplaceWorktree
  <2>3. ASSUME NEW i \in DOMAIN wt' PROVE wt'[i].dir # "removed"
    BY <1>2, <1>6, <2>2, <1>3, <2>3
  <2> QED BY <2>2, <2>3 DEF k
<1>8. att' \in Seq(Finished) /\ Len(att') = k
  <2>1. [outcome |-> o, nonEmpty |-> d] \in Finished
    BY <1>6 DEF Finished
  <2> QED BY <1>2, <1>5, <2>1
<1>9. hpc' \in {"select", "attempt"} /\ (hpc' = "attempt" => k < inv.bestOf)
  BY <1>0, <1>2, <1>3, <1>5
<1>11. Typed'
  <2>1. result' = NoResult /\ 0 \in 0..Len(wt') /\ patch' = 0
    BY <1>2, <1>3, <1>7
  <2>1a. result'.of = 0
    BY <2>1 DEF NoResult
  <2>2. result' \in RunResult
    BY <1>0, <1>2 DEF Typed
  <2> QED BY <1>0, <1>2, <1>7, <1>8, <1>9, <2>1, <2>1a, <2>2 DEF Typed, Phases
<1>12. AnswersOnce'
  BY <1>0, <1>2, <1>9 DEF AnswersOnce, Answering
<1>13. WorktreesHeld'
  BY <1>2, <1>7, <1>9 DEF WorktreesHeld, Early, Single, Tournament
<1>14. CleanupIsSafe'
  BY <1>9 DEF CleanupIsSafe
<1>15. Delivered'
  BY <1>2, <1>9 DEF Delivered
<1>16. AttemptsInOrder'
  BY <1>0, <1>2, <1>3, <1>7, <1>8, <1>9 DEF AttemptsInOrder, Tournament
<1> QED BY <1>11, <1>12, <1>13, <1>14, <1>15, <1>16, Zenon DEF HeadlessInv

-----------------------------------------------------------------------------
(* The tournament.                                                           *)

(* A non-empty set of indices has a least one, which CHOOSE finds.           *)
LEMMA LeastIndex ==
    ASSUME NEW S \in SUBSET Nat, S # {}
    PROVE  \E n \in S : \A m \in S : n <= m
<1> DEFINE R == OpToRel(<, Nat)
<1>1. IsWellFoundedOn(R, Nat)
  BY NatLessThanWellFounded
<1>2. \A m, n \in Nat : m < n => <<m, n>> \in R
  BY DEF OpToRel
<1> HIDE DEF R
<1>3. PICK n \in S : \A m \in S : <<m, n>> \notin R
  BY <1>1, WFMin
<1>4. \A m \in S : m \in Nat /\ n \in Nat /\ ~(m < n)
  BY <1>2, <1>3, Zenon
<1> QED BY <1>4

(* The next challenger is the first candidate after the last one, if any.    *)
LEMMA Challenger ==
    ASSUME att \in Seq(Finished), NEW c \in Nat
    PROVE  /\ Candidates \subseteq 1..Len(att)
           /\ \/ NextChallenger(c) = 0 /\ \A i \in Candidates : i <= c
              \/ /\ NextChallenger(c) \in Candidates /\ NextChallenger(c) > c
                 /\ \A i \in Candidates : i > c => NextChallenger(c) <= i
<1> DEFINE rest == {i \in Candidates : i > c}
<1>1. Candidates \subseteq 1..Len(att)
  BY DEF Candidates
<1>2. CASE rest = {}
  <2>1. NextChallenger(c) = 0
    BY <1>2, Zenon DEF NextChallenger
  <2>2. \A i \in Candidates : i \in Nat /\ ~(i > c)
    BY <1>1, <1>2
  <2> QED BY <1>1, <2>1, <2>2
<1>3. CASE rest # {}
  <2>1. rest \in SUBSET Nat
    <3>1. \A i \in 1..Len(att) : i \in Nat
      OBVIOUS
    <3> QED BY <1>1, <3>1, Zenon
  <2> HIDE DEF rest
  <2>2. \E i \in rest : \A j \in rest : i <= j
    BY <1>3, <2>1, LeastIndex
  <2>3. NextChallenger(c) = CHOOSE i \in rest : \A j \in rest : i <= j
    BY <1>3, Zenon DEF NextChallenger, rest
  <2>4. NextChallenger(c) \in rest /\ \A j \in rest : NextChallenger(c) <= j
    BY <2>2, <2>3, Zenon
  <2> QED BY <1>1, <2>4, Zenon DEF rest
<1> QED BY <1>2, <1>3

(* A chosen attempt is one that ran, and its worktree is in place.           *)
LEMMA ChooseStep ==
    ASSUME HeadlessInv, hpc \in {"select", "compare"}, NEW w \in 1..Len(att), Choose(w),
           UNCHANGED <<inv, worktreeOn, wt, att, patch, handled, decided, out, ledger, exit>>
    PROVE  HeadlessInv'
<1>0. Typed /\ AnswersOnce /\ WorktreesHeld /\ AttemptsInOrder
  BY DEF HeadlessInv
<1>1. /\ result = NoResult /\ patch = 0 /\ handled = TRUE /\ wt \in Seq(Worktree) /\ att \in Seq(Finished)
      /\ \A i \in DOMAIN wt : wt[i].dir # "removed"
      /\ Len(wt) = Len(att) /\ Len(att) >= 1
      /\ out = "none" /\ exit = 99 /\ ledger = 0
  BY <1>0 DEF WorktreesHeld, AnswersOnce, Answering, Early, Single, Tournament, Typed, AttemptsInOrder
<1>2. result' = [NoResult EXCEPT !.outcome = att[w].outcome, !.of = w] /\ hpc' = "losers"
  BY DEF Choose
<1>3. att[w].outcome \in LoopOutcomes
  <2>1. att[w] \in Finished
    BY <1>1
  <2> QED BY <2>1 DEF Finished
<1>4. /\ result' \in RunResult /\ result'.of = w
      /\ result' = [NoResult EXCEPT !.outcome = result'.outcome, !.of = result'.of]
  <2> DEFINE o == att[w].outcome
  <2>1. result' = [NoResult EXCEPT !.outcome = o, !.of = w] /\ o \in LoopOutcomes /\ w \in Nat
    BY <1>1, <1>2, <1>3
  <2> HIDE DEF o
  <2> QED BY <2>1 DEF NoResult, RunResult
<1>5. w \in 1..Len(wt) /\ w \in DOMAIN wt /\ w \in 0..Len(wt) /\ w # 0
  BY <1>1
<1>6. Typed'
  BY <1>0, <1>1, <1>2, <1>4, <1>5 DEF Typed, Phases
<1>7. AnswersOnce'
  BY <1>1, <1>2 DEF AnswersOnce, Answering
<1>8. WorktreesHeld'
  BY <1>1, <1>2, <1>4, <1>5 DEF WorktreesHeld, Early, Single, Tournament
<1>9. CleanupIsSafe'
  BY <1>2 DEF CleanupIsSafe
<1>10. Delivered'
  BY <1>1, <1>2 DEF Delivered
<1>11. AttemptsInOrder'
  BY <1>0, <1>1, <1>2 DEF AttemptsInOrder, Tournament
<1> QED BY <1>6, <1>7, <1>8, <1>9, <1>10, <1>11, Zenon DEF HeadlessInv

(* A step from one phase of the tournament to the comparisons.               *)
LEMMA CompareOn ==
    ASSUME HeadlessInv, hpc \in {"select", "compare"}, hpc' = "compare",
           UNCHANGED <<inv, worktreeOn, wt, att, result, patch, handled, decided, out, ledger, exit>>
    PROVE  HeadlessInv'
<1>0. Typed /\ AnswersOnce /\ WorktreesHeld /\ AttemptsInOrder /\ Delivered
  BY DEF HeadlessInv
<1>6. Typed'
  BY <1>0 DEF Typed, Phases
<1>7. AnswersOnce'
  BY <1>0 DEF AnswersOnce, Answering
<1>8. WorktreesHeld'
  BY <1>0 DEF WorktreesHeld, Early, Single, Tournament
<1>9. CleanupIsSafe'
  BY DEF CleanupIsSafe
<1>10. Delivered'
  BY <1>0 DEF Delivered, AnswersOnce, Answering
<1>11. AttemptsInOrder'
  BY <1>0 DEF AttemptsInOrder, Tournament
<1> QED BY <1>6, <1>7, <1>8, <1>9, <1>10, <1>11, Zenon DEF HeadlessInv

(* A selection starts: with no patch the last attempt is chosen, with one    *)
(* patch that one, and otherwise the first two are compared.                 *)
LEMMA StartSelectionMoves ==
    ASSUME HeadlessInv, StartSelection
    PROVE  /\ hpc = "select" /\ att \in Seq(Finished) /\ Len(att) >= 1
           /\ UNCHANGED <<inv, worktreeOn, wt, att, patch, handled, decided, out, ledger, exit>>
           /\ \/ \E w \in 1..Len(att) : Choose(w) /\ UNCHANGED champ
              \/ /\ hpc' = "compare" /\ UNCHANGED result
                 /\ \E first \in Candidates :
                      /\ \A i \in Candidates : first <= i
                      /\ NextChallenger(first) # 0
                      /\ champ' = [at |-> first, next |-> NextChallenger(first), verdicts |-> <<>>]
<1>1. hpc = "select" /\ UNCHANGED <<inv, worktreeOn, wt, att, patch, handled, decided, out, ledger, exit>>
  BY Zenon DEF StartSelection
<1>2. att \in Seq(Finished) /\ Len(att) >= 1
  BY <1>1 DEF HeadlessInv, Typed, AttemptsInOrder
<1>3. CASE Candidates = {}
  <2>1. Choose(Len(att)) /\ UNCHANGED champ
    BY <1>3, Zenon DEF StartSelection
  <2>2. Len(att) \in 1..Len(att)
    BY <1>2
  <2> QED BY <1>1, <1>2, <2>1, <2>2, Zenon
<1>4. CASE Candidates # {}
  <2> DEFINE first == NextChallenger(0)
  <2>1. IF NextChallenger(first) = 0 THEN Choose(first) /\ UNCHANGED champ
        ELSE /\ champ' = [at |-> first, next |-> NextChallenger(first), verdicts |-> <<>>]
             /\ hpc' = "compare" /\ UNCHANGED result
    BY <1>4, Zenon DEF StartSelection
  <2>2. first \in Candidates /\ Candidates \subseteq 1..Len(att) /\ \A i \in Candidates : first <= i
    <3>1. /\ Candidates \subseteq 1..Len(att)
          /\ \/ first = 0 /\ \A i \in Candidates : i <= 0
             \/ first \in Candidates /\ \A i \in Candidates : i > 0 => first <= i
      BY <1>2, Challenger
    <3>2. \A i \in Candidates : i \in Nat /\ i > 0
      BY <1>2, <3>1
    <3> HIDE DEF first
    <3>2a. PICK c \in Candidates : c > 0 /\ c \in Nat
      BY <1>4, <3>2
    <3>3. first # 0
      <4>1. ~(0 \in Candidates) /\ ~(c <= 0)
        BY <3>2, <3>2a
      <4> QED BY <3>1, <3>2a, <4>1, Zenon
    <3> QED BY <3>1, <3>2, <3>3, Zenon
  <2> HIDE DEF first
  <2> QED BY <1>1, <1>2, <2>1, <2>2, Zenon
<1> QED BY <1>3, <1>4

(* One comparison of the champion with the next challenger.                  *)
LEMMA CompareMoves ==
    ASSUME HeadlessInv, KnockoutInv, Compare
    PROVE  /\ hpc = "compare" /\ att \in Seq(Finished)
           /\ UNCHANGED <<inv, worktreeOn, wt, att, patch, handled, decided, out, ledger, exit>>
           /\ champ.at \in Candidates /\ champ.next \in Candidates /\ champ.at < champ.next
           /\ \E p1, p2 \in Picks :
                LET v == runComparison(champ.at, champ.next, p1, p2)
                    n == NextChallenger(champ.next)
                IN  /\ champ' = [at |-> v.winner, next |-> n, verdicts |-> Append(champ.verdicts, v)]
                    /\ v.winner \in {champ.at, champ.next}
                    /\ IF n = 0 THEN Choose(v.winner) ELSE hpc' = hpc /\ result' = result
<1>1. hpc = "compare" /\ UNCHANGED <<inv, worktreeOn, wt, att, patch, handled, decided, out, ledger, exit>>
  BY Zenon DEF Compare
<1>2. att \in Seq(Finished)
  BY DEF HeadlessInv, Typed
<1>3. champ.at \in Candidates /\ champ.next \in Candidates /\ champ.at < champ.next
  BY <1>1, Zenon DEF KnockoutInv, Knockout
<1>4. \A i, j, p1, p2 : runComparison(i, j, p1, p2).winner \in {i, j}
  BY DEF runComparison, selectBestByStructure
<1>5. PICK p1 \in Picks, p2 \in Picks :
        LET v == runComparison(champ.at, champ.next, p1, p2)
            n == NextChallenger(champ.next)
        IN  /\ champ' = [at |-> v.winner, next |-> n, verdicts |-> Append(champ.verdicts, v)]
            /\ IF n = 0 THEN Choose(v.winner) ELSE UNCHANGED <<hpc, result>>
  BY Zenon DEF Compare
<1> QED BY <1>1, <1>2, <1>3, <1>4, <1>5, Zenon

(* The selection moves no worktree.                                          *)
LEMMA TournamentSteps ==
    ASSUME HeadlessInv, KnockoutInv, StartSelection \/ Compare
    PROVE  HeadlessInv'
<1>1. CASE StartSelection
  <2>1. CASE \E w \in 1..Len(att) : Choose(w)
    BY <1>1, <2>1, StartSelectionMoves, ChooseStep
  <2>2. CASE hpc' = "compare" /\ UNCHANGED result
    BY <1>1, <2>2, StartSelectionMoves, CompareOn
  <2> QED BY <1>1, <2>1, <2>2, StartSelectionMoves, Zenon
<1>2. CASE Compare
  <2>1. PICK p1 \in Picks, p2 \in Picks :
                LET v == runComparison(champ.at, champ.next, p1, p2)
                    n == NextChallenger(champ.next)
                IN  /\ v.winner \in {champ.at, champ.next}
                    /\ IF n = 0 THEN Choose(v.winner) ELSE hpc' = hpc /\ result' = result
    BY <1>2, CompareMoves, Zenon
  <2> DEFINE w == runComparison(champ.at, champ.next, p1, p2).winner
  <2>2. w \in 1..Len(att) /\ (Choose(w) \/ (hpc' = hpc /\ result' = result))
    <3>1. champ.at \in Candidates /\ champ.next \in Candidates /\ att \in Seq(Finished)
      BY <1>2, CompareMoves, Zenon
    <3>2. Candidates \subseteq 1..Len(att)
      BY DEF Candidates
    <3> QED BY <2>1, <3>1, <3>2, Zenon
  <2> HIDE DEF w
  <2>3. CASE Choose(w)
    BY <1>2, <2>2, <2>3, CompareMoves, ChooseStep
  <2>4. CASE hpc' = hpc /\ result' = result
    BY <1>2, <2>4, CompareMoves, CompareOn
  <2> QED BY <2>2, <2>3, <2>4
<1> QED BY <1>1, <1>2

(* The losers' worktrees go; the winner's stays where it was.                *)
LEMMA RemoveLosersStep ==
    ASSUME HeadlessInv, RemoveLosers
    PROVE  HeadlessInv'
<1>0. Typed /\ AnswersOnce /\ WorktreesHeld /\ AttemptsInOrder /\ inv.bestOf \in Nat
  BY FlagsTyped DEF HeadlessInv
<1>1. /\ hpc = "losers" /\ hpc' = "winner" /\ att' = <<>>
      /\ UNCHANGED <<inv, worktreeOn, result, patch, handled, decided, out, ledger, exit>>
      /\ \E stuck \in SUBSET (DOMAIN wt \ {result.of}) :
            wt' = [i \in DOMAIN wt |-> IF i = result.of \/ i \in stuck \/ wt[i].dir # "live" THEN wt[i]
                                      ELSE [wt[i] EXCEPT !.dir = "removed"]]
  BY Zenon DEF RemoveLosers
<1>2. PICK stuck \in SUBSET (DOMAIN wt \ {result.of}) :
            wt' = [i \in DOMAIN wt |-> IF i = result.of \/ i \in stuck \/ wt[i].dir # "live" THEN wt[i]
                                      ELSE [wt[i] EXCEPT !.dir = "removed"]]
  BY <1>1
<1>3. /\ result.of \in 1..Len(wt) /\ patch = 0 /\ handled = TRUE /\ out = "none" /\ exit = 99
      /\ wt[result.of].dir # "removed" /\ wt \in Seq(Worktree)
      /\ result = [NoResult EXCEPT !.outcome = result.outcome, !.of = result.of]
  BY <1>0, <1>1 DEF WorktreesHeld, AnswersOnce, Answering, Typed
<1>4. wt' \in Seq(Worktree) /\ Len(wt') = Len(wt) /\ wt'[result.of] = wt[result.of]
  <2> DEFINE gone(i) == [wt[i] EXCEPT !.dir = "removed"]
  <2>1. \A i \in 1..Len(wt) : wt[i] \in Worktree
    BY <1>3
  <2>2. \A i \in 1..Len(wt) : gone(i) \in Worktree
    BY <2>1 DEF Worktree
  <2> HIDE DEF gone
  <2>3. \A i \in 1..Len(wt) : (IF i = result.of \/ i \in stuck \/ wt[i].dir # "live" THEN wt[i] ELSE gone(i)) \in Worktree
    BY <2>1, <2>2
  <2>4. wt' = [i \in 1..Len(wt) |-> IF i = result.of \/ i \in stuck \/ wt[i].dir # "live" THEN wt[i] ELSE gone(i)]
    BY <1>2, <1>3 DEF gone
  <2> QED BY <1>3, <2>3, <2>4
<1>5. Typed'
  BY <1>0, <1>1, <1>3, <1>4 DEF Typed, Phases
<1>6. AnswersOnce'
  BY <1>0, <1>1 DEF AnswersOnce, Answering
<1>7. WorktreesHeld'
  BY <1>1, <1>3, <1>4 DEF WorktreesHeld, Early, Single, Tournament
<1>8. CleanupIsSafe'
  BY <1>1 DEF CleanupIsSafe
<1>9. Delivered'
  BY <1>1, <1>3 DEF Delivered
<1>10. AttemptsInOrder'
  BY <1>0, <1>1 DEF AttemptsInOrder, Tournament
<1> QED BY <1>5, <1>6, <1>7, <1>8, <1>9, <1>10, Zenon DEF HeadlessInv

(* The review of the winner may demote it, repair it, or end the run.        *)
LEMMA WinnerReviewMoves ==
    ASSUME HeadlessInv, WinnerReview
    PROVE  /\ hpc = "winner" /\ UNCHANGED <<inv, worktreeOn, att, patch, handled, decided, out, ledger>>
           /\ \E o \in LoopOutcomes \cup {result.outcome, "unverified", "provider_error"} :
                 result' = [result EXCEPT !.outcome = o] \/ result' = result
           /\ \/ wt' = wt
              \/ /\ hpc' = "collect"
                 /\ \E o \in LoopOutcomes, edited \in BOOLEAN, commits \in BOOLEAN :
                        wt' = [wt EXCEPT ![result.of] = Leaves(wt[result.of], o, edited, commits)]
           /\ \/ hpc' = "collect" /\ UNCHANGED exit
              \/ hpc' = "cleanup" /\ exit' = 1 /\ UNCHANGED <<wt, result>>
BY Zenon DEF WinnerReview

(* Reviewing and repairing the winner leaves its worktree in place.          *)
LEMMA WinnerReviewStep ==
    ASSUME HeadlessInv, WinnerReview
    PROVE  HeadlessInv'
<1>0. Typed /\ AnswersOnce /\ WorktreesHeld /\ AttemptsInOrder /\ inv.bestOf \in Nat
  BY FlagsTyped DEF HeadlessInv
<1>1. /\ hpc = "winner" /\ UNCHANGED <<inv, worktreeOn, att, patch, handled, decided, out, ledger>>
      /\ \/ hpc' = "collect" /\ UNCHANGED exit
         \/ hpc' = "cleanup" /\ exit' = 1 /\ UNCHANGED <<wt, result>>
  BY WinnerReviewMoves, Zenon
<1>3. /\ result.of \in 1..Len(wt) /\ patch = 0 /\ handled = TRUE /\ out = "none" /\ exit = 99
      /\ wt[result.of].dir # "removed" /\ wt \in Seq(Worktree) /\ result \in RunResult
      /\ result = [NoResult EXCEPT !.outcome = result.outcome, !.of = result.of]
  BY <1>0, <1>1 DEF WorktreesHeld, AnswersOnce, Answering, Typed
<1>4. wt' \in Seq(Worktree) /\ Len(wt') = Len(wt) /\ wt'[result.of].dir # "removed"
  <2>1. CASE wt' = wt
    BY <1>3, <2>1
  <2>3. CASE \E o \in LoopOutcomes, edited \in BOOLEAN, commits \in BOOLEAN :
                wt' = [wt EXCEPT ![result.of] = Leaves(wt[result.of], o, edited, commits)]
    <3>1. PICK o \in LoopOutcomes, edited \in BOOLEAN, commits \in BOOLEAN :
                wt' = [wt EXCEPT ![result.of] = Leaves(wt[result.of], o, edited, commits)]
      BY <2>3
    <3>2. wt[result.of] \in Worktree
      BY <1>3
    <3> DEFINE x == Leaves(wt[result.of], o, edited, commits)
    <3>3. x \in Worktree /\ x.dir = wt[result.of].dir
      BY <3>2, Left
    <3>4. wt' = [wt EXCEPT ![result.of] = x]
      BY <3>1
    <3> HIDE DEF x
    <3> QED BY <1>3, <3>3, <3>4, ReplaceWorktree
  <2> QED BY <2>1, <2>3, WinnerReviewMoves, Zenon
<1>5. /\ result' \in RunResult /\ result'.of = result.of
      /\ result' = [NoResult EXCEPT !.outcome = result'.outcome, !.of = result'.of]
  <2>1. PICK o \in LoopOutcomes \cup {result.outcome, "unverified", "provider_error"} :
                 result' = [result EXCEPT !.outcome = o] \/ result' = result
    BY WinnerReviewMoves
  <2>2. o \in LoopOutcomes \cup {"", "unverified", "provider_error"}
    BY <1>3, <2>1 DEF RunResult
  <2>3. CASE result' = result
    BY <1>3, <2>3
  <2>4. CASE result' = [result EXCEPT !.outcome = o]
    <3>1. result' \in RunResult /\ result'.of = result.of
      BY <1>3, <2>2, <2>4 DEF RunResult
    <3>2. result' = [NoResult EXCEPT !.outcome = o, !.of = result.of] /\ result'.outcome = o
      BY <1>3, <2>4 DEF NoResult
    <3> QED BY <3>1, <3>2
  <2> QED BY <2>1, <2>3, <2>4
<1>6. Typed'
  BY <1>0, <1>1, <1>3, <1>4, <1>5 DEF Typed, Phases
<1>7. AnswersOnce'
  BY <1>0, <1>1 DEF AnswersOnce, Answering
<1>8. WorktreesHeld'
  BY <1>1, <1>3, <1>4, <1>5 DEF WorktreesHeld, Early, Single, Tournament
<1>9. CleanupIsSafe'
  BY <1>1, <1>3 DEF CleanupIsSafe
<1>10. Delivered'
  BY <1>1, <1>3 DEF Delivered
<1>11. AttemptsInOrder'
  BY <1>0, <1>1 DEF AttemptsInOrder, Tournament
<1> QED BY <1>6, <1>7, <1>8, <1>9, <1>10, <1>11, Zenon DEF HeadlessInv

-----------------------------------------------------------------------------
(* Collecting, reporting, reviewing.                                         *)

(* What the collection leaves: the result says where the work is.            *)
LEMMA CollectMoves ==
    ASSUME HeadlessInv, Collect
    PROVE  /\ hpc = "collect" /\ hpc' = "emit" /\ UNCHANGED <<inv, worktreeOn, att, decided, out, ledger, exit>>
           /\ \/ result.of = 0 /\ UNCHANGED <<wt, result, patch, handled>>
              \/ /\ result.of # 0 /\ handled' = TRUE
                 /\ \/ result' = [result EXCEPT !.worktreePath = TRUE] /\ UNCHANGED <<wt, patch>>
                    \/ \E c \in CollectResults(wt[result.of], GitMayFail) :
                         \/ /\ result' = [result EXCEPT !.worktreePath = TRUE, !.patchError = TRUE]
                            /\ UNCHANGED <<wt, patch>>
                         \/ /\ patch' = result.of
                            /\ \/ TryRemove(result.of, [result EXCEPT !.patchPath = TRUE])
                               \/ result' = [result EXCEPT !.worktreePath = TRUE, !.patchPath = TRUE] /\ UNCHANGED wt
                         \/ /\ IsClean(c) /\ UNCHANGED patch
                            /\ \/ result' = [result EXCEPT !.worktreePath = TRUE] /\ UNCHANGED wt
                               \/ TryRemove(result.of, result)
<1> DEFINE kept == [result EXCEPT !.worktreePath = TRUE]
<1>1. /\ [kept EXCEPT !.patchError = TRUE] = [result EXCEPT !.worktreePath = TRUE, !.patchError = TRUE]
      /\ [kept EXCEPT !.patchPath = TRUE] = [result EXCEPT !.worktreePath = TRUE, !.patchPath = TRUE]
  BY Zenon
<1> QED BY <1>1, Zenon DEF Collect, TakesOver

(* After the collection the work is banked, kept or was never there.         *)
LEMMA CollectStep ==
    ASSUME HeadlessInv, Collect
    PROVE  HeadlessInv'
<1>0. Typed /\ AnswersOnce /\ WorktreesHeld /\ AttemptsInOrder /\ inv.bestOf \in Nat
  BY FlagsTyped DEF HeadlessInv
<1>1. /\ hpc = "collect" /\ hpc' = "emit" /\ UNCHANGED <<inv, worktreeOn, att, decided, out, ledger, exit>>
      /\ handled' \in BOOLEAN
  BY <1>0, CollectMoves DEF Typed
<1> DEFINE k == result.of
<1>2. /\ patch = 0 /\ wt \in Seq(Worktree) /\ result \in RunResult /\ k \in Nat /\ k <= Len(wt)
      /\ k = 0 => wt = <<>>
      /\ k # 0 => wt[k].dir # "removed"
      /\ result = [NoResult EXCEPT !.outcome = result.outcome, !.of = k]
      /\ out = "none" /\ exit = 99
  BY <1>0, <1>1 DEF WorktreesHeld, AnswersOnce, Answering, Typed
<1> DEFINE Reported == /\ wt' \in Seq(Worktree) /\ Len(wt') = Len(wt) /\ patch' \in {0, k}
                       /\ result' \in RunResult /\ result'.of = k
                       /\ k # 0 => handled' = TRUE /\ Found'
                       /\ k = 0 => wt' = <<>>
<1>3. Reported
  <2>1. CASE k = 0
    BY <1>2, <2>1, CollectMoves
  <2>2. CASE k # 0
    <3>00. handled' = TRUE
      BY <2>2, CollectMoves, Zenon
    <3>0. k \in 1..Len(wt) /\ handled' = TRUE
      BY <1>2, <2>2, <3>00
    <3>1. ASSUME result' \in {[result EXCEPT !.worktreePath = TRUE],
                              [result EXCEPT !.worktreePath = TRUE, !.patchError = TRUE]}, UNCHANGED <<wt, patch>>
          PROVE  Reported
      <4>1. result' \in RunResult /\ result'.of = k /\ result'.worktreePath = TRUE
        BY <1>2, <3>1 DEF RunResult
      <4>2. wt'[result'.of].dir # "removed"
        BY <1>2, <2>2, <3>1, <4>1
      <4> QED BY <1>2, <2>2, <3>0, <3>1, <4>1, <4>2 DEF Found
    <3>2. ASSUME result' = [result EXCEPT !.worktreePath = TRUE, !.patchPath = TRUE], UNCHANGED wt, patch' = k
          PROVE  Reported
      <4>1. result' \in RunResult /\ result'.of = k /\ result'.patchPath = TRUE
        BY <1>2, <3>2 DEF RunResult
      <4> QED BY <1>2, <2>2, <3>0, <3>2, <4>1 DEF Found
    <3>3. ASSUME patch' = k, TryRemove(k, [result EXCEPT !.patchPath = TRUE])
          PROVE  Reported
      <4>1. PICK x \in RemoveResults(wt[k], GitMayFail) :
               /\ wt' = [wt EXCEPT ![k] = x.worktree]
               /\ result' = [[result EXCEPT !.patchPath = TRUE] EXCEPT !.worktreePath = x.error]
        BY <3>3, Zenon DEF TryRemove
      <4>2. wt' \in Seq(Worktree) /\ Len(wt') = Len(wt) /\ x.error \in BOOLEAN
        <5>1. wt \in Seq(Worktree) /\ k \in 1..Len(wt)
          BY <1>2, <3>0
        <5>2. wt' = [wt EXCEPT ![k] = x.worktree]
          BY <4>1
        <5>3. wt[k] \in Worktree
          BY <5>1
        <5>4. x.error \in BOOLEAN /\ x.worktree \in Worktree /\ x.worktree.edited = wt[k].edited
          BY <5>3, Removed
        <5> QED BY <5>1, <5>2, <5>4, ReplaceWorktree
      <4>3. result' \in RunResult /\ result'.of = k /\ result'.patchPath = TRUE
        BY <1>2, <4>1, <4>2 DEF RunResult
      <4> QED BY <1>2, <2>2, <3>0, <3>3, <4>2, <4>3 DEF Found
    <3>4. ASSUME NEW c \in CollectResults(wt[k], GitMayFail), IsClean(c), TryRemove(k, result), UNCHANGED patch
          PROVE  Reported
      <4>1. PICK x \in RemoveResults(wt[k], GitMayFail) :
               wt' = [wt EXCEPT ![k] = x.worktree] /\ result' = [result EXCEPT !.worktreePath = x.error]
        BY <3>4, Zenon DEF TryRemove
      <4>2. wt' \in Seq(Worktree) /\ Len(wt') = Len(wt) /\ x.error \in BOOLEAN /\ wt'[k].edited = wt[k].edited
        <5>1. wt \in Seq(Worktree) /\ k \in 1..Len(wt)
          BY <1>2, <3>0
        <5>2. wt' = [wt EXCEPT ![k] = x.worktree]
          BY <4>1
        <5>3. wt[k] \in Worktree
          BY <5>1
        <5>4. x.error \in BOOLEAN /\ x.worktree \in Worktree /\ x.worktree.edited = wt[k].edited
          BY <5>3, Removed
        <5> QED BY <5>1, <5>2, <5>4, ReplaceWorktree
      <4>3. result' \in RunResult /\ result'.of = k
        BY <1>2, <4>1, <4>2 DEF RunResult
      <4>4. ~wt[k].edited
        <5>1. wt[k] \in Worktree
          BY <1>2, <3>0
        <5> QED BY <3>4, <5>1, Collected
      <4> QED BY <1>2, <2>2, <3>0, <3>4, <4>2, <4>3, <4>4 DEF Found
    <3> HIDE DEF Reported
    <3> QED BY <2>2, <3>1, <3>2, <3>3, <3>4, CollectMoves, Zenon DEF k
  <2> QED BY <2>1, <2>2
<1>4. Typed'
  BY <1>0, <1>1, <1>2, <1>3 DEF Typed, Phases
<1>5. AnswersOnce'
  BY <1>0, <1>1 DEF AnswersOnce, Answering
<1>6. WorktreesHeld'
  BY <1>1 DEF WorktreesHeld, Early, Single, Tournament
<1>7. CleanupIsSafe'
  BY <1>1, <1>3 DEF CleanupIsSafe
<1>8. Delivered'
  BY <1>1, <1>2, <1>3 DEF Delivered
<1>9. AttemptsInOrder'
  BY <1>0, <1>1 DEF AttemptsInOrder, Tournament
<1> QED BY <1>4, <1>5, <1>6, <1>7, <1>8, <1>9, Zenon DEF HeadlessInv

(* The one sink of a finished run reports what the collection found.         *)
LEMMA EmitStep ==
    ASSUME HeadlessInv, Emit
    PROVE  HeadlessInv'
<1>0. Typed /\ AnswersOnce /\ WorktreesHeld /\ AttemptsInOrder /\ CleanupIsSafe /\ Delivered
  BY DEF HeadlessInv
<1>1. /\ hpc = "emit" /\ hpc' \in {"review", "cleanup"} /\ out' = "result" /\ ledger' = ledger + 1
      /\ exit' = buildResult(result)
      /\ UNCHANGED <<inv, worktreeOn, wt, att, result, patch, handled, decided>>
  BY Zenon DEF Emit, runVars
<1>2. /\ buildResult(result) \in 0..8 /\ (result.patchError => buildResult(result) = 1)
      /\ (buildResult(result) = 0 => result.outcome = "answered")
  BY <1>0, ExitTable DEF Typed
<1>3. Typed'
  BY <1>0, <1>1 DEF Typed, Phases
<1>4. AnswersOnce'
  BY <1>0, <1>1, <1>2 DEF AnswersOnce, Answering
<1>5. WorktreesHeld'
  BY <1>1 DEF WorktreesHeld, Early, Single, Tournament
<1>6. CleanupIsSafe'
  BY <1>0, <1>1, Zenon DEF CleanupIsSafe
<1>7. Delivered'
  <2>1. Found => Found'
    BY <1>1 DEF Found
  <2> QED BY <1>0, <1>1, <1>2, <2>1 DEF Delivered
<1>8. AttemptsInOrder'
  BY <1>0, <1>1 DEF AttemptsInOrder, Tournament
<1> QED BY <1>3, <1>4, <1>5, <1>6, <1>7, <1>8, Zenon DEF HeadlessInv

(* A commit moves the edits to the worktree's HEAD, a discard clears them.   *)
LEMMA ActedOn ==
    ASSUME NEW w \in Worktree, NEW d
    PROVE  /\ Acted(w, d) \in Worktree /\ Acted(w, d).dir = w.dir
           /\ Acted(w, d).edited => w.edited
           /\ Acted(w, d).commits => w.commits \/ d = "commit"
<1>1. CASE d = "commit"
  BY <1>1 DEF Acted, Worktree
<1>2. CASE d = "discard"
  BY <1>2 DEF Acted, Worktree
<1>3. CASE d \notin {"commit", "discard"}
  <2>1. Acted(w, d) = w
    BY <1>3 DEF Acted
  <2> QED BY <2>1
<1> QED BY <1>1, <1>2, <1>3

(* A decision on the changes acts on the worktree that holds them.           *)
LEMMA ReviewMoves ==
    ASSUME HeadlessInv, Review
    PROVE  /\ hpc = "review" /\ hpc' \in {"postreview", "cleanup"}
           /\ hpc' = "postreview" => result.of # 0 /\ reviewOnly
           /\ UNCHANGED <<inv, worktreeOn, att, result, patch, handled, out, ledger>>
           /\ decided' \in {decided, "nothing", "commit", "discard", "keep"}
           /\ exit' = 1 \/ exit' = exit
           /\ \/ wt' = wt /\ (decided' \in {decided, "nothing"} \/ result.of = 0)
              \/ /\ result.of # 0 /\ wt[result.of].edited
                 /\ wt' = [wt EXCEPT ![result.of] = Acted(wt[result.of], decided')]
<1>0. inv.action \in {"prompt", "commit", "discard", "keep"}
  BY FlagsTyped DEF HeadlessInv
<1>1. Decisions \subseteq {"commit", "discard", "keep"}
  BY <1>0 DEF Decisions
<1>2. /\ hpc = "review" /\ UNCHANGED <<inv, worktreeOn, att, result, patch, handled, out, ledger>>
      /\ \/ exit' = 1 /\ hpc' = "cleanup" /\ UNCHANGED <<wt, decided>>
         \/ /\ \/ decided' = "nothing" /\ UNCHANGED wt
               \/ \E d \in Decisions :
                     /\ decided' = d
                     /\ result.of # 0 => wt[result.of].edited
                     /\ wt' = IF result.of # 0 THEN [wt EXCEPT ![result.of] = Acted(wt[result.of], d)] ELSE wt
            /\ hpc' = IF reviewOnly THEN "postreview" ELSE "cleanup"
            /\ UNCHANGED exit
  BY Zenon DEF Review
<1>3. reviewOnly => result.of # 0
  BY DEF reviewOnly
<1> QED BY <1>1, <1>2, <1>3, Zenon

(* The review of the changes removes nothing.                                *)
LEMMA ReviewStep ==
    ASSUME HeadlessInv, Review
    PROVE  HeadlessInv'
<1>0. Typed /\ AnswersOnce /\ WorktreesHeld /\ AttemptsInOrder /\ CleanupIsSafe /\ Delivered /\ inv.bestOf \in Nat
  BY FlagsTyped DEF HeadlessInv
<1>1. /\ hpc = "review" /\ hpc' \in {"postreview", "cleanup"} /\ (hpc' = "postreview" => result.of # 0)
      /\ UNCHANGED <<inv, worktreeOn, att, result, patch, handled, out, ledger>>
      /\ decided' \in {decided, "nothing", "commit", "discard", "keep"}
      /\ exit' = 1 \/ exit' = exit
  BY ReviewMoves, Zenon
<1>2. /\ wt \in Seq(Worktree) /\ result.of \in 0..Len(wt) /\ result \in RunResult /\ handled \in BOOLEAN
      /\ out = "result" /\ exit \in 0..8 /\ ledger = 1
  BY <1>0, <1>1 DEF Typed, AnswersOnce, Answering
<1>3. /\ wt' \in Seq(Worktree) /\ Len(wt') = Len(wt)
      /\ \A i \in 1..Len(wt) : /\ wt'[i].dir = wt[i].dir
                               /\ wt'[i].edited => wt[i].edited
  <2>1. CASE wt' = wt
    BY <1>2, <2>1
  <2>2. CASE result.of # 0 /\ wt' = [wt EXCEPT ![result.of] = Acted(wt[result.of], decided')]
    <3> DEFINE k == result.of
               x == Acted(wt[k], decided')
    <3>1. k \in 1..Len(wt) /\ wt[k] \in Worktree
      BY <1>2, <2>2
    <3>2. x \in Worktree /\ x.dir = wt[k].dir /\ (x.edited => wt[k].edited) /\ wt' = [wt EXCEPT ![k] = x]
      BY <2>2, <3>1, ActedOn
    <3> HIDE DEF k, x
    <3> QED BY <1>2, <3>1, <3>2, ReplaceWorktree
  <2> QED BY <2>1, <2>2, ReviewMoves, Zenon
<1>4. Typed'
  BY <1>0, <1>1, <1>3 DEF Typed, Phases
<1>5. AnswersOnce'
  BY <1>1, <1>2 DEF AnswersOnce, Answering
<1>6. WorktreesHeld'
  BY <1>1 DEF WorktreesHeld, Early, Single, Tournament
<1>7. CleanupIsSafe'
  <2>1. ~handled => result.of = 0
    BY <1>0, <1>1, Zenon DEF Delivered
  <2>2. ~handled => wt' = wt
    BY <2>1, ReviewMoves, Zenon
  <2>3. ~handled => \A i \in DOMAIN wt : NoWork(wt[i])
    BY <1>0, <1>1, Zenon DEF CleanupIsSafe
  <2>4. handled' = handled
    BY <1>1
  <2> QED BY <2>2, <2>3, <2>4, Zenon DEF CleanupIsSafe
<1>8. Delivered'
  <2>0. result.of # 0 => result.of \in 1..Len(wt)
    BY <1>2
  <2>1. result.of # 0 /\ Found => Found'
    <3> DEFINE k == result.of
    <3>1. k # 0 => wt'[k].dir = wt[k].dir /\ (wt'[k].edited => wt[k].edited)
      BY <1>3, <2>0
    <3>2. patch' = patch /\ result' = result
      BY <1>1
    <3> QED BY <3>1, <3>2 DEF Found
  <2> QED BY <1>0, <1>1, <1>2, <2>1 DEF Delivered
<1>9. AttemptsInOrder'
  BY <1>0, <1>1 DEF AttemptsInOrder, Tournament
<1> QED BY <1>4, <1>5, <1>6, <1>7, <1>8, <1>9, Zenon DEF HeadlessInv

(* The last removals: after a review, and the deferred one.                  *)
LEMMA LastRemovalMoves ==
    ASSUME HeadlessInv, PostReview \/ Cleanup
    PROVE  /\ \/ hpc = "postreview" /\ hpc' = "cleanup"
              \/ hpc = "cleanup" /\ hpc' = "done"
           /\ UNCHANGED <<inv, worktreeOn, att, result, patch, handled, decided, out, ledger, exit>>
           /\ \/ wt' = wt
              \/ \E k \in 1..Len(wt) : \E x \in RemoveResults(wt[k], GitMayFail) :
                   /\ ~wt[k].edited /\ wt' = [wt EXCEPT ![k] = x.worktree]
                   /\ \/ k = result.of /\ hpc = "postreview"
                      \/ ~wt[k].commits /\ hpc = "cleanup" /\ ~handled
<1>0. Typed /\ CleanupIsSafe /\ Delivered
  BY DEF HeadlessInv
<1>1. wt \in Seq(Worktree) /\ result.of \in 0..Len(wt)
  BY <1>0 DEF Typed
<1>2. CASE PostReview
  <2>1. hpc = "postreview" /\ result.of \in 1..Len(wt) /\ wt[result.of] \in Worktree
    <3>1. hpc = "postreview" /\ result.of # 0
      BY <1>0, <1>2 DEF PostReview, Delivered
    <3> QED BY <1>1, <3>1
  <2>2. PICK c \in CollectResults(wt[result.of], GitMayFail) :
          IF ~IsClean(c) THEN UNCHANGED wt
          ELSE \E x \in RemoveResults(wt[result.of], GitMayFail) : wt' = [wt EXCEPT ![result.of] = x.worktree]
    BY <1>2, Zenon DEF PostReview
  <2>3. IsClean(c) => ~wt[result.of].edited
    BY <2>1, <2>2, Collected
  <2> QED BY <1>2, <2>1, <2>2, <2>3, Zenon DEF PostReview
<1>3. CASE Cleanup
  <2>1. CASE handled \/ wt = <<>>
    BY <1>3, <2>1, Zenon DEF Cleanup
  <2>2. CASE ~(handled \/ wt = <<>>)
    <3>1. 1 \in 1..Len(wt) /\ 1 \in DOMAIN wt /\ wt[1] \in Worktree
      BY <1>1, <2>2
    <3>2. hpc = "cleanup" /\ ~wt[1].edited /\ ~wt[1].commits
      BY <1>0, <1>3, <2>2, <3>1 DEF Cleanup, CleanupIsSafe, NoWork
    <3>3. PICK x \in RemoveResults(wt[1], GitMayFail) : wt' = [wt EXCEPT ![1] = x.worktree]
      BY <1>3, <2>2, Zenon DEF Cleanup
    <3>4. hpc' = "done" /\ UNCHANGED <<inv, worktreeOn, att, result, patch, handled, decided, out, ledger, exit>>
      BY <1>3, Zenon DEF Cleanup
    <3>5. ~handled
      BY <2>2
    <3> QED BY <3>1, <3>2, <3>3, <3>4, <3>5, Zenon
  <2> QED BY <2>1, <2>2
<1> QED BY <1>2, <1>3

(* The last removals take only worktrees that hold no work.                  *)
LEMMA LastRemovalStep ==
    ASSUME HeadlessInv, PostReview \/ Cleanup
    PROVE  HeadlessInv'
<1>0. Typed /\ AnswersOnce /\ WorktreesHeld /\ AttemptsInOrder /\ CleanupIsSafe /\ Delivered /\ inv.bestOf \in Nat
  BY FlagsTyped DEF HeadlessInv
<1>1. /\ \/ hpc = "postreview" /\ hpc' = "cleanup"
         \/ hpc = "cleanup" /\ hpc' = "done"
      /\ UNCHANGED <<inv, worktreeOn, att, result, patch, handled, decided, out, ledger, exit>>
  BY LastRemovalMoves, Zenon
<1>2. wt \in Seq(Worktree) /\ result.of \in 0..Len(wt) /\ handled \in BOOLEAN
  BY <1>0 DEF Typed
<1>3. CASE wt' = wt
  <2>1. Typed'
    BY <1>0, <1>1, <1>3 DEF Typed, Phases
  <2>2. AnswersOnce'
    BY <1>0, <1>1 DEF AnswersOnce, Answering
  <2>3. WorktreesHeld'
    BY <1>1 DEF WorktreesHeld, Early, Single, Tournament
  <2>4. CleanupIsSafe'
    BY <1>0, <1>1, <1>3 DEF CleanupIsSafe
  <2>5. Delivered'
    <3>1. Found => Found'
      BY <1>1, <1>3 DEF Found
    <3> QED BY <1>0, <1>1, <3>1 DEF Delivered
  <2>6. AttemptsInOrder'
    BY <1>0, <1>1 DEF AttemptsInOrder, Tournament
  <2> QED BY <2>1, <2>2, <2>3, <2>4, <2>5, <2>6, Zenon DEF HeadlessInv
<1>4. ASSUME NEW k \in 1..Len(wt), NEW x \in RemoveResults(wt[k], GitMayFail),
             ~wt[k].edited, wt' = [wt EXCEPT ![k] = x.worktree],
             (k = result.of /\ hpc = "postreview") \/ (hpc = "cleanup" /\ ~handled)
      PROVE  HeadlessInv'
  <2>1. /\ wt' \in Seq(Worktree) /\ Len(wt') = Len(wt)
        /\ \A i \in DOMAIN wt' : i \in DOMAIN wt /\ wt'[i].edited = wt[i].edited /\ wt'[i].commits = wt[i].commits
        /\ ~wt'[k].edited
    <3>1. wt[k] \in Worktree
      BY <1>2
    <3>2. x.worktree \in Worktree /\ x.worktree.edited = wt[k].edited /\ x.worktree.commits = wt[k].commits
      BY <3>1, Removed
    <3> QED BY <1>2, <1>4, <3>2, ReplaceWorktree
  <2>2. Typed'
    BY <1>0, <1>1, <2>1 DEF Typed, Phases
  <2>3. AnswersOnce'
    BY <1>0, <1>1 DEF AnswersOnce, Answering
  <2>4. WorktreesHeld'
    BY <1>1 DEF WorktreesHeld, Early, Single, Tournament
  <2>5. CleanupIsSafe'
    <3>1. \A i \in DOMAIN wt' : i \in DOMAIN wt /\ (NoWork(wt[i]) => NoWork(wt'[i]))
      BY <2>1, Zenon DEF NoWork
    <3> QED BY <1>0, <1>1, <3>1, Zenon DEF CleanupIsSafe
  <2>6. Delivered'
    <3>1. (hpc \in {"emit", "review", "postreview"} \/ out = "result") /\ result.of # 0 => k = result.of
      BY <1>0, <1>4 DEF Delivered
    <3>2. k = result.of => Found'
      BY <1>1, <2>1, Zenon DEF Found
    <3> QED BY <1>0, <1>1, <3>1, <3>2 DEF Delivered
  <2>7. AttemptsInOrder'
    BY <1>0, <1>1 DEF AttemptsInOrder, Tournament
  <2> QED BY <2>2, <2>3, <2>4, <2>5, <2>6, <2>7, Zenon DEF HeadlessInv
<1> QED BY <1>3, <1>4, LastRemovalMoves, Zenon

(* A stuttering step keeps everything.                                       *)
LEMMA HeadlessUnchanged ==
    ASSUME HeadlessInv, UNCHANGED hvars
    PROVE  HeadlessInv'
<1>1. UNCHANGED <<inv, hpc, worktreeOn, wt, att, result, patch, handled, decided, out, ledger, exit>>
  BY DEF hvars
<1>2. Typed' = Typed /\ AnswersOnce' = AnswersOnce /\ AttemptsInOrder' = AttemptsInOrder
  BY <1>1 DEF Typed, AnswersOnce, AttemptsInOrder
<1>3. WorktreesHeld' = WorktreesHeld /\ CleanupIsSafe' = CleanupIsSafe
  BY <1>1 DEF WorktreesHeld, CleanupIsSafe
<1>4. Delivered' = Delivered
  BY <1>1 DEF Delivered, Found
<1> QED BY <1>2, <1>3, <1>4 DEF HeadlessInv

-----------------------------------------------------------------------------
(* The tournament's invariant.                                               *)

(* Outside of the comparisons there is no champion.                          *)
LEMMA NoChampion ==
    ASSUME HeadlessInv, KnockoutInv, HeadlessNext, ~StartSelection, ~Compare
    PROVE  /\ hpc \notin {"compare", "losers"} => hpc' \notin {"compare", "losers"} /\ UNCHANGED champ
           /\ hpc = "losers" => hpc' = "winner" /\ champ' = <<>>
           /\ hpc # "compare"
BY Zenon DEF HeadlessNext, Parse, Consent, Ambient, Workspace, AddWorktree, Prepare, Loop, Ladder, Sweep, Attempt, Solve,
    RemoveLosers, WinnerReview, Collect, Emit, Review, PostReview, Cleanup, failSetup, runVars

(* What one comparison yields.                                               *)
LEMMA VerdictGiven ==
    ASSUME NEW i \in Nat, NEW j \in Nat, i < j, NEW p1 \in Picks, NEW p2 \in Picks,
           NEW v, v = runComparison(i, j, p1, p2)
    PROVE  /\ v \in Verdict /\ v.pair = {i, j} /\ v.winner \in {i, j}
           /\ v.consistent => v.winner = (IF v.picks = <<"A", "B">> THEN v.first ELSE v.second)
           /\ NoVerdict(v) => v.winner = selectBestByStructure(i, j)
<1>1. /\ v.pair = {i, j} /\ v.first = i /\ v.second = j /\ v.consistent = Consistent(p1, p2) /\ v.picks = <<p1, p2>>
      /\ v.winner = IF Consistent(p1, p2) THEN (IF p1 = "A" THEN i ELSE j) ELSE selectBestByStructure(i, j)
  BY DEF runComparison
<1>2. selectBestByStructure(i, j) \in {i, j}
  BY DEF selectBestByStructure
<1>3. v \in Verdict
  <2>1. Consistent(p1, p2) \in BOOLEAN
    BY DEF Consistent
  <2>2. <<p1, p2>> \in Seq(Picks) /\ {i, j} \in SUBSET Nat
    OBVIOUS
  <2>3. v = [pair |-> v.pair, first |-> v.first, second |-> v.second, consistent |-> v.consistent,
             picks |-> v.picks, winner |-> v.winner]
    BY Zenon DEF runComparison
  <2>4. v.winner \in Nat
    BY <1>1, <1>2
  <2> QED BY <1>1, <2>1, <2>2, <2>3, <2>4 DEF Verdict
<1>4. v.consistent => v.winner = (IF v.picks = <<"A", "B">> THEN v.first ELSE v.second)
  <2>1. CASE p1 = "A"
    <3>1. v.consistent => p2 = "B"
      BY <1>1, <2>1 DEF Consistent, Picks
    <3> QED BY <1>1, <2>1, <3>1
  <2>2. CASE p1 # "A"
    <3>1. <<p1, p2>> # <<"A", "B">>
      BY <2>2
    <3> QED BY <1>1, <2>2, <3>1
  <2> QED BY <2>1, <2>2
<1>5. NoVerdict(v) => ~Consistent(p1, p2)
  <2>1. v.picks[1] = p1 /\ v.picks[2] = p2
    BY <1>1
  <2> QED BY <2>1, Zenon DEF NoVerdict, Consistent
<1> QED BY <1>1, <1>2, <1>3, <1>4, <1>5

(* The structural rank is a number.                                          *)
LEMMA RankTyped ==
    ASSUME att \in Seq(Finished), NEW i \in 1..Len(att)
    PROVE  attemptStructuralRank(att[i]) \in 0..3
BY DEF attemptStructuralRank

(* The structurally better of the champion and a later challenger is the     *)
(* best of all.                                                              *)
LEMMA BestExtends ==
    ASSUME att \in Seq(Finished), NEW S \in SUBSET (1..Len(att)), NEW w \in S, NEW c \in 1..Len(att),
           w < c, \A i \in S : i < c, StructurallyBest(att, w, S)
    PROVE  StructurallyBest(att, selectBestByStructure(w, c), S \cup {c})
<1> DEFINE rank(i) == attemptStructuralRank(att[i])
<1>1. \A i \in S \cup {c} : rank(i) \in Nat /\ i \in Nat
  BY RankTyped
<1>2. \A i \in S : rank(w) < rank(i) \/ (rank(w) = rank(i) /\ w <= i)
  BY Zenon DEF StructurallyBest
<1>3. selectBestByStructure(w, c) = IF rank(c) < rank(w) \/ (rank(c) = rank(w) /\ c < w) THEN c ELSE w
  BY Zenon DEF selectBestByStructure
<1> HIDE DEF rank
<1>4. CASE rank(c) < rank(w)
  <2>1. selectBestByStructure(w, c) = c
    BY <1>3, <1>4
  <2>2. \A i \in S \cup {c} : rank(c) < rank(i) \/ (rank(c) = rank(i) /\ c <= i)
    BY <1>1, <1>2, <1>4
  <2> QED BY <2>1, <2>2 DEF StructurallyBest, rank
<1>5. CASE ~(rank(c) < rank(w))
  <2>1. selectBestByStructure(w, c) = w
    BY <1>1, <1>3, <1>5
  <2>2. \A i \in S \cup {c} : rank(w) < rank(i) \/ (rank(w) = rank(i) /\ w <= i)
    BY <1>1, <1>2, <1>5
  <2> QED BY <2>1, <2>2 DEF StructurallyBest, rank
<1> QED BY <1>4, <1>5

(* The knockout goes on: the challenger of a sound knockout joins it.        *)
LEMMA KnockoutExtends ==
    ASSUME att \in Seq(Finished), NEW V \in Seq(Verdict), NEW S \in SUBSET (1..Len(att)), NEW a \in S, NEW c \in 1..Len(att),
           \A i \in S : i < c, Knockout(V, att, a, S),
           NEW v \in Verdict, v.pair = {a, c}, v.winner \in {a, c},
           v.consistent => v.winner = (IF v.picks = <<"A", "B">> THEN v.first ELSE v.second),
           NoVerdict(v) => v.winner = selectBestByStructure(a, c)
    PROVE  Knockout(Append(V, v), att, v.winner, S \cup {c}) /\ Append(V, v) \in Seq(Verdict)
<1> DEFINE N == Len(V)
           W == Append(V, v)
           w == v.winner
           T == S \cup {c}
<1>1. /\ N \in Nat /\ DOMAIN V = 1..N /\ DOMAIN W = 1..(N + 1) /\ W \in Seq(Verdict) /\ V \in Seq(Verdict)
      /\ \A n \in 1..N : W[n] = V[n]
      /\ W[N + 1] = v
  OBVIOUS
<1>2. /\ Losses(V, a) = {}
      /\ \A n \in DOMAIN V : V[n].pair \subseteq S
      /\ \A i \in S \ {a} : \E n \in DOMAIN V : Losses(V, i) = {n} /\ \A m \in DOMAIN V : m > n => i \notin V[m].pair
      /\ \A n \in DOMAIN V : V[n].consistent =>
          V[n].winner = (IF V[n].picks = <<"A", "B">> THEN V[n].first ELSE V[n].second)
      /\ (\A n \in DOMAIN V : NoVerdict(V[n])) => StructurallyBest(att, a, S)
  BY Zenon DEF Knockout
<1>3. c \notin S /\ a # c
  BY <1>1
<1>4. \A i : Losses(V, i) = {n \in 1..N : i \in V[n].pair /\ V[n].winner # i}
  BY <1>1 DEF Losses
<1>5. \A i : Losses(W, i) = {n \in 1..(N + 1) : i \in W[n].pair /\ W[n].winner # i}
  BY <1>1 DEF Losses
<1> HIDE DEF N, W
<1>6. \A i : Losses(W, i) = Losses(V, i) \cup (IF i \in v.pair /\ v.winner # i THEN {N + 1} ELSE {})
  <2> TAKE i
  <2>1. \A n : n \in 1..(N + 1) <=> n \in 1..N \/ n = N + 1
    BY <1>1
  <2>2. \A n : n \in Losses(W, i) <=> n \in Losses(V, i) \/ (n = N + 1 /\ i \in v.pair /\ v.winner # i)
    <3> TAKE n
    <3>1. CASE n \in 1..N
      BY <1>1, <1>4, <1>5, <2>1, <3>1
    <3>2. CASE n = N + 1
      <4>1. n \notin 1..N
        BY <1>1, <3>2
      <4> QED BY <1>1, <1>4, <1>5, <2>1, <3>2, <4>1
    <3>3. CASE n \notin 1..(N + 1)
      BY <1>4, <1>5, <2>1, <3>3
    <3> QED BY <2>1, <3>1, <3>2, <3>3
  <2> QED BY <2>2
<1>7. Losses(V, c) = {}
  BY <1>1, <1>2, <1>3, <1>4
<1>8. Losses(W, w) = {}
  BY <1>2, <1>6, <1>7
<1>9. ASSUME NEW i \in T \ {w}
      PROVE  \E n \in DOMAIN W : Losses(W, i) = {n} /\ \A m \in DOMAIN W : m > n => i \notin W[m].pair
  <2>1. CASE i \in {a, c}
    <3>1. Losses(W, i) = {N + 1}
      BY <1>2, <1>6, <1>7, <1>9, <2>1
    <3>2. N + 1 \in DOMAIN W /\ \A m \in DOMAIN W : ~(m > N + 1)
      BY <1>1
    <3> QED BY <3>1, <3>2
  <2>2. CASE i \notin {a, c}
    <3>1. i \in S \ {a}
      BY <1>9, <2>2
    <3>2. PICK n \in DOMAIN V : Losses(V, i) = {n} /\ \A m \in DOMAIN V : m > n => i \notin V[m].pair
      BY <1>2, <3>1
    <3>3. Losses(W, i) = {n}
      BY <1>6, <2>2, <3>2
    <3>4. ASSUME NEW m \in DOMAIN W, m > n PROVE i \notin W[m].pair
      <4>1. CASE m \in DOMAIN V
        BY <1>1, <3>2, <3>4, <4>1
      <4>2. CASE m = N + 1
        BY <1>1, <2>2, <4>2
      <4> QED BY <1>1, <4>1, <4>2
    <3> QED BY <1>1, <3>2, <3>3, <3>4
  <2> QED BY <2>1, <2>2
<1>10. \A n \in DOMAIN W : W[n].pair \subseteq T
  <2> TAKE n \in DOMAIN W
  <2>1. n \in DOMAIN V \/ n = N + 1
    BY <1>1
  <2> QED BY <1>1, <1>2, <2>1
<1>11. \A n \in DOMAIN W : W[n].consistent =>
          W[n].winner = (IF W[n].picks = <<"A", "B">> THEN W[n].first ELSE W[n].second)
  <2> TAKE n \in DOMAIN W
  <2>1. n \in DOMAIN V \/ n = N + 1
    BY <1>1
  <2> QED BY <1>1, <1>2, <2>1
<1>12. ASSUME \A n \in DOMAIN W : NoVerdict(W[n])
       PROVE  StructurallyBest(att, w, T)
  <2>1. NoVerdict(v) /\ \A n \in DOMAIN V : NoVerdict(V[n])
    <3>1. N + 1 \in DOMAIN W /\ \A n \in DOMAIN V : n \in DOMAIN W /\ W[n] = V[n]
      BY <1>1
    <3> QED BY <1>1, <1>12, <3>1, Zenon
  <2>2. w = selectBestByStructure(a, c) /\ StructurallyBest(att, a, S)
    BY <1>2, <2>1
  <2>3. a < c
    OBVIOUS
  <2> QED BY <2>2, <2>3, BestExtends
<1>13. w \in T
  OBVIOUS
<1> HIDE DEF w, T
<1>14. Knockout(W, att, w, T)
  BY <1>8, <1>9, <1>10, <1>11, <1>12, <1>13, Zenon DEF Knockout
<1> QED BY <1>1, <1>14 DEF W, w, T

(* The first candidate alone is a knockout without a comparison.             *)
LEMMA KnockoutStart ==
    ASSUME HeadlessInv, KnockoutInv, StartSelection
    PROVE  KnockoutInv'
<1>1. /\ hpc = "select" /\ att \in Seq(Finished) /\ att' = att /\ champ = <<>>
      /\ \/ hpc' = "losers" /\ champ' = champ
         \/ /\ hpc' = "compare"
            /\ \E first \in Candidates :
                      /\ \A i \in Candidates : first <= i
                      /\ NextChallenger(first) # 0
                      /\ champ' = [at |-> first, next |-> NextChallenger(first), verdicts |-> <<>>]
  BY StartSelectionMoves, Zenon DEF Choose, KnockoutInv
<1>2. CASE hpc' = "losers" /\ champ' = champ
  BY <1>1, <1>2 DEF KnockoutInv
<1>3. ASSUME hpc' = "compare", NEW first \in Candidates, \A i \in Candidates : first <= i,
             NextChallenger(first) # 0,
             champ' = [at |-> first, next |-> NextChallenger(first), verdicts |-> <<>>]
      PROVE  KnockoutInv'
  <2> DEFINE c == NextChallenger(first)
             T == {i \in Candidates : i < c}
  <2>1. champ'.at = first /\ champ'.next = c /\ champ'.verdicts = <<>>
    BY <1>3
  <2>2. Candidates' = Candidates
    BY <1>1 DEF Candidates
  <2>3. Candidates \subseteq 1..Len(att)
    BY DEF Candidates
  <2>4. c \in Candidates /\ c > first /\ \A i \in Candidates : i > first => c <= i
    <3>1. first \in Nat
      BY <1>1, <2>3
    <3> QED BY <1>1, <1>3, <3>1, Challenger
  <2> HIDE DEF c
  <2>5. T = {first}
    <3>1. \A i \in Candidates : i \in Nat
      BY <1>1, <2>3
    <3> QED BY <1>3, <2>4, <3>1
  <2> HIDE DEF T
  <2>6. Knockout(<<>>, att, first, T)
    <3>1. \A i : Losses(<<>>, i) = {}
      BY DEF Losses
    <3>2. DOMAIN <<>> = {}
      OBVIOUS
    <3>3. StructurallyBest(att, first, T)
      <4>1. first <= first
        BY <1>1, <2>3
      <4> QED BY <2>5, <4>1, Zenon DEF StructurallyBest
    <3> QED BY <2>5, <3>1, <3>2, <3>3 DEF Knockout
  <2>7. champ'.verdicts \in Seq(Verdict)
    BY <2>1
  <2>8. T = {i \in Candidates' : i < champ'.next}
    BY <2>1, <2>2 DEF T
  <2> QED BY <1>1, <1>3, <2>1, <2>2, <2>4, <2>6, <2>7, <2>8 DEF KnockoutInv
<1> QED BY <1>1, <1>2, <1>3, Zenon

(* One more comparison extends the knockout by its challenger.               *)
LEMMA KnockoutGoesOn ==
    ASSUME HeadlessInv, KnockoutInv, Compare
    PROVE  KnockoutInv'
<1>1. /\ hpc = "compare" /\ att \in Seq(Finished) /\ att' = att
      /\ champ.at \in Candidates /\ champ.next \in Candidates /\ champ.at < champ.next
      /\ \E p1, p2 \in Picks :
                LET v == runComparison(champ.at, champ.next, p1, p2)
                    n == NextChallenger(champ.next)
                IN  /\ champ' = [at |-> v.winner, next |-> n, verdicts |-> Append(champ.verdicts, v)]
                    /\ IF n = 0 THEN Choose(v.winner) ELSE hpc' = hpc
  BY CompareMoves, Zenon
<1> DEFINE a == champ.at
           c == champ.next
           n == NextChallenger(champ.next)
<1>2. PICK p1 \in Picks, p2 \in Picks :
                LET v == runComparison(a, c, p1, p2)
                IN  /\ champ' = [at |-> v.winner, next |-> n, verdicts |-> Append(champ.verdicts, v)]
                    /\ IF n = 0 THEN Choose(v.winner) ELSE hpc' = hpc
  BY <1>1, Zenon
<1> DEFINE v == runComparison(a, c, p1, p2)
           S == {i \in Candidates : i < c}
           T == S \cup {c}
<1>3. /\ champ'.at = v.winner /\ champ'.next = n /\ champ'.verdicts = Append(champ.verdicts, v)
      /\ IF n = 0 THEN Choose(v.winner) ELSE hpc' = hpc
  BY <1>2
<1>4. Candidates' = Candidates /\ Candidates \subseteq 1..Len(att) /\ \A i \in Candidates : i \in Nat
  <2>1. Candidates' = Candidates /\ Candidates \subseteq 1..Len(att)
    BY <1>1 DEF Candidates
  <2> QED BY <1>1, <2>1
<1>5. champ.verdicts \in Seq(Verdict) /\ Knockout(champ.verdicts, att, a, S)
  BY <1>1, Zenon DEF KnockoutInv
<1>6. /\ a \in S /\ S \in SUBSET (1..Len(att)) /\ c \in 1..Len(att) /\ \A i \in S : i < c
      /\ a \in Nat /\ c \in Nat /\ a < c
  BY <1>1, <1>4
<1>7. \/ n = 0 /\ \A i \in Candidates : i <= c
      \/ n \in Candidates /\ n > c /\ \A i \in Candidates : i > c => n <= i
  BY <1>1, <1>6, Challenger
<1> HIDE DEF a, c, n
<1>8. /\ v \in Verdict /\ v.pair = {a, c} /\ v.winner \in {a, c}
      /\ v.consistent => v.winner = (IF v.picks = <<"A", "B">> THEN v.first ELSE v.second)
      /\ NoVerdict(v) => v.winner = selectBestByStructure(a, c)
  BY <1>6, VerdictGiven
<1> HIDE DEF v
<1>9. T = IF n = 0 THEN Candidates ELSE {i \in Candidates : i < n}
  <2>0. c \in Candidates
    BY <1>1 DEF c
  <2>1. CASE n = 0
    <3>1. \A i \in Candidates : i <= c
      BY <1>4, <1>6, <1>7, <2>1
    <3>2. \A i \in Candidates : i < c \/ i = c
      BY <1>4, <1>6, <3>1
    <3> QED BY <2>0, <2>1, <3>2
  <2>2. CASE n # 0
    <3>1. n \in Candidates /\ n > c /\ \A i \in Candidates : i > c => n <= i
      BY <1>7, <2>2
    <3>2. \A i \in Candidates : i < n <=> i < c \/ i = c
      BY <1>4, <1>6, <3>1
    <3> QED BY <2>0, <2>2, <3>2
  <2> QED BY <2>1, <2>2
<1> DEFINE w == v.winner
<1>10. Knockout(champ'.verdicts, att, w, T) /\ champ'.verdicts \in Seq(Verdict)
  <2> DEFINE V == champ.verdicts
  <2>1. champ'.verdicts = Append(V, v)
    BY <1>3
  <2>2. V \in Seq(Verdict) /\ Knockout(V, att, a, S)
    BY <1>5
  <2> HIDE DEF S, V
  <2>3. Knockout(Append(V, v), att, v.winner, S \cup {c}) /\ Append(V, v) \in Seq(Verdict)
    BY <1>1, <1>6, <1>8, <2>2, KnockoutExtends
  <2> QED BY <2>1, <2>3
<1> HIDE DEF S, T, w
<1>11. CASE n = 0
  <2>1. hpc' = "losers" /\ result'.of = w
    <3>1. Choose(w)
      BY <1>3, <1>11 DEF w
    <3> QED BY <3>1 DEF Choose, NoResult
  <2>2. T = Candidates'
    BY <1>4, <1>9, <1>11
  <2> QED BY <1>1, <1>10, <2>1, <2>2 DEF KnockoutInv
<1>12. CASE n # 0
  <2>1. hpc' = "compare" /\ champ'.at = w /\ champ'.next = n /\ n \in Candidates'
    BY <1>1, <1>3, <1>4, <1>7, <1>12 DEF w
  <2>2. T = {i \in Candidates' : i < champ'.next}
    BY <1>4, <1>9, <1>12, <2>1
  <2> QED BY <1>1, <1>10, <2>1, <2>2 DEF KnockoutInv
<1> QED BY <1>11, <1>12

-----------------------------------------------------------------------------
(* The invariant is kept by every step.                                      *)

(* Every step keeps the knockout.                                            *)
LEMMA KnockoutStep ==
    ASSUME HeadlessInv, KnockoutInv, [HeadlessNext]_hvars
    PROVE  KnockoutInv'
<1>1. CASE StartSelection
  BY <1>1, KnockoutStart
<1>2. CASE Compare
  BY <1>2, KnockoutGoesOn
<1>3. CASE HeadlessNext /\ ~StartSelection /\ ~Compare
  <2>1. CASE hpc \notin {"compare", "losers"}
    <3>1. hpc' \notin {"compare", "losers"} /\ champ' = champ /\ champ = <<>>
      BY <1>3, <2>1, NoChampion, Zenon DEF KnockoutInv
    <3> QED BY <3>1 DEF KnockoutInv
  <2>2. CASE hpc = "losers"
    <3>1. hpc' = "winner" /\ champ' = <<>>
      BY <1>3, <2>2, NoChampion, Zenon
    <3> QED BY <3>1 DEF KnockoutInv
  <2>3. CASE hpc = "compare"
    BY <1>3, <2>3, NoChampion, Zenon
  <2> QED BY <2>1, <2>2, <2>3
<1>4. CASE UNCHANGED hvars
  <2>1. UNCHANGED <<hpc, champ, att, result>>
    BY <1>4 DEF hvars
  <2> QED BY <2>1 DEF KnockoutInv, Candidates
<1> QED BY <1>1, <1>2, <1>3, <1>4, Zenon

(* Every step keeps the invariant.                                           *)
LEMMA HeadlessStep ==
    ASSUME HeadlessInv, KnockoutInv, [HeadlessNext]_hvars
    PROVE  HeadlessInv'
<1>1. CASE Parse \/ Consent \/ Ambient \/ Workspace
  BY <1>1, EarlySteps
<1>2. CASE AddWorktree \/ Prepare \/ Loop \/ Ladder \/ Sweep
  BY <1>2, AddWorktreeStep, PrepareStep, LoopStep, LadderStep, SweepStep
<1>3. CASE Attempt \/ Solve \/ StartSelection \/ Compare \/ RemoveLosers \/ WinnerReview
  BY <1>3, AttemptStep, SolveStep, TournamentSteps, RemoveLosersStep, WinnerReviewStep
<1>4. CASE Collect \/ Emit \/ Review \/ PostReview \/ Cleanup
  BY <1>4, CollectStep, EmitStep, ReviewStep, LastRemovalStep
<1>5. CASE UNCHANGED hvars
  BY <1>5, HeadlessUnchanged
<1> QED BY <1>1, <1>2, <1>3, <1>4, <1>5, Zenon DEF HeadlessNext

-----------------------------------------------------------------------------
(* The commits of the chosen worktree.                                       *)

(* A collection keeps the worktree, or was neither failing nor skipped and   *)
(* no review follows.                                                        *)
LEMMA CollectKeeps ==
    ASSUME HeadlessInv, Collect, result.of # 0
    PROVE  /\ result'.of = result.of
           /\ \/ /\ wt' = wt /\ result'.worktreePath = TRUE
                 /\ reviewOnly' => ~wt[result.of].edited
              \/ inv.transcripts /\ result'.patchError = FALSE /\ ~Reviews'
<1> DEFINE k    == result.of
           kept == [result EXCEPT !.worktreePath = TRUE]
<1>1. /\ result \in RunResult /\ result.patchError = FALSE /\ wt \in Seq(Worktree) /\ k \in 1..Len(wt)
      /\ inv' = inv
  <2>1. Typed /\ WorktreesHeld /\ hpc = "collect" /\ inv' = inv
    BY Zenon DEF HeadlessInv, Collect
  <2>2. result = [NoResult EXCEPT !.outcome = result.outcome, !.of = result.of]
    BY <2>1, Zenon DEF WorktreesHeld
  <2>3. result.patchError = FALSE
    BY <2>2 DEF NoResult
  <2> QED BY <2>1, <2>3 DEF Typed
<1>2. /\ kept.of = k /\ kept.worktreePath = TRUE
      /\ [kept EXCEPT !.patchError = TRUE].of = k /\ [kept EXCEPT !.patchError = TRUE].worktreePath = TRUE
      /\ [kept EXCEPT !.patchError = TRUE].patchError = TRUE
      /\ [kept EXCEPT !.patchPath = TRUE].of = k /\ [kept EXCEPT !.patchPath = TRUE].worktreePath = TRUE
      /\ [kept EXCEPT !.patchPath = TRUE].patchPath = TRUE
  BY <1>1 DEF RunResult
<1>3. ASSUME NEW p \in BOOLEAN, TryRemove(k, [result EXCEPT !.patchPath = p])
      PROVE  result'.of = k /\ result'.patchError = FALSE /\ result'.outcome = result.outcome
  <2>1. PICK x \in RemoveResults(wt[k], GitMayFail) :
           result' = [[result EXCEPT !.patchPath = p] EXCEPT !.worktreePath = x.error]
    BY <1>3, Zenon DEF TryRemove
  <2> QED BY <1>1, <2>1 DEF RunResult
<1>3a. ASSUME TryRemove(k, result)
       PROVE  result'.of = k /\ result'.patchError = FALSE /\ result'.outcome = result.outcome
  <2>1. PICK x \in RemoveResults(wt[k], GitMayFail) : result' = [result EXCEPT !.worktreePath = x.error]
    BY <1>3a, Zenon DEF TryRemove
  <2> QED BY <1>1, <2>1 DEF RunResult
<1> HIDE DEF kept
<1>4. \/ ~inv.transcripts /\ result' = kept /\ wt' = wt
      \/ /\ inv.transcripts
         /\ \E c \in CollectResults(wt[k], GitMayFail) :
              \/ result' = [kept EXCEPT !.patchError = TRUE] /\ wt' = wt
              \/ ~inv.review /\ TryRemove(k, [result EXCEPT !.patchPath = TRUE])
              \/ result' = [kept EXCEPT !.patchPath = TRUE] /\ wt' = wt
              \/ IsClean(c) /\ result' = kept /\ wt' = wt
              \/ ~Reviews /\ TryRemove(k, result)
  BY Zenon DEF Collect, shouldRemovePatchedWorktree, Reviews, kept
<1>5. CASE ~inv.transcripts /\ result' = kept /\ wt' = wt
  BY <1>1, <1>2, <1>5, Zenon DEF reviewOnly
<1>6. ASSUME inv.transcripts, NEW c \in CollectResults(wt[k], GitMayFail),
             \/ result' = [kept EXCEPT !.patchError = TRUE] /\ wt' = wt
             \/ result' = [kept EXCEPT !.patchPath = TRUE] /\ wt' = wt
      PROVE  result'.of = k /\ wt' = wt /\ result'.worktreePath = TRUE /\ ~reviewOnly'
  BY <1>2, <1>6, Zenon DEF reviewOnly
<1>7. ASSUME NEW c \in CollectResults(wt[k], GitMayFail), IsClean(c), result' = kept /\ wt' = wt
      PROVE  result'.of = k /\ wt' = wt /\ result'.worktreePath = TRUE /\ ~wt[k].edited
  <2>1. wt[k] \in Worktree
    BY <1>1
  <2> QED BY <1>2, <1>7, <2>1, Collected
<1>8. ASSUME inv.transcripts, ~inv.review, TryRemove(k, [result EXCEPT !.patchPath = TRUE])
      PROVE  result'.of = k /\ inv.transcripts /\ result'.patchError = FALSE /\ ~Reviews'
  BY <1>1, <1>3, <1>8, Zenon DEF Reviews
<1>9. ASSUME inv.transcripts, ~Reviews, TryRemove(k, result)
      PROVE  result'.of = k /\ inv.transcripts /\ result'.patchError = FALSE /\ ~Reviews'
  BY <1>1, <1>3a, <1>9, Zenon DEF Reviews
<1> QED BY <1>4, <1>5, <1>6, <1>7, <1>8, <1>9, Zenon

(* Until it answers, a run has reported and decided nothing.                 *)
LEMMA CommitsUnreported ==
    ASSUME HeadlessInv, CommitsHeld, decided' = decided,
           hpc' \notin {"emit", "review", "postreview"},
           hpc \notin {"postreview", "cleanup", "done"} \/ hpc' \in {"cleanup", "done"},
           out' # "result" \/ result'.of = 0
    PROVE  CommitsHeld'
BY DEF CommitsHeld, ForReview

(* The steps that precede a report.                                          *)
LEMMA CommitsBefore ==
    ASSUME HeadlessInv, CommitsHeld,
           \/ Parse \/ Consent \/ Ambient \/ Workspace \/ AddWorktree \/ Prepare \/ Loop \/ Ladder
           \/ Attempt \/ Solve \/ StartSelection \/ Compare \/ RemoveLosers \/ WinnerReview
    PROVE  CommitsHeld'
<1> DEFINE Quiet == /\ decided' = decided /\ hpc' \notin {"emit", "review", "postreview"}
                    /\ hpc \notin {"emit", "review", "postreview", "cleanup", "done"}
                    /\ out' \in {out, "error"} \/ result'.of = 0
<1>1. CASE Parse \/ Consent \/ Ambient
  <2>1. Quiet
    BY <1>1, Zenon DEF Parse, Consent, Ambient, runVars, failSetup
  <2> QED BY <2>1, CommitsUnreported DEF HeadlessInv, AnswersOnce, Answering
<1>2. CASE Workspace \/ AddWorktree \/ Prepare
  <2>1. Quiet
    <3>1. CASE Workspace
      <4>1. /\ hpc = "workspace" /\ decided' = decided
            /\ \/ failSetup
               \/ hpc' = (CASE inv.bestOf >= 2 -> "attempt"
                           [] inv.bestOf < 2 /\ worktreeOn' -> "worktree"
                           [] OTHER -> "prepare") /\ UNCHANGED <<out, ledger, exit>>
        BY <3>1, Zenon DEF Workspace
      <4>2. CASE failSetup
        BY <4>1, <4>2, Zenon DEF failSetup
      <4>3. CASE /\ UNCHANGED <<out, ledger, exit>>
                 /\ hpc' = (CASE inv.bestOf >= 2 -> "attempt"
                              [] inv.bestOf < 2 /\ worktreeOn' -> "worktree"
                              [] OTHER -> "prepare")
        <5>1. hpc' \in {"attempt", "worktree", "prepare"}
          BY <4>3
        <5> QED BY <4>1, <4>3, <5>1
      <4> QED BY <4>1, <4>2, <4>3
    <3>2. CASE AddWorktree \/ Prepare
      BY <3>2, Zenon DEF AddWorktree, Prepare, runVars, failSetup
    <3> QED BY <1>2, <3>1, <3>2
  <2> QED BY <2>1, CommitsUnreported DEF HeadlessInv, AnswersOnce, Answering
<1>3. CASE Loop \/ Ladder
  <2>1. CASE Loop
    <3>1. Quiet
      BY <2>1, Zenon DEF Loop, failSetup
    <3> QED BY <3>1, CommitsUnreported DEF HeadlessInv, AnswersOnce, Answering
  <2>2. CASE Ladder
    <3>1. /\ decided' = decided /\ hpc' = "cleanup" /\ hpc = "ladder"
          /\ out' = "error" \/ \E o : result' = [NoResult EXCEPT !.outcome = o]
      BY <2>2, Zenon DEF Ladder, failSetup
    <3>2. \A o : [NoResult EXCEPT !.outcome = o].of = 0
      BY DEF NoResult
    <3> QED BY <3>1, <3>2, CommitsUnreported
  <2> QED BY <1>3, <2>1, <2>2
<1>4. CASE Attempt \/ Solve
  <2>1. Quiet
    BY <1>4, Zenon DEF Attempt, Solve, failSetup
  <2> QED BY <2>1, CommitsUnreported DEF HeadlessInv, AnswersOnce, Answering
<1>5. CASE StartSelection \/ Compare
  <2>1. Quiet
    BY <1>5, Zenon DEF StartSelection, Compare, Choose
  <2> QED BY <2>1, CommitsUnreported DEF HeadlessInv, AnswersOnce, Answering
<1>6. CASE RemoveLosers \/ WinnerReview
  <2>1. Quiet
    <3>1. CASE RemoveLosers
      BY <3>1, Zenon DEF RemoveLosers
    <3>2. CASE WinnerReview
      BY <3>2, WinnerReviewMoves, Zenon
    <3> QED BY <1>6, <3>1, <3>2
  <2> QED BY <2>1, CommitsUnreported DEF HeadlessInv, AnswersOnce, Answering
<1> QED BY <1>1, <1>2, <1>3, <1>4, <1>5, <1>6

(* A sweep moves nothing that a report says.                                 *)
LEMMA CommitsSwept ==
    ASSUME HeadlessInv, CommitsHeld, Sweep
    PROVE  CommitsHeld'
<1>1. /\ UNCHANGED <<inv, hpc, result, decided, out>>
      /\ \E i \in DOMAIN wt : wt[i].dir = "live" /\ wt' = [wt EXCEPT ![i].dir = "swept"]
  BY Zenon DEF Sweep
<1>2. wt \in Seq(Worktree) /\ result.of \in 0..Len(wt)
  BY DEF HeadlessInv, Typed
<1>3. \A i \in DOMAIN wt :
          /\ wt'[i].edited = wt[i].edited /\ wt'[i].commits = wt[i].commits
          /\ wt[i].dir # "removed" => wt'[i].dir # "removed"
  <2>1. PICK k \in DOMAIN wt : wt' = [wt EXCEPT ![k].dir = "swept"]
    BY <1>1
  <2> DEFINE x == [wt[k] EXCEPT !.dir = "swept"]
  <2>2. x.edited = wt[k].edited /\ x.commits = wt[k].commits /\ x.dir = "swept" /\ wt' = [wt EXCEPT ![k] = x]
    BY <1>2, <2>1 DEF Worktree
  <2> HIDE DEF x
  <2> QED BY <1>2, <2>1, <2>2
<1>4. result.of # 0 => result.of \in DOMAIN wt
  BY <1>2
<1>5. result' = result /\ hpc' = hpc /\ decided' = decided /\ out' = out /\ inv' = inv
  BY <1>1
<1>6. (Reviews' <=> Reviews) /\ (reviewOnly' <=> reviewOnly)
  BY <1>5 DEF Reviews, reviewOnly
<1>7. ForReview' <=> ForReview
  BY <1>5, <1>6 DEF ForReview
<1>8. result.of # 0 =>
          /\ LetStand => LetStand'
          /\ wt'[result.of].edited = wt[result.of].edited /\ wt'[result.of].commits = wt[result.of].commits
  <2> DEFINE k == result.of
  <2>1. k # 0 =>
            /\ wt'[k].edited = wt[k].edited /\ wt'[k].commits = wt[k].commits
            /\ wt[k].dir # "removed" => wt'[k].dir # "removed"
    BY <1>3, <1>4, Zenon
  <2>2. result'.of = k /\ result'.worktreePath = result.worktreePath
    BY <1>5
  <2> QED BY <2>1, <2>2 DEF LetStand
<1>9. (hpc \notin {"postreview", "cleanup", "done"} => decided = "none")'
  BY <1>5 DEF CommitsHeld
<1>10. (hpc = "postreview" => decided # "commit" /\ reviewOnly)'
  BY <1>5, <1>6, Zenon DEF CommitsHeld
<1>11. (ForReview /\ result.of # 0 => LetStand /\ (reviewOnly => ~wt[result.of].edited))'
  BY <1>5, <1>6, <1>7, <1>8, Zenon DEF CommitsHeld
<1>12. ((hpc \in {"emit", "review"} \/ out = "result") /\ result.of # 0 /\ wt[result.of].commits
          /\ (decided = "commit" \/ ~inv.transcripts \/ result.patchError) => LetStand)'
  BY <1>5, <1>8, Zenon DEF CommitsHeld
<1> QED BY <1>9, <1>10, <1>11, <1>12, Zenon DEF CommitsHeld

(* The collection, the report and the review of the changes.                 *)
LEMMA CommitsReported ==
    ASSUME HeadlessInv, CommitsHeld, Collect \/ Emit \/ Review
    PROVE  CommitsHeld'
<1>0. Typed /\ WorktreesHeld /\ AnswersOnce /\ Delivered /\ wt \in Seq(Worktree) /\ result.of \in 0..Len(wt)
  BY DEF HeadlessInv, Typed
<1>1. CASE Collect
  <2>1. /\ hpc = "collect" /\ hpc' = "emit" /\ decided' = decided /\ inv' = inv /\ out' = out
        /\ result.of = 0 => result' = result
    BY <1>1, CollectMoves, Zenon
  <2>2. out # "result" /\ decided = "none" /\ (result.of # 0 => wt[result.of].dir # "removed")
    BY <1>0, <2>1 DEF AnswersOnce, Answering, CommitsHeld, WorktreesHeld
  <2>3. CASE result.of = 0
    BY <2>1, <2>2, <2>3 DEF CommitsHeld, ForReview
  <2>4. CASE result.of # 0
    <3>1. CASE wt' = wt /\ result'.worktreePath = TRUE /\ result'.of = result.of /\ (reviewOnly' => ~wt[result.of].edited)
      <4>1. LetStand'
        BY <2>2, <2>4, <3>1 DEF LetStand
      <4> QED BY <2>1, <2>2, <3>1, <4>1 DEF CommitsHeld
    <3>2. CASE result'.of = result.of /\ inv.transcripts /\ result'.patchError = FALSE /\ ~Reviews'
      BY <2>1, <2>2, <3>2 DEF CommitsHeld, ForReview
    <3> QED BY <1>1, <2>4, <3>1, <3>2, CollectKeeps, Zenon
  <2> QED BY <2>3, <2>4
<1>2. CASE Emit
  <2>1. /\ hpc = "emit" /\ hpc' = (IF Reviews THEN "review" ELSE "cleanup")
        /\ UNCHANGED <<inv, wt, result, decided>>
    BY <1>2, Zenon DEF Emit, runVars
  <2>2. LetStand' = LetStand /\ reviewOnly' = reviewOnly
    BY <2>1 DEF LetStand, reviewOnly
  <2> QED BY <2>1, <2>2 DEF CommitsHeld, ForReview
<1>3. CASE Review
  <2>1. /\ hpc = "review" /\ hpc' \in {"postreview", "cleanup"} /\ (hpc' = "postreview" => reviewOnly)
        /\ UNCHANGED <<inv, result, out>>
    BY <1>3, ReviewMoves, Zenon
  <2>2. decided = "none" /\ out = "result"
    BY <1>0, <2>1 DEF CommitsHeld, AnswersOnce
  <2>3. CASE wt' = wt /\ (decided' \in {decided, "nothing"} \/ result.of = 0)
    <3>1. LetStand' = LetStand /\ reviewOnly' = reviewOnly
      BY <2>1, <2>3 DEF LetStand, reviewOnly
    <3>2. reviewOnly => result.of # 0
      BY DEF reviewOnly
    <3> QED BY <2>1, <2>2, <2>3, <3>1, <3>2 DEF CommitsHeld, ForReview
  <2>4. CASE result.of # 0 /\ wt[result.of].edited /\ wt' = [wt EXCEPT ![result.of] = Acted(wt[result.of], decided')]
    <3> DEFINE k == result.of
               x == Acted(wt[k], decided')
    <3>1. k \in 1..Len(wt) /\ wt[k] \in Worktree
      BY <1>0, <2>4
    <3>2. x.dir = wt[k].dir
      BY <3>1, ActedOn
    <3>3. wt'[k] = x
      BY <2>4, <3>1
    <3>4. LetStand /\ ~reviewOnly
      BY <2>1, <2>4 DEF CommitsHeld, ForReview
    <3> HIDE DEF x
    <3>5. LetStand'
      BY <2>1, <3>2, <3>3, <3>4 DEF LetStand
    <3>6. hpc' = "cleanup"
      BY <2>1, <3>4
    <3> QED BY <3>5, <3>6 DEF CommitsHeld, ForReview
  <2> QED BY <1>3, <2>3, <2>4, ReviewMoves, Zenon
<1> QED BY <1>1, <1>2, <1>3

(* The last removals take no commit a report names.                          *)
LEMMA CommitsLast ==
    ASSUME HeadlessInv, CommitsHeld, PostReview \/ Cleanup
    PROVE  CommitsHeld'
<1>1. /\ \/ hpc = "postreview" /\ hpc' = "cleanup"
         \/ hpc = "cleanup" /\ hpc' = "done"
      /\ UNCHANGED <<inv, result, decided, out>>
  BY LastRemovalMoves, Zenon
<1>2. wt \in Seq(Worktree) /\ result.of \in 0..Len(wt) /\ Delivered /\ AnswersOnce
  BY DEF HeadlessInv, Typed
<1>3. CASE wt' = wt
  <2>1. LetStand' = LetStand
    BY <1>1, <1>3 DEF LetStand
  <2> QED BY <1>1, <1>3, <2>1 DEF CommitsHeld, ForReview
<1>4. ASSUME NEW k \in 1..Len(wt), NEW x \in RemoveResults(wt[k], GitMayFail), wt' = [wt EXCEPT ![k] = x.worktree],
             (k = result.of /\ hpc = "postreview") \/ (hpc = "cleanup" /\ ~handled)
      PROVE  CommitsHeld'
  <2>1. CASE k = result.of /\ hpc = "postreview"
    <3>1. decided # "commit" /\ inv.transcripts /\ ~result.patchError
      BY <2>1 DEF CommitsHeld, reviewOnly
    <3> QED BY <1>1, <2>1, <3>1 DEF CommitsHeld, ForReview
  <2>2. CASE hpc = "cleanup" /\ ~handled
    <3>1. out = "result" => result.of = 0
      BY <1>2, <2>2, Zenon DEF Delivered
    <3> QED BY <1>1, <2>2, <3>1 DEF CommitsHeld, ForReview
  <2> QED BY <1>4, <2>1, <2>2
<1> QED BY <1>3, <1>4, LastRemovalMoves, Zenon

(* Every step keeps the commits where the report says.                       *)
LEMMA CommitsStep ==
    ASSUME HeadlessInv, CommitsHeld, [HeadlessNext]_hvars
    PROVE  CommitsHeld'
<1>1. CASE UNCHANGED hvars
  BY <1>1 DEF hvars, CommitsHeld, ForReview, LetStand, Reviews, reviewOnly
<1>2. CASE HeadlessNext
  BY <1>2, CommitsBefore, CommitsSwept, CommitsReported, CommitsLast, Zenon DEF HeadlessNext
<1> QED BY <1>1, <1>2

(* A run starts in the invariants.                                           *)
LEMMA HeadlessStart ==
    ASSUME HeadlessInit
    PROVE  HeadlessInv /\ KnockoutInv /\ CommitsHeld /\ SetupInv
<1> USE DEF HeadlessInit
<1>1. NoResult \in RunResult /\ NoResult.of = 0
  BY DEF NoResult, RunResult
<1>2. Typed
  <2>1. wt \in Seq(Worktree) /\ att \in Seq(Finished) /\ result \in RunResult /\ result.of = 0 /\ patch = 0
    BY <1>1
  <2>2. 0 \in 0..Len(wt)
    BY <2>1
  <2> QED BY <2>1, <2>2 DEF Typed, Phases
<1>3. AnswersOnce
  BY DEF AnswersOnce, Answering
<1>4. WorktreesHeld
  BY DEF WorktreesHeld, Early, Single, Tournament
<1>5. CleanupIsSafe
  BY DEF CleanupIsSafe
<1>6. Delivered
  BY DEF Delivered
<1>7. AttemptsInOrder
  BY <1>2, FlagsTyped DEF AttemptsInOrder, Tournament
<1>8. KnockoutInv /\ CommitsHeld /\ SetupInv
  BY DEF KnockoutInv, CommitsHeld, ForReview, SetupInv
<1> QED BY <1>2, <1>3, <1>4, <1>5, <1>6, <1>7, <1>8, Zenon DEF HeadlessInv

(* A run stays in the invariants.                                            *)
LEMMA HeadlessAlways == HeadlessSpec => [](HeadlessInv /\ KnockoutInv /\ CommitsHeld)
<1>1. HeadlessInit => HeadlessInv /\ KnockoutInv /\ CommitsHeld
  BY HeadlessStart
<1>2. HeadlessInv /\ KnockoutInv /\ CommitsHeld /\ [HeadlessNext]_hvars
         => (HeadlessInv /\ KnockoutInv /\ CommitsHeld)'
  BY HeadlessStep, KnockoutStep, CommitsStep
<1> QED BY <1>1, <1>2, PTL DEF HeadlessSpec

(* A finished run has an exit code of the table, and one entry at most on    *)
(* stdout and in the ledger (output.go exitCodeFor, main.go finalize).       *)
THEOREM HeadlessTypeCorrect == HeadlessSpec => []HeadlessTypeOK
<1>1. HeadlessInv => HeadlessTypeOK
  <2> SUFFICES ASSUME HeadlessInv PROVE HeadlessTypeOK
    OBVIOUS
  <2>1. Typed /\ AnswersOnce /\ AttemptsInOrder
    BY DEF HeadlessInv
  <2>2. \A i \in DOMAIN wt : wt[i] \in Worktree
    BY <2>1 DEF Typed
  <2>3. exit \in 0..8 \cup {99} /\ (hpc = "done" => exit # 99)
    BY <2>1 DEF AnswersOnce, Answering
  <2> QED BY <2>1, <2>2, <2>3, Zenon DEF HeadlessTypeOK, Typed, Phases, AnswersOnce, AttemptsInOrder
<1> QED BY <1>1, HeadlessAlways, PTL

(* Where the edits of a reported run are can be read off the report: the     *)
(* patch it names, or the worktree it names and the driver has not removed;  *)
(* so can its commits where no diff was taken, the diff failed or the review *)
(* made them; and a run whose work could not be collected does not exit 0    *)
(* (main.go collect, output.go buildResult).  A diff that was taken is       *)
(* against the worktree's own HEAD and misses what the agent committed:      *)
(* CommittedIsReported is refuted, so nothing more holds of commits.         *)
THEOREM WorkIsReported == HeadlessSpec => []DeliveredIsReported
<1>1. HeadlessInv /\ CommitsHeld => DeliveredIsReported
  <2> SUFFICES ASSUME HeadlessInv, CommitsHeld, hpc = "done", out = "result", result.of # 0
               PROVE  DeliveredIsReported
    BY DEF DeliveredIsReported
  <2>1. /\ wt[result.of].edited => LetStand \/ (result.patchPath /\ patch = result.of)
        /\ (result.patchError => exit = 1) /\ (exit = 0 => result.outcome = "answered")
    BY DEF HeadlessInv, Delivered, Found, LetStand
  <2>2. wt[result.of].commits /\ (decided = "commit" \/ ~inv.transcripts \/ result.patchError) => LetStand
    BY DEF CommitsHeld
  <2> QED BY <2>1, <2>2, Zenon DEF LetStand, DeliveredIsReported
<1> QED BY <1>1, HeadlessAlways, PTL

(* The chosen attempt won a knockout among the attempts with a patch, by     *)
(* comparisons that agreed under both labellings or else by structure        *)
(* (bestof.go selectBestOf, runComparison).                                  *)
THEOREM TournamentIsSound == HeadlessSpec => []KnockoutIsSound
<1>1. KnockoutInv => KnockoutIsSound
  <2> SUFFICES ASSUME KnockoutInv, champ # <<>>, hpc = "losers" PROVE KnockoutIsSound
    BY DEF KnockoutIsSound
  <2>1. Knockout(champ.verdicts, att, result.of, Candidates)
    BY DEF KnockoutInv
  <2> QED BY <2>1, Zenon DEF Knockout, Losses, NoVerdict, StructurallyBest, KnockoutIsSound
<1> QED BY <1>1, HeadlessAlways, PTL

-----------------------------------------------------------------------------
(* No step deletes work.                                                     *)

(* The driver removes a worktree that holds edits only once they are on disk *)
(* as the patch, or lost the tournament; and one that holds commits only at  *)
(* a collection that took it for clean or banked the edits on top of them,   *)
(* never one the review committed to (main.go, bestof.go).                   *)
THEOREM WorkIsKept == HeadlessSpec => WorkIsNeverDropped
<1> DEFINE Kept == \A i \in DOMAIN wt : wt[i].dir = "live" /\ wt'[i].dir = "removed"
                      => \/ hpc = "losers" /\ i # result.of
                         \/ /\ wt[i].edited => patch' = i
                            /\ wt[i].commits => hpc \in {"collect", "postreview"} /\ decided # "commit"
<1>1. HeadlessInv /\ KnockoutInv /\ CommitsHeld /\ [HeadlessNext]_hvars => [Kept]_hvars
  <2> SUFFICES ASSUME HeadlessInv, CommitsHeld, HeadlessNext PROVE Kept
    OBVIOUS
  <2>0. wt \in Seq(Worktree) /\ result.of \in 0..Len(wt) /\ Typed /\ WorktreesHeld
    BY DEF HeadlessInv, Typed
  <2>1. CASE UNCHANGED wt
    BY <2>1
  <2>2. CASE AddWorktree \/ Attempt
    <3>1. PICK r \in AddResults(inv.dirty) : wt' = IF r.created THEN Append(wt, r.worktree) ELSE wt
      BY <2>2, Zenon DEF AddWorktree, Attempt
    <3>2. r.created \in BOOLEAN
      BY <2>0, <3>1, FlagsTyped, Added
    <3>3. \A i \in DOMAIN wt : wt'[i] = wt[i]
      BY <2>0, <3>1, <3>2
    <3> QED BY <3>3
  <2>3. ASSUME NEW k \in 1..Len(wt), NEW w, w.dir = wt[k].dir, wt' = [wt EXCEPT ![k] = w] PROVE Kept
    BY <2>0, <2>3
  <2>4. CASE Loop
    <3>1. CASE UNCHANGED wt
      BY <2>1, <3>1
    <3>2. CASE ~UNCHANGED wt
      <4>1. PICK o \in LoopOutcomes, edited \in BOOLEAN, commits \in BOOLEAN :
              wt' = IF worktreeOn THEN [wt EXCEPT ![1] = Leaves(wt[1], o, edited, commits)] ELSE wt
        BY <2>4, <3>2, Zenon DEF Loop
      <4>2. worktreeOn
        BY <3>2, <4>1
      <4>3. 1 \in 1..Len(wt) /\ wt[1] \in Worktree
        <5>1. hpc = "loop"
          BY <2>4, Zenon DEF Loop
        <5>2. Len(wt) >= 1
          BY <2>0, <4>2, <5>1 DEF WorktreesHeld, Single
        <5> QED BY <2>0, <5>2
      <4>4. Leaves(wt[1], o, edited, commits).dir = wt[1].dir
        BY <4>2, <4>3, Left
      <4> HIDE DEF Kept
      <4> QED BY <2>3, <4>1, <4>2, <4>3, <4>4
    <3> QED BY <3>1, <3>2
  <2>5. CASE Sweep
    <3>1. PICK k \in DOMAIN wt : wt' = [wt EXCEPT ![k].dir = "swept"]
      BY <2>5, Zenon DEF Sweep
    <3>2. \A i \in DOMAIN wt : wt'[i] = wt[i] \/ wt'[i].dir = "swept"
      <4>1. wt[k] \in Worktree
        BY <2>0, <3>1
      <4>2. [wt[k] EXCEPT !.dir = "swept"].dir = "swept"
        BY <4>1 DEF Worktree
      <4> QED BY <2>0, <3>1, <4>2
    <3> QED BY <3>2
  <2>6. CASE Solve
    <3> DEFINE k == Len(wt)
    <3>1. PICK o \in LoopOutcomes, edited \in BOOLEAN, commits \in BOOLEAN :
              wt' = [wt EXCEPT ![k] = Leaves(wt[k], o, edited, commits)]
      BY <2>6, Zenon DEF Solve
    <3>2. k \in 1..Len(wt) /\ wt[k] \in Worktree
      <4>1. k >= 1
        BY <2>6 DEF Solve, HeadlessInv, AttemptsInOrder, Typed
      <4> QED BY <2>0, <4>1
    <3> HIDE DEF k, Kept
    <3>4. Leaves(wt[k], o, edited, commits).dir = wt[k].dir
      BY <3>2, Left
    <3> QED BY <2>3, <3>1, <3>2, <3>4
  <2>7. CASE RemoveLosers
    <3>1. PICK stuck \in SUBSET (DOMAIN wt \ {result.of}) :
            wt' = [i \in DOMAIN wt |-> IF i = result.of \/ i \in stuck \/ wt[i].dir # "live" THEN wt[i]
                                      ELSE [wt[i] EXCEPT !.dir = "removed"]]
      BY <2>7, Zenon DEF RemoveLosers
    <3>2. hpc = "losers" /\ (wt'[result.of] = wt[result.of] \/ result.of \notin DOMAIN wt)
      BY <2>7, <3>1 DEF RemoveLosers
    <3> QED BY <3>2
  <2>8. CASE WinnerReview
    <3> DEFINE k == result.of
    <3>0. hpc = "winner"
      BY <2>8, WinnerReviewMoves, Zenon
    <3>1. CASE UNCHANGED wt
      BY <2>1, <3>1
    <3>2. ASSUME NEW o \in LoopOutcomes, NEW edited \in BOOLEAN, NEW commits \in BOOLEAN,
                 wt' = [wt EXCEPT ![k] = Leaves(wt[k], o, edited, commits)]
          PROVE  Kept
      <4>1. k \in 1..Len(wt) /\ wt[k] \in Worktree
        BY <2>0, <3>0 DEF WorktreesHeld
      <4> HIDE DEF k, Kept
      <4>2. Leaves(wt[k], o, edited, commits).dir = wt[k].dir
        BY <4>1, Left
      <4> QED BY <2>3, <3>2, <4>1, <4>2
    <3> HIDE DEF Kept
    <3> QED BY <2>8, <3>1, <3>2, WinnerReviewMoves, Zenon
  <2>9. CASE Collect
    <3> DEFINE k == result.of
    <3>1. CASE UNCHANGED wt
      BY <2>1, <3>1
    <3>2. CASE ~UNCHANGED wt
      <4>1. PICK c \in CollectResults(wt[k], GitMayFail) : patch' = k \/ IsClean(c)
        BY <2>9, <3>2, CollectMoves, Zenon
      <4>2. k # 0 /\ \E x : wt' = [wt EXCEPT ![k] = x]
        BY <2>9, <3>2, CollectMoves, Zenon DEF TryRemove
      <4>3. k \in 1..Len(wt) /\ wt[k] \in Worktree
        BY <2>0, <4>2
      <4>4. IsClean(c) => ~wt[k].edited
        BY <4>1, <4>3, Collected
      <4>5. \A i \in DOMAIN wt : i # k => wt'[i] = wt[i]
        BY <2>0, <4>2
      <4>6. hpc = "collect" /\ decided # "commit"
        BY <2>9 DEF Collect, CommitsHeld
      <4> HIDE DEF k
      <4> QED BY <4>1, <4>4, <4>5, <4>6
    <3> QED BY <3>1, <3>2
  <2>10. CASE Review
    <3>1. CASE UNCHANGED wt
      BY <2>1, <3>1
    <3>2. CASE result.of # 0 /\ wt' = [wt EXCEPT ![result.of] = Acted(wt[result.of], decided')]
      <4> DEFINE k == result.of
                 w == Acted(wt[k], decided')
      <4>1. k \in 1..Len(wt) /\ wt[k] \in Worktree
        BY <2>0, <3>2
      <4>2. w.dir = wt[k].dir /\ wt' = [wt EXCEPT ![k] = w]
        BY <3>2, <4>1, ActedOn
      <4> HIDE DEF k, w, Kept
      <4> QED BY <2>3, <4>1, <4>2
    <3> QED BY <2>10, <3>1, <3>2, ReviewMoves, Zenon
  <2>11. CASE PostReview \/ Cleanup
    <3>1. CASE UNCHANGED wt
      BY <2>1, <3>1
    <3>2. CASE ~UNCHANGED wt
      <4>1. PICK k \in 1..Len(wt) :
               /\ ~wt[k].edited /\ (~wt[k].commits \/ hpc = "postreview")
               /\ \E x : wt' = [wt EXCEPT ![k] = x]
        BY <2>11, <3>2, LastRemovalMoves, Zenon
      <4>2. \A i \in DOMAIN wt : i # k => wt'[i] = wt[i]
        BY <2>0, <4>1
      <4>3. hpc = "postreview" => decided # "commit"
        BY DEF CommitsHeld
      <4> QED BY <4>1, <4>2, <4>3
    <3> QED BY <3>1, <3>2
  <2>12. CASE Parse \/ Consent \/ Ambient \/ Workspace \/ Prepare \/ Ladder \/ StartSelection \/ Compare \/ Emit
    <3>1. UNCHANGED wt
      BY <2>12, Zenon DEF Parse, Consent, Ambient, Workspace, Prepare, Ladder, StartSelection, Compare, Emit, runVars
    <3> QED BY <2>1, <3>1
  <2> HIDE DEF Kept
  <2> QED BY <2>2, <2>4, <2>5, <2>6, <2>7, <2>8, <2>9, <2>10, <2>11, <2>12, Zenon DEF HeadlessNext
<1>2. HeadlessSpec => [][Kept]_hvars
  BY <1>1, HeadlessAlways, PTL DEF HeadlessSpec
<1> QED BY <1>2 DEF WorkIsNeverDropped

-----------------------------------------------------------------------------
(* No run is set up below the floor of its trust.                            *)

(* The phases between the consent and the loop, or the attempts.             *)
SetUp == {"ambient", "workspace", "worktree", "prepare", "loop", "ladder", "attempt", "solve"}

(* Only a passed consent enters the set-up, and nothing in it touches the    *)
(* plan.                                                                     *)
LEMMA ConsentFirst ==
    ASSUME HeadlessNext, hpc' \in SetUp
    PROVE  /\ UNCHANGED inv
           /\ \/ Consented'
              \/ hpc \in SetUp /\ UNCHANGED plan
<1>1. CASE Parse \/ Ambient \/ AddWorktree \/ Prepare
  BY <1>1, Zenon DEF Parse, Ambient, AddWorktree, Prepare, failSetup, SetUp
<1>2. CASE Consent
  <2>1. UNCHANGED inv
    BY <1>2, Zenon DEF Consent
  <2>2. hpc' # "cleanup"
    BY DEF SetUp
  <2>3. /\ inv.trust \in Trusts /\ plan' = planTrust(inv)
        /\ Enforce(effectiveTrust(inv), postureForPlan(planTrust(inv)))
    BY <1>2, <2>2, Zenon DEF Consent, failSetup
  <2>4. Consented'
    BY <2>1, <2>3, Zenon DEF Consented
  <2> QED BY <2>1, <2>4
<1>3. CASE Workspace
  BY <1>3, Zenon DEF Workspace, SetUp
<1>4. CASE Loop \/ Ladder \/ Sweep
  BY <1>4, Zenon DEF Loop, Ladder, Sweep, failSetup, SetUp
<1>5. CASE Attempt \/ Solve
  BY <1>5, Zenon DEF Attempt, Solve, SetUp
<1>6. CASE StartSelection \/ Compare \/ RemoveLosers
  BY <1>6, Zenon DEF StartSelection, Compare, RemoveLosers, Choose, SetUp
<1>7. CASE WinnerReview \/ Collect \/ Emit
  BY <1>7, Zenon DEF WinnerReview, Collect, Emit, SetUp
<1>8. CASE Review \/ PostReview \/ Cleanup
  BY <1>8, Zenon DEF Review, PostReview, Cleanup, SetUp
<1> QED BY <1>1, <1>2, <1>3, <1>4, <1>5, <1>6, <1>7, <1>8, Zenon DEF HeadlessNext

(* The worktree decision stands until the loop.                              *)
LEMMA DecisionStands ==
    ASSUME HeadlessNext, hpc' \in {"worktree", "prepare", "loop"}
    PROVE  /\ UNCHANGED <<inv, plan>>
           /\ \/ hpc \in {"worktree", "prepare", "loop"} /\ UNCHANGED worktreeOn
              \/ hpc = "workspace" /\ worktreeOn' = (worktreeWanted(inv, plan) /\ ~inv.ladder)
           /\ hpc' = "loop" =>
                 \/ hpc = "loop" /\ UNCHANGED spec
                 \/ LET s == SpecResolve(buildBaseRequest(inv, plan))
                    IN  hpc = "prepare" /\ ~inv.ladder /\ s.ok /\ spec' = s.policy
<1> DEFINE G == \/ hpc \in {"worktree", "prepare", "loop"} /\ UNCHANGED worktreeOn
                \/ hpc = "workspace" /\ worktreeOn' = (worktreeWanted(inv, plan) /\ ~inv.ladder)
           H == \/ hpc = "loop" /\ UNCHANGED spec
                \/ LET s == SpecResolve(buildBaseRequest(inv, plan))
                   IN  hpc = "prepare" /\ ~inv.ladder /\ s.ok /\ spec' = s.policy
<1>1. CASE Parse \/ Consent \/ Ambient \/ AddWorktree
  BY <1>1, Zenon DEF Parse, Consent, Ambient, AddWorktree, failSetup
<1>2. CASE Workspace
  <2>1. UNCHANGED <<inv, plan>> /\ hpc = "workspace"
    BY <1>2, Zenon DEF Workspace
  <2>2. hpc' # "cleanup" /\ (hpc' = "loop" => hpc' \notin {"attempt", "worktree", "prepare"})
    OBVIOUS
  <2>3. worktreeOn' = (worktreeWanted(inv, plan) /\ ~inv.ladder)
    BY <1>2, <2>2, Zenon DEF Workspace, failSetup
  <2>4. hpc' = (CASE inv.bestOf >= 2 -> "attempt"
                  [] inv.bestOf < 2 /\ worktreeOn' -> "worktree"
                  [] OTHER -> "prepare")
    BY <1>2, <2>2, Zenon DEF Workspace, failSetup
  <2>5. hpc' # "loop"
    BY <2>4
  <2> QED BY <2>1, <2>3, <2>5
<1>3. CASE Prepare
  <2> DEFINE s == SpecResolve(buildBaseRequest(inv, plan))
  <2>1. UNCHANGED <<inv, plan, worktreeOn>> /\ hpc = "prepare"
    BY <1>3, Zenon DEF Prepare
  <2>2. /\ s.ok \/ inv.ladder
        /\ spec' = s.policy /\ hpc' = (IF inv.ladder THEN "ladder" ELSE "loop")
    BY <1>3, Zenon DEF Prepare, failSetup
  <2> HIDE DEF s
  <2>3. ~inv.ladder /\ s.ok
    BY <2>2
  <2> QED BY <2>1, <2>2, <2>3 DEF s
<1>4. CASE Loop \/ Ladder \/ Sweep
  BY <1>4, Zenon DEF Loop, Ladder, Sweep, failSetup
<1>5. CASE Attempt \/ Solve
  BY <1>5, Zenon DEF Attempt, Solve, failSetup
<1>6. CASE StartSelection \/ Compare \/ RemoveLosers
  BY <1>6, Zenon DEF StartSelection, Compare, RemoveLosers, Choose
<1>7. CASE WinnerReview \/ Collect \/ Emit
  BY <1>7, Zenon DEF WinnerReview, Collect, Emit
<1>8. CASE Review \/ PostReview \/ Cleanup
  BY <1>8, Zenon DEF Review, PostReview, Cleanup
<1> QED BY <1>1, <1>2, <1>3, <1>4, <1>5, <1>6, <1>7, <1>8, Zenon DEF HeadlessNext

(* Every step keeps what the operator consented to.                          *)
LEMMA SetupStep ==
    ASSUME SetupInv, [HeadlessNext]_hvars
    PROVE  SetupInv'
<1>1. CASE HeadlessNext
  <2>1. hpc' \in SetUp => Consented'
    <3> SUFFICES ASSUME hpc' \in SetUp PROVE Consented'
      OBVIOUS
    <3> QED BY <1>1, ConsentFirst DEF SetupInv, Consented, SetUp
  <2>2. hpc' \in {"worktree", "prepare", "loop"} => (inv.ladder \/ worktreeOn = worktreeWanted(inv, plan))'
    <3> SUFFICES ASSUME hpc' \in {"worktree", "prepare", "loop"}
                 PROVE  inv'.ladder \/ worktreeOn' = worktreeWanted(inv', plan')
      BY Zenon
    <3>1. UNCHANGED <<inv, plan>>
      BY <1>1, DecisionStands, Zenon
    <3>2. CASE hpc \in {"worktree", "prepare", "loop"} /\ UNCHANGED worktreeOn
      BY <3>1, <3>2, Zenon DEF SetupInv
    <3>3. CASE hpc = "workspace" /\ worktreeOn' = (worktreeWanted(inv, plan) /\ ~inv.ladder)
      <4>1. worktreeWanted(inv, plan) \in BOOLEAN
        BY DEF worktreeWanted
      <4>2. inv.ladder \/ worktreeOn' = worktreeWanted(inv, plan)
        BY <3>3, <4>1
      <4> QED BY <3>1, <4>2, Zenon
    <3> QED BY <1>1, <3>2, <3>3, DecisionStands, Zenon
  <2>3. hpc' = "loop" => (LET s == SpecResolve(buildBaseRequest(inv, plan)) IN ~inv.ladder /\ s.ok /\ spec = s.policy)'
    <3> SUFFICES ASSUME hpc' = "loop"
                 PROVE  (LET s == SpecResolve(buildBaseRequest(inv, plan)) IN ~inv.ladder /\ s.ok /\ spec = s.policy)'
      OBVIOUS
    <3>1. hpc' \in {"worktree", "prepare", "loop"}
      OBVIOUS
    <3> QED BY <1>1, <3>1, DecisionStands, Zenon DEF SetupInv
  <2> QED BY <2>1, <2>2, <2>3, Zenon DEF SetupInv, SetUp
<1>2. CASE UNCHANGED hvars
  BY <1>2, Zenon DEF hvars, SetupInv, Consented
<1> QED BY <1>1, <1>2

(* The place of a value in its dimension's order.                            *)
LEMMA Ranks ==
    /\ RankIn("worktree", "auto") = 1 /\ RankIn("worktree", "required") = 2
    /\ RankIn("isolation", "none") = 1 /\ RankIn("isolation", "process") = 2 /\ RankIn("isolation", "kernel") = 3
<1> DEFINE W == <<"auto", "required">>
           I == <<"none", "process", "kernel">>
<1>1. Ladders["worktree"] = W /\ Ladders["isolation"] = I
  BY DEF Ladders
<1>2. RankIn("worktree", "auto") = (CHOOSE i \in DOMAIN W : W[i] = "auto")
      /\ RankIn("worktree", "required") = (CHOOSE i \in DOMAIN W : W[i] = "required")
  BY <1>1, Zenon DEF RankIn
<1>3. RankIn("isolation", "none") = (CHOOSE i \in DOMAIN I : I[i] = "none")
      /\ RankIn("isolation", "process") = (CHOOSE i \in DOMAIN I : I[i] = "process")
      /\ RankIn("isolation", "kernel") = (CHOOSE i \in DOMAIN I : I[i] = "kernel")
  BY <1>1, Zenon DEF RankIn
<1>4. (CHOOSE i \in DOMAIN W : W[i] = "auto") = 1 /\ (CHOOSE i \in DOMAIN W : W[i] = "required") = 2
  OBVIOUS
<1>5. (CHOOSE i \in DOMAIN I : I[i] = "none") = 1
  OBVIOUS
<1>6. (CHOOSE i \in DOMAIN I : I[i] = "process") = 2
  OBVIOUS
<1>7. (CHOOSE i \in DOMAIN I : I[i] = "kernel") = 3
  OBVIOUS
<1> QED BY <1>2, <1>3, <1>4, <1>5, <1>6, <1>7

(* A trust that demands a worktree, or an isolation, gets a plan that does.  *)
LEMMA PlanKeepsTrust ==
    ASSUME NEW i
    PROVE  LET p     == planTrust(i)
               floor == FloorFor(p.trust)
           IN  /\ p.trust = effectiveTrust(i)
               /\ p.forceWorktree = (p.trust # "trusted-local")
               /\ p.isolation = (CASE p.trust = "untrusted" -> "kernel" [] p.trust = "container" -> "process" [] OTHER -> "none")
BY DEF planTrust

(* What the floors demand of the isolation, and the weakest of the worktree. *)
LEMMA FloorIsolation ==
    /\ FloorFor("trusted-local").isolation = "none" /\ FloorFor("reviewed-local").isolation = "none"
    /\ FloorFor("container").isolation = "process" /\ FloorFor("untrusted").isolation = "process"
    /\ FloorFor("trusted-local").worktree = "auto"
BY DEF FloorFor, Posture

(* Whatever flag or profile the operator combined, the posture a run gets    *)
(* meets the floor of its trust; of a ladder run only the worktree may not.  *)
LEMMA SetupMeetsFloor ==
    ASSUME HeadlessInv, SetupInv
    PROVE  RunMeetsFloor
<1> SUFFICES ASSUME hpc \in {"loop", "solve", "ladder"} PROVE RunMeetsFloor
  BY DEF RunMeetsFloor
<1> DEFINE t      == plan.trust
           floor  == FloorFor(t)
           actual == ActualPosture
<1>1. Consented /\ plan = planTrust(inv) /\ t = effectiveTrust(inv)
  BY PlanKeepsTrust DEF SetupInv, Consented
<1>2. t \in Trusts
  BY <1>1 DEF Consented, effectiveTrust, Trusts
<1>3. \A d \in Dimensions : Satisfies(d, postureForPlan(plan), floor)
  BY <1>1, Zenon DEF Consented, Enforce
<1>4. /\ \A d \in Dimensions \ {"worktree"} : actual[d] = postureForPlan(plan)[d]
      /\ actual.approval = postureForPlan(plan).approval
      /\ actual.worktree = IF wt # <<>> THEN "required" ELSE "auto"
  BY DEF ActualPosture, Dimensions, Ladders, postureForPlan, Posture
<1>4a. /\ \A d \in Dimensions \ {"worktree"} : HeadlessFloor(t)[d] = floor[d]
       /\ HeadlessFloor(t).approval = floor.approval
       /\ HeadlessFloor(t).worktree = IF t = "trusted-local" THEN floor.worktree ELSE "required"
  BY <1>2 DEF HeadlessFloor, FloorFor, Trusts, Dimensions, Ladders, Posture
<1>5. hpc # "ladder" /\ wt = <<>> => t = "trusted-local"
  <2> SUFFICES ASSUME hpc # "ladder", wt = <<>> PROVE t = "trusted-local"
    OBVIOUS
  <2>1. hpc = "loop"
    BY DEF HeadlessInv, AttemptsInOrder, Typed
  <2>2. ~worktreeOn
    BY <2>1 DEF HeadlessInv, WorktreesHeld, Single
  <2>3. ~worktreeWanted(inv, plan)
    BY <2>1, <2>2, Zenon DEF SetupInv
  <2> QED BY <1>1, <2>3, PlanKeepsTrust DEF worktreeWanted
<1>7. hpc # "ladder" => RankIn("worktree", actual.worktree) >= RankIn("worktree", HeadlessFloor(t).worktree)
  <2> SUFFICES ASSUME hpc # "ladder"
               PROVE  RankIn("worktree", actual.worktree) >= RankIn("worktree", HeadlessFloor(t).worktree)
    OBVIOUS
  <2>1. HeadlessFloor(t).worktree \in {"auto", "required"}
    BY <1>2, <1>4a, FloorIsolation
  <2>2. CASE wt = <<>>
    BY <1>4, <1>4a, <1>5, <2>2, Ranks, FloorIsolation
  <2>3. CASE wt # <<>>
    BY <1>4, <2>1, <2>3, Ranks
  <2> QED BY <2>2, <2>3
<1>8. \A d \in Dimensions \ (IF hpc = "ladder" THEN {"worktree"} ELSE {}) : Satisfies(d, actual, HeadlessFloor(t))
  <2> SUFFICES ASSUME NEW d \in Dimensions, hpc = "ladder" => d # "worktree" PROVE Satisfies(d, actual, HeadlessFloor(t))
    BY Zenon
  <2> HIDE DEF actual, floor
  <2>1. CASE d = "worktree"
    BY <1>7, <2>1, Zenon DEF Satisfies
  <2>2. CASE d # "worktree"
    BY <1>3, <1>4, <1>4a, <2>2, Zenon DEF Satisfies
  <2> QED BY <2>1, <2>2
<1>9. hpc = "loop" => RankIn("isolation", spec.isolation) >= RankIn("isolation", floor.isolation)
  <2> SUFFICES ASSUME hpc = "loop" PROVE RankIn("isolation", spec.isolation) >= RankIn("isolation", floor.isolation)
    OBVIOUS
  <2> DEFINE r == buildBaseRequest(inv, plan)
  <2>1. spec.isolation = IF r.isolation = "" THEN FloorFor(r.trust).isolation ELSE r.isolation
    <3>1. spec = SpecResolve(r).policy
      BY Zenon DEF SetupInv
    <3> HIDE DEF r
    <3> QED BY <3>1, Zenon DEF SpecResolve
  <2>2. r.trust = inv.trust /\ r.isolation = IF plan.isolation = "none" THEN "" ELSE plan.isolation
    BY DEF buildBaseRequest, Request
  <2>3. plan.isolation = (CASE t = "untrusted" -> "kernel" [] t = "container" -> "process" [] OTHER -> "none")
    BY <1>1, PlanKeepsTrust, Zenon
  <2>4. CASE t \in {"untrusted", "container"}
    <3>1. spec.isolation = IF t = "untrusted" THEN "kernel" ELSE "process"
      BY <2>1, <2>2, <2>3, <2>4
    <3>2. floor.isolation = "process"
      BY <2>4, FloorIsolation
    <3> QED BY <3>1, <3>2, Ranks
  <2>5. CASE t \in {"trusted-local", "reviewed-local"}
    <3>1. spec.isolation = FloorFor(inv.trust).isolation
      BY <2>1, <2>2, <2>3, <2>5
    <3>2. spec.isolation \in {"none", "process"}
      BY <1>1, <3>1, FloorIsolation DEF Consented, Trusts
    <3>3. floor.isolation = "none"
      BY <2>5, FloorIsolation
    <3> QED BY <3>2, <3>3, Ranks
  <2> QED BY <1>2, <2>4, <2>5 DEF Trusts
<1> QED BY <1>8, <1>9, Zenon DEF RunMeetsFloor

(* A profile's navigation window is never the zero the defaults fill.        *)
LEMMA DeclaredWindow ==
    ASSUME NEW e \in Profiles
    PROVE  Declarations[e].nav_spiral_window = 4
BY DEF Profiles, Declarations, Declare

(* A flag that was given is what the loop runs with.                         *)
LEMMA SetupKeepsFlags ==
    ASSUME Typed, SetupInv
    PROVE  FlagsAreFinal
<1> SUFFICES ASSUME hpc = "loop" PROVE FlagsAreFinal
  BY DEF FlagsAreFinal
<1> DEFINE given == profileOverrides(inv)
           e     == inv.profile
           r     == buildBaseRequest(inv, plan)
           n     == Merged(e, given)
           res   == ProfileResolve(FloorFor(inv.trust), e, given)
           m     == res.values
<1>1. r.trust = inv.trust /\ r.profile = e /\ r.overrides = given
  BY DEF buildBaseRequest, Request
<1>2. SpecResolve(r).ok /\ spec = SpecResolve(r).policy /\ e \in Profiles
  BY FlagsTyped, Zenon DEF SetupInv
<1> HIDE DEF r
<1>3. res.error = "" /\ spec.values = [m EXCEPT !.max_iters = FilledIters(r, @),
                                                !.nav_spiral_window = IF @ = 0 THEN DefaultNavSpiralWindow ELSE @]
  BY <1>1, <1>2, Zenon DEF SpecResolve
<1>4. n = [f \in Fields |-> IF f \in DOMAIN given THEN given[f] ELSE Declarations[e][f]]
  BY Zenon DEF Merged
<1>5. m = n \/ (m = [n EXCEPT !.worktree = "required"] /\ "worktree" \notin DOMAIN given)
  <2> DEFINE src   == [f \in Fields |-> IF f \in DOMAIN given THEN "cli" ELSE "profile"]
             fl    == FloorFor(inv.trust)
             below == RankIn("worktree", worktreeValue(n.worktree)) < RankIn("worktree", fl.worktree)
             err   == CASE ~below                           -> ""
                        [] below /\ src.worktree = "cli"    -> "cli"
                        [] below /\ src.worktree # "cli" /\ Declarations[e].stance = "demand" -> "demand"
                        [] OTHER                            -> ""
  <2>1. res.error = err /\ m = IF below /\ err = "" THEN [n EXCEPT !.worktree = "required"] ELSE n
    BY Zenon DEF ProfileResolve
  <2>2. "worktree" \in DOMAIN given => src.worktree = "cli"
    BY DEF Fields
  <2> HIDE DEF src, n, m, res, below, given
  <2>3. below /\ err = "" => src.worktree # "cli"
    OBVIOUS
  <2> QED BY <2>1, <2>2, <2>3
<1> DEFINE w == spec.values
<1> HIDE DEF m, res, given, e
<1>6. /\ w.max_iters = FilledIters(r, m.max_iters)
      /\ w.nav_spiral_window = IF m.nav_spiral_window = 0 THEN 4 ELSE m.nav_spiral_window
      /\ w.memory = m.memory /\ w.run_timeout = m.run_timeout /\ w.worktree = m.worktree
  <2>1. DOMAIN m = Fields
    BY <1>4, <1>5
  <2> HIDE DEF n
  <2> QED BY <1>3, <2>1 DEF Fields, DefaultNavSpiralWindow
<1>7. /\ m.max_iters = n.max_iters /\ m.nav_spiral_window = n.nav_spiral_window
      /\ m.memory = n.memory /\ m.run_timeout = n.run_timeout
      /\ m.worktree = n.worktree \/ (m.worktree = "required" /\ "worktree" \notin DOMAIN given)
  BY <1>4, <1>5 DEF Fields
<1>8. \A f \in Fields : n[f] = IF f \in DOMAIN given THEN given[f] ELSE Declarations[e][f]
  BY <1>4
<1>9. Declarations[e].nav_spiral_window = 4
  BY <1>2, DeclaredWindow DEF e
<1>10. FilledIters(r, m.max_iters) = m.max_iters \/ (m.max_iters = 0 /\ "max_iters" \notin DOMAIN given)
  BY <1>1, Zenon DEF FilledIters
<1> HIDE DEF n, w
<1>11. ASSUME NEW f \in Fields
       PROVE  IF f \in DOMAIN given
              THEN w[f] = given[f] \/ (f = "nav_spiral_window" /\ given[f] = 0)
              ELSE \/ w[f] = Declarations[e][f]
                   \/ f = "worktree" /\ w[f] = "required"
                   \/ f = "max_iters" /\ Declarations[e][f] = 0
  <2>1. CASE f = "max_iters"
    BY <1>6, <1>7, <1>8, <1>10, <2>1
  <2>2. CASE f = "nav_spiral_window"
    BY <1>6, <1>7, <1>8, <1>9, <2>2
  <2>3. CASE f \in {"memory", "run_timeout"}
    BY <1>6, <1>7, <1>8, <2>3
  <2>4. CASE f = "worktree"
    BY <1>6, <1>7, <1>8, <2>4
  <2> QED BY <2>1, <2>2, <2>3, <2>4 DEF Fields
<1> QED BY <1>11, Zenon DEF FlagsAreFinal, w, given, e

(* The loop a run gets is the one the operator asked for, and never a weaker *)
(* one than its trust demands (main.go, trust.go, resolve.go, runspec.go).   *)
THEOREM SetupIsAsAsked == HeadlessSpec => []SetupIsHonoured
<1>1. HeadlessInit => SetupInv
  BY HeadlessStart
<1>2. SetupInv /\ [HeadlessNext]_hvars => SetupInv'
  BY SetupStep
<1>3. HeadlessInv /\ SetupInv => SetupIsHonoured
  BY SetupMeetsFloor, SetupKeepsFlags DEF HeadlessInv, SetupIsHonoured
<1> QED BY <1>1, <1>2, <1>3, HeadlessAlways, PTL DEF HeadlessSpec
=============================================================================
