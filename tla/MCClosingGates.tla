--------------------------- MODULE MCClosingGates ---------------------------
(* ClosingGates on four trees: the base, a good fix, a red attempt, and a   *)
(* cheat that is green because it edited the fenced tests.                  *)
EXTENDS ClosingGates

CONSTANTS t0, good, bad, cheat, q1

MCTrees       == {t0, good, bad, cheat}
HonestTrees   == {t0, good, bad}
GreenBase     == [t \in MCTrees |-> IF t = bad THEN "red" ELSE "ok"]
RedBase       == [t \in MCTrees |-> IF t \in {t0, bad} THEN "red" ELSE "ok"]
HonestGreenBase == [t \in HonestTrees |-> IF t = bad THEN "red" ELSE "ok"]

Blocker == [quote |-> q1, grounded |-> TRUE, blocker |-> TRUE, confidence |-> 9, run |-> "none"]
Mutator == [Blocker EXCEPT !.run = "mutates"]

MCClaims == {Blocker, Mutator}

Policy(flags, review) ==
    [f \in Flags \cup {"solicits", "reviewUnverified", "review"} |->
        IF f = "review" THEN review ELSE f \in flags]

Guarded    == {Policy({"cmd", "fence", "scope", "verifyContinue"}, "default"),
               Policy({"cmd", "fence", "scope", "trustFinish", "requireDiff"}, "default"),
               Policy({"fence", "scope", "verifyLastRun"}, "default"),
               Policy({"cmd", "abortOnRed"}, "default")}
WithReview   == {Policy({"cmd", "reviewer", "verifyContinue", "reviewUnverified"}, "default"),
               Policy({"cmd", "reviewer"}, "failOpen")}
ReproFirst == {Policy({"cmd", "reproFirst", "verifyContinue"}, "default"),
               Policy({"reproFirst", "requireDiff"}, "default")}
Soft       == {Policy({"cmd", "soft", "skipBaseline", "verifyContinue"}, "default")}
Staged     == WithReview \cup ReproFirst \cup Soft
=============================================================================
