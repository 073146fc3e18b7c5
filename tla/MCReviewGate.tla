---------------------------- MODULE MCReviewGate ----------------------------
(* ReviewGate on a small instance: two defects, every rung of the ladder. *)
EXTENDS ReviewGate, TLC

CONSTANTS t0, t1, t2, q1, q2

MCTrees == {t0, t1, t2}

C(q, g, b, conf, r) == [quote |-> q, grounded |-> g, blocker |-> b, confidence |-> conf, run |-> r]

MCClaims == {
    C(q1, TRUE,  TRUE, 9, "none"),       \* blocks on prose; solicitable
    C(q1, TRUE,  TRUE, 6, "fails"),      \* execution-confirmed
    C(q2, TRUE,  TRUE, 7, "none"),       \* advisory; solicitable
    C(q2, TRUE,  TRUE, 9, "mutates"),    \* repro dirties the workspace
    C(q2, FALSE, TRUE, 9, "passes")}     \* hallucinated quote

Pol(review, solicits, unverified) ==
    [review |-> review, solicits |-> solicits, reviewUnverified |-> unverified]

MCPolicies == {Pol("default", TRUE, TRUE), Pol("requiredOptional", FALSE, TRUE),
               Pol("failOpenOptional", FALSE, TRUE)}
DefaultPolicy  == {Pol("default", FALSE, FALSE)}

(* The two edited trees are interchangeable; safety runs only. *)
TreeSymmetry == Permutations({t1, t2})
=============================================================================
