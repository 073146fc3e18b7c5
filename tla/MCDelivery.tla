----------------------------- MODULE MCDelivery -----------------------------
(***************************************************************************)
(* The two components that end a run, on their small instances: the review  *)
(* gate that judges its tree, and the headless driver that delivers it.     *)
(* They share no state, so a behaviour follows one of them, the focus, and  *)
(* leaves the other where it begins.                                        *)
(***************************************************************************)
EXTENDS MCReviewGate, MCHeadless

VARIABLE focus

deliveryVars == <<focus, reviewVars, hvars>>

any(S) == CHOOSE x \in S : TRUE

MCInit ==
    /\ focus \in {"review", "headless"}
    /\ focus # "review" => pol = any(Policies)
    /\ focus # "headless" => inv = any(Invocations)
    /\ ReviewInit /\ HeadlessInit

MCNext ==
    /\ UNCHANGED focus
    /\ \/ focus = "review" /\ ReviewNext
       \/ focus # "review" /\ UNCHANGED reviewVars
    /\ \/ focus = "headless" /\ HeadlessNext
       \/ focus # "headless" /\ UNCHANGED hvars

DeliverySpec == MCInit /\ [][MCNext]_deliveryVars

(* Types: the state of the review and of the run that is delivered is what  *)
(* their code holds.                                                        *)
DeliveryTypeOK == ReviewTypeOK /\ HeadlessTypeOK
=============================================================================
