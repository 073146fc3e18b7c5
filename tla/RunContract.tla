----------------------------- MODULE RunContract -----------------------------
(***************************************************************************)
(* What the caller of a run of package agent may rely on, whatever gates    *)
(* are armed: the run works for a bounded number of turns and ends, once    *)
(* and for all.  It is answered, claimed or rescued, only on a tree that is *)
(* acceptable at that moment and that is the tree delivered; it is          *)
(* unverified only when some gate has a fault to hold against it.           *)
(***************************************************************************)
EXTENDS Naturals

CONSTANTS
    Trees,      \* the workspaces
    Base,       \* the one the run starts on
    MaxTurns    \* turns a run may begin

VARIABLES
    stands,     \* the workspace
    acceptable, \* does it clear the bar of the gates this run has armed?
    faulted,    \* may a gate refuse the run?
    turns,      \* turns begun
    outcome,    \* RunResult.Outcome; "none" while the run goes on
    rescued     \* RunResult.RescuedFrom

contractVars == <<stands, acceptable, faulted, turns, outcome, rescued>>

Stops    == {"HitCap", "HitBudget", "Killed"}  \* outcomes upgradeIfVerified may rescue
Failures == Stops \cup {"Unverified", "ScopeViolation", "Canceled", "ProviderErr"}

ContractInit == stands = Base /\ turns = 1 /\ outcome = "none" /\ rescued = "none"

Works ==
    /\ outcome = "none" /\ UNCHANGED <<outcome, rescued>>
    /\ turns' \in {turns, turns + 1} /\ turns' <= MaxTurns
    /\ stands' \in Trees

Answers ==
    /\ outcome = "none" /\ acceptable
    /\ outcome' = "Answered" /\ UNCHANGED <<stands, turns, rescued>>

Rescues ==
    /\ outcome = "none" /\ acceptable
    /\ outcome' = "Answered" /\ rescued' \in Stops /\ UNCHANGED <<stands, turns>>

Fails ==
    /\ outcome = "none"
    /\ outcome' \in Failures /\ (outcome' = "Unverified" => faulted)
    /\ UNCHANGED <<stands, turns, rescued>>

ContractNext == Works \/ Answers \/ Rescues \/ Fails

(* A run that is over stays over: nothing it reported changes.             *)
ContractSpec == ContractInit /\ [][ContractNext]_contractVars /\ <>(outcome # "none")
=============================================================================
