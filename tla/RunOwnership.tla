---------------------------- MODULE RunOwnership ----------------------------
(***************************************************************************)
(* What a client may rely on about a run identifier: it belongs to the     *)
(* inputs that claimed it first until it is released, and it never goes    *)
(* from ready back to preparing.                                           *)
(***************************************************************************)
CONSTANTS Inputs, NoInputs

VARIABLES
    owner,      \* the inputs the identifier belongs to
    ready       \* whether its workspace may be used

ownershipVars == <<owner, ready>>

Init == owner = NoInputs /\ ready = FALSE

Claim == owner = NoInputs /\ owner' \in Inputs /\ ready' = FALSE

Complete == owner # NoInputs /\ ready' = TRUE /\ UNCHANGED owner

Release == owner # NoInputs /\ owner' = NoInputs /\ ready' = FALSE

Spec == Init /\ [][Claim \/ Complete \/ Release]_ownershipVars

=============================================================================
