--------------------------- MODULE TriageOutcome ---------------------------
(***************************************************************************)
(* What the rest of a run may rely on when it hands its alerts to triage:  *)
(* the alerts are labelled one by one in bundle order, every label is one  *)
(* of the three, the triage ends at most once, and it succeeds only with a *)
(* label for every alert.  Errors never turn into labels: they end it.     *)
(***************************************************************************)
EXTENDS Naturals, Sequences

CONSTANT Count      \* the number of alerts of the bundle

VARIABLES
    labels,     \* the labels given so far
    outcome     \* "running", "triaged", or how the triage failed

outcomeVars == <<labels, outcome>>

Failures == {"MODEL_FAILED", "POLICY_REJECTED"}

Init == labels = <<>> /\ outcome = "running"

Label ==
    /\ outcome = "running" /\ Len(labels) < Count
    /\ \E l \in {"TP", "FP", "NMC"} : labels' = Append(labels, l)
    /\ UNCHANGED outcome

Succeed ==
    /\ outcome = "running" /\ Len(labels) = Count
    /\ outcome' = "triaged" /\ UNCHANGED labels

Fail ==
    /\ outcome = "running" /\ Len(labels) < Count
    /\ outcome' \in Failures /\ UNCHANGED labels

Next == Label \/ Succeed \/ Fail

Spec == Init /\ [][Next]_outcomeVars

=============================================================================
