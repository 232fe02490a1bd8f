--------------------------- MODULE ResourcePolicy ---------------------------
(***************************************************************************)
(* ResourceDecisionPolicy: what code makes of the Judge's candidate label  *)
(* for one alert of a resource-leak query.                                 *)
(*                                                                         *)
(* Analyst and Rebuttal answer the same lifecycle questions; an output     *)
(* maps each question to a status.  The Analyst also answers whether the   *)
(* acquisition succeeds and whether an exit leaves the resource open       *)
(* (`exit`); `gaps` says that an output lists context gaps.                *)
(***************************************************************************)
EXTENDS DecisionPolicy

ResourceKinds == {"input", "output", "database", "lock"}
AssessmentStatuses == {"confirmed", "absent", "unknown", "conflicting"}

\* What would show that the resource is released or owned elsewhere.
ReleaseQuestions ==
    {"release_coverage", "ownership_transfer", "callee_release_behavior",
     "lifecycle_contract"}
Questions == ReleaseQuestions \cup {"resource_escape"}

TPClaims == {"resource_acquisition", "feasible_unreleased_exit"}
FPClaims ==
    {"release_coverage", "ownership_transfer", "callee_summary",
     "lifecycle_contract"}

Answered(output, questions, status) ==
    \E q \in questions : output.assess[q] = status

\* Some assessment of either role has this status.
AnyAssessment(analyst, rebuttal, status) ==
    \/ analyst.exit = status
    \/ Answered(analyst, Questions, status)
    \/ Answered(rebuttal, Questions, status)

ContextIncomplete(registry, target, analyst, rebuttal) ==
    \/ \E e \in TargetEvidence(registry, target) : registry[e].type = "context_gap"
    \/ analyst.gaps \/ rebuttal.gaps

HasClaimKinds(claims, kinds, status) ==
    \A k \in kinds : \E c \in claims :
        c.kind = k /\ c.status = status /\ c.evidence # {}

HasClaimKind(claims, kinds, statuses) ==
    \E c \in claims : c.kind \in kinds /\ c.status \in statuses /\ c.evidence # {}

ResourceTruePositiveGate(analyst, rebuttal, judge) ==
    IF analyst.acquisition # "yes" THEN Downgrade("resource_acquisition_missing")
    ELSE IF analyst.exit # "confirmed"
    THEN Downgrade("resource_unreleased_exit_missing")
    ELSE IF Answered(analyst, ReleaseQuestions, "confirmed")
              \/ Answered(rebuttal, ReleaseQuestions, "confirmed")
    THEN Downgrade("resource_evidence_conflict")
    ELSE IF ~HasClaimKinds(judge.claims, TPClaims, "supported")
    THEN Downgrade("tp_support_missing")
    ELSE Accepted("TP", {"resource_tp_basis_confirmed"})

ResourceFalsePositiveGate(rebuttal, judge) ==
    IF /\ Answered(rebuttal, ReleaseQuestions, "confirmed")
       /\ HasClaimKind(judge.claims, FPClaims, {"supported", "rebutted"})
    THEN Accepted("FP",
           {IF rebuttal.assess["release_coverage"] = "confirmed"
            THEN "resource_release_coverage_confirmed"
            ELSE "resource_ownership_confirmed"})
    ELSE Downgrade("resource_fp_basis_missing")

\* The gates in the order of the code; the first that holds decides.
ApplyResource(registry, target, analyst, analystClaims, rebuttal, rebuttalClaims, judge) ==
    IF ~ReferencesResolve(registry, target, analystClaims \cup rebuttalClaims, judge)
    THEN Rejection
    ELSE IF judge.label = "NMC" THEN Downgrade("judge_requested_nmc")
    ELSE IF ContextIncomplete(registry, target, analyst, rebuttal)
    THEN Downgrade("resource_context_incomplete")
    ELSE IF AnyAssessment(analyst, rebuttal, "conflicting")
    THEN Downgrade("resource_evidence_conflict")
    ELSE IF \/ Doubt(analyst, rebuttal, judge)
            \/ AnyAssessment(analyst, rebuttal, "unknown")
    THEN Downgrade("unknown_or_unresolved")
    ELSE IF judge.label = "TP"
    THEN ResourceTruePositiveGate(analyst, rebuttal, judge)
    ELSE ResourceFalsePositiveGate(rebuttal, judge)

=============================================================================
