--------------------------- MODULE DecisionPolicy ---------------------------
(***************************************************************************)
(* DeterministicDecisionPolicy: what code, not a model, makes of the       *)
(* Judge's candidate label for one alert of a security query.              *)
(*                                                                         *)
(* A registry is a function from evidence IDs to items.  The ID of a claim *)
(* is a digest of its content and its author, so a claim is its own ID.    *)
(* The texts of a decision (reasoning, next actions, fix guidance) and the *)
(* confidence, which no gate reads, are left out.                          *)
(***************************************************************************)
EXTENDS Naturals

Labels == {"TP", "FP", "NMC"}
Polarities == {"supports_tp", "supports_fp", "neutral"}
Strengths == {"low", "medium", "high", "decisive"}
ClaimStatuses == {"supported", "rebutted", "unresolved"}
PolicyFlags ==
    {"auto_dismiss_disabled", "conflicting_high_strength_evidence",
     "critical_evidence_missing", "fp_decisive_rebuttal_present",
     "fp_missing_decisive_rebuttal", "high_strength_fp_blocks_tp",
     "judge_label_accepted", "judge_requested_nmc", "tp_support_missing",
     "unknown_or_unresolved", "resource_acquisition_missing",
     "resource_context_incomplete", "resource_evidence_conflict",
     "resource_fp_basis_missing", "resource_ownership_confirmed",
     "resource_release_coverage_confirmed", "resource_tp_basis_confirmed",
     "resource_unreleased_exit_missing"}

\* The evidence of one exact occurrence of an alert.
TargetEvidence(registry, target) ==
    {e \in DOMAIN registry : registry[e].target = target}

\* The evidence a Judge answer rests on: what it names itself and what the
\* claims it names cite.
Considered(judge) ==
    judge.evidence \cup UNION {c.evidence : c \in judge.claims}

\* Every reference of the Judge stays inside this conversation and occurrence.
ReferencesResolve(registry, target, claims, judge) ==
    /\ TargetEvidence(registry, target) # {}
    /\ judge.claims \subseteq claims
    /\ Considered(judge) \subseteq TargetEvidence(registry, target)

\* PolicyRejectedError.
Rejection == [label |-> "rejected", flags |-> {}]
Downgrade(flag) == [label |-> "NMC", flags |-> {"auto_dismiss_disabled", flag}]
Accepted(label, flags) ==
    [label |-> label,
     flags |-> flags \cup {"auto_dismiss_disabled", "judge_label_accepted"}]

Supports(item, polarity, strengths) ==
    item.polarity = polarity /\ item.strength \in strengths

HasHighPolarity(registry, ids, polarity) ==
    \E e \in ids : Supports(registry[e], polarity, {"high", "decisive"})

\* Mutant of HasDecisiveRebuttal: any author's claim counts.
HasDecisiveRebuttalByAnyone(registry, critical, rebuttalClaims) ==
    \E c \in critical :
        /\ c.status \in {"rebutted", "supported"}
        /\ \E e \in c.evidence : Supports(registry[e], "supports_fp", {"decisive"})

HasDecisiveRebuttal(registry, critical, rebuttalClaims) ==
    \E c \in rebuttalClaims \cap critical :
        /\ c.status = "rebutted"
        /\ \E e \in c.evidence : Supports(registry[e], "supports_fp", {"decisive"})

\* A supported critical claim of the Analyst rests on evidence of this type.
Established(registry, claims, kind, type, strengths) ==
    \E c \in claims :
        /\ c.kind = kind /\ c.status = "supported"
        /\ \E e \in c.evidence :
             /\ registry[e].type = type
             /\ Supports(registry[e], "supports_tp", strengths)

MediumOrStronger == {"medium", "high", "decisive"}

HasSupportedTPCase(registry, critical, analystClaims) ==
    LET own == analystClaims \cap critical IN
    \/ Established(registry, own, "exploit_succeeds", "verification", {"decisive"})
    \/ /\ Established(registry, own, "source_controllable", "source_control",
                      MediumOrStronger)
       /\ Established(registry, own, "path_feasible", "data_flow", MediumOrStronger)
       /\ Established(registry, own, "sink_dangerous", "sink_semantics",
                      MediumOrStronger)

\* Unknowns of any role, or a critical claim that its author left open.
Doubt(analyst, rebuttal, judge) ==
    \/ analyst.unknowns \cup rebuttal.unknowns \cup judge.unknowns # {}
    \/ \E c \in judge.claims : c.status = "unresolved"

\* The gates that ask whether a TP or FP candidate has its basis.
FalsePositiveGate(registry, rebuttalClaims, judge) ==
    IF HasDecisiveRebuttal(registry, judge.claims, rebuttalClaims)
    THEN Accepted("FP", {"fp_decisive_rebuttal_present"})
    ELSE Downgrade("fp_missing_decisive_rebuttal")

TruePositiveGate(registry, analystClaims, judge) ==
    IF HasSupportedTPCase(registry, judge.claims, analystClaims)
    THEN Accepted("TP", {})
    ELSE Downgrade("tp_support_missing")

\* The gates in the order of the code; the first that holds decides.
Apply(registry, target, analyst, analystClaims, rebuttal, rebuttalClaims, judge) ==
    LET considered == Considered(judge)
        highTP == HasHighPolarity(registry, considered, "supports_tp")
        highFP == HasHighPolarity(registry, considered, "supports_fp")
    IN IF ~ReferencesResolve(registry, target, analystClaims \cup rebuttalClaims, judge)
       THEN Rejection
       ELSE IF judge.label = "NMC" THEN Downgrade("judge_requested_nmc")
       ELSE IF considered = {} THEN Downgrade("critical_evidence_missing")
       ELSE IF Doubt(analyst, rebuttal, judge)
       THEN Downgrade("unknown_or_unresolved")
       ELSE IF highTP /\ highFP
       THEN Downgrade("conflicting_high_strength_evidence")
       ELSE IF judge.label = "TP" /\ highFP
       THEN Downgrade("high_strength_fp_blocks_tp")
       ELSE IF judge.label = "FP"
       THEN FalsePositiveGate(registry, rebuttalClaims, judge)
       ELSE TruePositiveGate(registry, analystClaims, judge)

=============================================================================
