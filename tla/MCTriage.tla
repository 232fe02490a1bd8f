------------------------------ MODULE MCTriage ------------------------------
(* The triage of small bundles, with a few replies for each role.           *)
EXTENDS Triage

\* s1 .. s5 belong to a security alert, l1 and l2 to an unreleased lock, and g1
\* to an input resource whose context is incomplete.
MCRegistry ==
    [e \in {"s1", "s2", "s3", "s4", "s5", "l1", "l2", "g1"} |->
       IF e = "s1" THEN [target |-> "security", type |-> "source_control",
                         polarity |-> "supports_tp", strength |-> "medium"]
       ELSE IF e = "s2" THEN [target |-> "security", type |-> "data_flow",
                              polarity |-> "supports_tp", strength |-> "high"]
       ELSE IF e = "s3" THEN [target |-> "security", type |-> "sink_semantics",
                              polarity |-> "supports_tp", strength |-> "medium"]
       ELSE IF e = "s4" THEN [target |-> "security", type |-> "rebuttal",
                              polarity |-> "supports_fp", strength |-> "decisive"]
       ELSE IF e = "s5" THEN [target |-> "security", type |-> "verification",
                              polarity |-> "supports_tp", strength |-> "decisive"]
       ELSE IF e = "g1" THEN [target |-> "input", type |-> "context_gap",
                              polarity |-> "neutral", strength |-> "high"]
       ELSE [target |-> "lock", type |-> "resource_lifecycle",
             polarity |-> "neutral", strength |-> "low"]]

SecurityAlert == [target |-> "security", rule |-> "java/path-injection"]
LockAlert == [target |-> "lock", rule |-> "java/unreleased-lock"]
InputAlert == [target |-> "input", rule |-> "java/input-resource-leak"]

MCResource == <<LockAlert>>
MCAll == <<SecurityAlert, InputAlert, LockAlert>>

D(kind, status, evidence) ==
    [kind |-> kind, statement |-> "s", status |-> status, evidence |-> evidence]
C(draft, by) ==
    [kind |-> draft.kind, statement |-> draft.statement,
     status |-> draft.status, evidence |-> draft.evidence, by |-> by]

Source == D("source_controllable", "supported", {"s1"})
Path == D("path_feasible", "supported", {"s2"})
Sink == D("sink_dangerous", "supported", {"s3"})
Refuted == D("sanitizer_effective", "rebutted", {"s4"})
Foreign == D("path_feasible", "supported", {"l1"})
Stated == D("sanitizer_effective", "supported", {"s4"})

Case == {C(Source, "analyst"), C(Path, "analyst"), C(Sink, "analyst")}

Acquired == D("resource_acquisition", "supported", {"l1"})
Exit == D("feasible_unreleased_exit", "supported", {"l2"})
Covered == D("release_coverage", "supported", {"l1"})

\* All questions answered "absent" but one.
Assessments(questions, statuses) ==
    {[q \in Questions |-> IF q = asked THEN s ELSE "absent"] :
        asked \in questions, s \in statuses}

LockAnalyst(drafts, assessments, exits, acquisitions, gaps) ==
    [kind : {"lock"}, cites : {{"l1"}}, drafts : drafts, unknowns : {{}},
     assess : assessments, exit : exits, acquisition : acquisitions, gaps : gaps]

LockRebuttal(drafts, assessments, gaps) ==
    [kind : {"lock"}, cites : {{"l1"}}, drafts : drafts, unknowns : {{}},
     rebutted : {{}}, assess : assessments, gaps : gaps]

LockJudge(claims) ==
    [kind : {"lock"}, label : Labels, evidence : {{"l1"}}, unknowns : {{}},
     claims : claims]

LeakClaims == {C(Acquired, "analyst"), C(Exit, "analyst")}

MCReplies(family, role) ==
    IF family = "legacy"
    THEN IF role = "analyst"
         THEN {[drafts |-> <<Source, Path, Sink, Stated>>, unknowns |-> {}]}
         ELSE IF role = "rebuttal"
         THEN [drafts : {<<>>, <<Refuted>>, <<Foreign>>}, rebutted : {{}}, unknowns : {{}}]
         ELSE {[label |-> "TP", evidence |-> {"s2"}, unknowns |-> {},
                claims |-> Case],
               [label |-> "FP", evidence |-> {"s4"}, unknowns |-> {},
                claims |-> {C(Refuted, "rebuttal")}],
               [label |-> "FP", evidence |-> {}, unknowns |-> {},
                claims |-> {C(Stated, "analyst")}],
               [label |-> "FP", evidence |-> {}, unknowns |-> {},
                claims |-> {C(Foreign, "rebuttal")}]}
    ELSE IF family = "lock"
    THEN IF role = "analyst"
         THEN LockAnalyst({<<Acquired, Exit>>}, Assessments(Questions, {"absent"}),
                          {"confirmed"}, {"yes"}, {FALSE})
         ELSE IF role = "rebuttal"
         THEN LockRebuttal({<<Covered>>},
                  Assessments({"release_coverage"}, {"absent", "confirmed"}),
                  {FALSE})
         ELSE LockJudge({LeakClaims, {C(Covered, "rebuttal")}})
    ELSE IF role = "judge"
    THEN [kind : {"input"}, label : Labels, evidence : {{"g1"}},
          unknowns : {{}}, claims : {{}}]
    ELSE [kind : {"input"}, cites : {{"g1"}, {"l1"}}, drafts : {<<>>},
          unknowns : {{}}, rebutted : {{}}, exit : {"absent"},
          assess : Assessments({"release_coverage"}, {"confirmed"}),
          acquisition : {"yes"}, gaps : {FALSE}]

=============================================================================
