------------------------------- MODULE Triage -------------------------------
(***************************************************************************)
(* The triage of a run's alerts: TriageDispatcher sends each alert to the  *)
(* security or the resource workflow, which asks the Analyst, the Rebuttal *)
(* and the Judge in turn, repairs an invalid answer within two budgets and *)
(* hands the accepted answers to its policy.  After the last alert the     *)
(* pipeline builds the stage artifacts from the results.                   *)
(*                                                                         *)
(* The model is external: it may say anything, so each call may return any *)
(* reply of a given set, fit the response schema or not, or fail.  Texts   *)
(* and digests are left out; the evidence IDs of a draft are a set.        *)
(***************************************************************************)
EXTENDS ResourcePolicy, Sequences, Functions

CONSTANTS
    Alerts,         \* the bundle's alerts, a sequence of [target, rule]
    Registry,       \* the evidence registry
    Replies(_, _),  \* the schema-conforming answers by family and role
    MaxCalls,       \* maximum_model_calls_per_alert
    Repairs         \* maximum_schema_repairs_per_agent

RoleNames == {"analyst", "rebuttal", "judge"}

ResourceRules ==
    [r \in {"java/input-resource-leak", "java/output-resource-leak",
            "java/database-resource-leak", "java/unreleased-lock"} |->
       IF r = "java/input-resource-leak" THEN "input"
       ELSE IF r = "java/output-resource-leak" THEN "output"
       ELSE IF r = "java/database-resource-leak" THEN "database"
       ELSE "lock"]

\* The resource kind of a rule, or the family of every other rule.
Family(rule) ==
    IF rule \in DOMAIN ResourceRules THEN ResourceRules[rule] ELSE "legacy"

Families == ResourceKinds \cup {"legacy"}

Draft == [kind : STRING, statement : STRING, status : ClaimStatuses,
          evidence : SUBSET DOMAIN Registry]
Claim == [kind : STRING, statement : STRING, status : ClaimStatuses,
          evidence : SUBSET DOMAIN Registry, by : RoleNames]

\* What the strict response schema lets through, per role.
ConformsTo(family, role, reply) ==
    IF role = "judge"
    THEN /\ reply.label \in Labels /\ reply.claims \subseteq Claim
         /\ reply.evidence \subseteq DOMAIN Registry
    ELSE /\ reply.drafts \in Seq(Draft)
         /\ \A i \in DOMAIN reply.drafts :
              \/ reply.drafts[i].evidence # {}
              \/ family = "legacy" /\ reply.drafts[i].status = "unresolved"
         /\ role = "rebuttal" => reply.rebutted \subseteq Claim
         /\ family # "legacy" =>
              /\ reply.assess \in [Questions -> AssessmentStatuses]
              /\ reply.gaps \in BOOLEAN
              /\ reply.cites \subseteq DOMAIN Registry /\ reply.cites # {}
              /\ role = "analyst" =>
                   /\ reply.acquisition \in {"yes", "no", "unknown"}
                   /\ reply.exit \in AssessmentStatuses

DistinctTargets(seq) ==
    \A i, j \in DOMAIN seq : seq[i].target = seq[j].target => i = j

\* The validator of the bundle refuses two alerts of one occurrence.
ASSUME TriageAssumption ==
    /\ Alerts \in Seq([target : {Registry[e].target : e \in DOMAIN Registry},
                       rule : STRING])
    /\ DistinctTargets(Alerts)
    /\ MaxCalls \in 3 .. 6 /\ Repairs \in 0 .. 1
    /\ \A f \in Families, r \in RoleNames :
         \A reply \in Replies(f, r) : ConformsTo(f, r, reply)

Malformed == [schema |-> "invalid"]

VARIABLES
    alert,          \* index of the alert under triage
    step,           \* the role whose answer is awaited, or "select", "policy"
    attempt,        \* 0, or 1 for the repair of an invalid answer
    invocations,    \* the records of this alert's calls
    said,           \* the accepted answers, by role
    calls,          \* ghost: the calls made for this alert, failed ones too
    results,        \* the TriageResults so far
    outcome         \* "running", "triaged", or how the triage ended

vars == <<alert, step, attempt, invocations, said, calls, results, outcome>>

NoAnswer == [schema |-> "none"]

Target == Alerts[alert].target
FamilyHere == Family(Alerts[alert].rule)
Own == TargetEvidence(Registry, Target)

Materialize(drafts, author) ==
    {[kind |-> drafts[i].kind, statement |-> drafts[i].statement,
      status |-> drafts[i].status, evidence |-> drafts[i].evidence,
      by |-> author] : i \in DOMAIN drafts}

AnalystClaims == Materialize(said["analyst"].drafts, "analyst")
RebuttalClaims == Materialize(said["rebuttal"].drafts, "rebuttal")

-----------------------------------------------------------------------------
(* The semantic validators. *)

\* Mutant of ValidDrafts: the boundary of the occurrence is not checked.
ValidDraftsOfAnyAlert(drafts, role) ==
    /\ role = "analyst" => \A i \in DOMAIN drafts : drafts[i].status # "rebutted"
    /\ IsInjective(drafts)

ValidDrafts(drafts, role) ==
    /\ \A i \in DOMAIN drafts : drafts[i].evidence \subseteq Own
    /\ role = "analyst" => \A i \in DOMAIN drafts : drafts[i].status # "rebutted"
    /\ IsInjective(drafts)

\* A resource answer names its kind and keeps its assessments inside the
\* occurrence.
ValidShape(reply) == reply.kind = FamilyHere /\ reply.cites \subseteq Own

ValidAnalyst(reply) ==
    /\ ValidDrafts(reply.drafts, "analyst")
    /\ FamilyHere # "legacy" => ValidShape(reply)

ValidRebuttal(reply) ==
    /\ ValidDrafts(reply.drafts, "rebuttal")
    /\ reply.rebutted \subseteq AnalystClaims
    /\ FamilyHere # "legacy" => ValidShape(reply)

ValidJudge(reply) ==
    /\ reply.evidence \subseteq Own
    /\ reply.claims \subseteq AnalystClaims \cup RebuttalClaims
    /\ FamilyHere # "legacy" => reply.kind = FamilyHere

Valid(reply) ==
    /\ reply # Malformed
    /\ step = "analyst" => ValidAnalyst(reply)
    /\ step = "rebuttal" => ValidRebuttal(reply)
    /\ step = "judge" => ValidJudge(reply)

-----------------------------------------------------------------------------
(* The validators of the records that are persisted. *)

\* One accepted Analyst, then Rebuttal, then Judge call, and nothing else
\* accepted; three to six calls.
ValidTrace(trace) ==
    /\ Len(trace) \in 3 .. 6
    /\ \E i, j, k \in DOMAIN trace :
         /\ i < j /\ j < k
         /\ trace[i].role = "analyst" /\ trace[j].role = "rebuttal"
         /\ trace[k].role = "judge"
         /\ \A n \in DOMAIN trace :
              trace[n].status = "accepted" <=> n \in {i, j, k}

\* The materialized claims of a result have different IDs.
ValidResult(trace) ==
    /\ ValidTrace(trace)
    /\ IsInjective(said["analyst"].drafts) /\ IsInjective(said["rebuttal"].drafts)
    /\ AnalystClaims \cap RebuttalClaims = {}

\* A stage record holds one or two calls of its role, one of them accepted.
ValidStage(trace, role) ==
    LET own == {n \in DOMAIN trace : trace[n].role = role} IN
    /\ \E n \in own : trace[n].status = "accepted"
    /\ \A m, n \in own :
         trace[m].status = "accepted" /\ trace[n].status = "accepted" => m = n
    /\ \A l, m, n \in own : l = m \/ l = n \/ m = n

\* A row of the report is closed: what the roles and the policy refer to is
\* evidence of the occurrence, or a claim made from an answer in the row.
ValidRow(row) ==
    LET known == TargetEvidence(Registry, row.target)
        claims == row.analystClaims \cup row.rebuttalClaims
    IN /\ row.analystClaims = Materialize(row.analyst.drafts, "analyst")
       /\ row.rebuttalClaims = Materialize(row.rebuttal.drafts, "rebuttal")
       /\ row.rebuttal.rebutted \subseteq row.analystClaims
       /\ \A c \in claims : c.evidence \subseteq known
       /\ row.judge.evidence \subseteq known /\ row.judge.claims \subseteq claims

\* The report joins alerts and results by their occurrence.
ValidReport ==
    /\ DistinctTargets(results) /\ Len(results) = Len(Alerts)
    /\ \A n \in DOMAIN Alerts : \E i \in DOMAIN results :
         results[i].target = Alerts[n].target /\ ValidRow(results[i])

-----------------------------------------------------------------------------
(* The workflow. *)

Init ==
    /\ alert = 1 /\ step = "select" /\ attempt = 0 /\ invocations = <<>>
    /\ said = [r \in RoleNames |-> NoAnswer]
    /\ calls = 0 /\ results = <<>> /\ outcome = "running"

End(how) == outcome' = how /\ step' = "none"

\* Mutant of Select: the loop stops one alert early.
SelectAllButLast ==
    /\ step = "select" /\ alert < Len(Alerts)
    /\ invocations' = <<>> /\ calls' = 0 /\ attempt' = 0
    /\ said' = [r \in RoleNames |-> NoAnswer]
    /\ step' = "analyst" /\ UNCHANGED <<outcome, alert, results>>

\* Take the next alert; without evidence for it the policy is violated.
Select ==
    /\ step = "select" /\ alert <= Len(Alerts)
    /\ invocations' = <<>> /\ calls' = 0 /\ attempt' = 0
    /\ said' = [r \in RoleNames |-> NoAnswer]
    /\ IF Own = {} THEN End("POLICY_REJECTED")
       ELSE step' = "analyst" /\ UNCHANGED outcome
    /\ UNCHANGED <<alert, results>>

Record(status) ==
    invocations' = Append(invocations,
        [role |-> step, attempt |-> attempt, status |-> status])

NextStep(role) ==
    IF role = "analyst" THEN "rebuttal"
    ELSE IF role = "rebuttal" THEN "judge" ELSE "policy"

\* Mutant of WithinBudget: the last call of the budget is allowed twice.
WithinBudgetPlusOne == Len(invocations) <= MaxCalls

\* The budget is checked before every call, first or repair.
WithinBudget == Len(invocations) < MaxCalls

ExceedBudget ==
    /\ step \in RoleNames /\ ~WithinBudget
    /\ End("MODEL_FAILED")
    /\ UNCHANGED <<alert, attempt, invocations, said, calls, results>>

\* The request is larger than the limit: nothing is sent.
RefuseRequest ==
    /\ step \in RoleNames /\ WithinBudget
    /\ End("MODEL_FAILED")
    /\ UNCHANGED <<alert, attempt, invocations, said, calls, results>>

\* Mutant of CallFails: the alert whose call failed is left out.
CallFailsAndGoesOn ==
    /\ step \in RoleNames /\ WithinBudget
    /\ calls' = calls + 1
    /\ alert' = alert + 1 /\ step' = "select"
    /\ UNCHANGED <<attempt, invocations, said, results, outcome>>

\* Transport, authentication or Replay failure: a ModelError is not repaired
\* and leaves no record of its own.
CallFails ==
    /\ step \in RoleNames /\ WithinBudget
    /\ calls' = calls + 1
    /\ End("MODEL_FAILED")
    /\ UNCHANGED <<alert, attempt, invocations, said, results>>

\* Mutant of Accept: the counter of the repairs is not reset for the next role.
AcceptKeepingAttempt(reply) ==
    /\ Record("accepted")
    /\ said' = [said EXCEPT ![step] = reply]
    /\ step' = NextStep(step) /\ attempt' = 1
    /\ UNCHANGED outcome

Accept(reply) ==
    /\ Record("accepted")
    /\ said' = [said EXCEPT ![step] = reply]
    /\ step' = NextStep(step) /\ attempt' = 0
    /\ UNCHANGED outcome

Reject ==
    /\ Record("invalid")
    /\ UNCHANGED said
    /\ IF attempt < Repairs
       THEN attempt' = attempt + 1 /\ UNCHANGED <<step, outcome>>
       ELSE End("MODEL_FAILED") /\ UNCHANGED attempt

\* One answered call of a role.
Call ==
    /\ step \in RoleNames /\ WithinBudget
    /\ calls' = calls + 1
    /\ \E reply \in Replies(FamilyHere, step) \cup {Malformed} :
         IF Valid(reply) THEN Accept(reply) ELSE Reject
    /\ UNCHANGED <<alert, results>>

PolicyVerdict ==
    IF FamilyHere = "legacy"
    THEN Apply(Registry, Target, said["analyst"], AnalystClaims,
               said["rebuttal"], RebuttalClaims, said["judge"])
    ELSE ApplyResource(Registry, Target, said["analyst"], AnalystClaims,
                       said["rebuttal"], RebuttalClaims, said["judge"])

\* Apply the policy and build the TriageResult, whose validator may raise an
\* error that no handler of the run expects.
Decide ==
    /\ step = "policy"
    /\ IF PolicyVerdict = Rejection
       THEN End("POLICY_REJECTED") /\ UNCHANGED <<alert, results>>
       ELSE IF ~ValidResult(invocations)
       THEN End("crashed") /\ UNCHANGED <<alert, results>>
       ELSE /\ results' = Append(results,
                 [target |-> Target, family |-> FamilyHere,
                  analyst |-> said["analyst"], rebuttal |-> said["rebuttal"],
                  judge |-> said["judge"], analystClaims |-> AnalystClaims,
                  rebuttalClaims |-> RebuttalClaims,
                  decision |-> PolicyVerdict, trace |-> invocations])
            /\ alert' = alert + 1 /\ step' = "select" /\ UNCHANGED outcome
    /\ UNCHANGED <<attempt, invocations, said, calls>>

\* After the last alert: the stage artifacts, one record per occurrence.
Persist ==
    /\ step = "select" /\ alert > Len(Alerts)
    /\ IF /\ DistinctTargets(results)
          /\ \A i \in DOMAIN results, r \in {"analyst", "rebuttal"} :
               ValidStage(results[i].trace, r)
       THEN step' = "report" /\ UNCHANGED outcome ELSE End("crashed")
    /\ UNCHANGED <<alert, attempt, invocations, said, calls, results>>

\* The report is built and closed; a ValueError ends the command instead.
Report ==
    /\ step = "report"
    /\ End(IF ValidReport THEN "triaged" ELSE "crashed")
    /\ UNCHANGED <<alert, attempt, invocations, said, calls, results>>

Next ==
    \/ Select \/ ExceedBudget \/ RefuseRequest \/ CallFails \/ Call
    \/ Decide \/ Persist \/ Report

Spec == Init /\ [][Next]_vars

\* Every provider answers or fails in bounded time, and the program goes on.
FairSpec == Spec /\ WF_vars(Next)

-----------------------------------------------------------------------------
(* Properties. *)

Answers == {NoAnswer} \cup UNION {Replies(f, r) : f \in Families, r \in RoleNames}
Invocation == [role : RoleNames, attempt : 0 .. 1, status : {"accepted", "invalid"}]
Targets == {Registry[e].target : e \in DOMAIN Registry}
Result == [target : Targets, family : Families, analyst : Answers,
           rebuttal : Answers, judge : Answers, analystClaims : SUBSET Claim,
           rebuttalClaims : SUBSET Claim, trace : Seq(Invocation),
           decision : [label : Labels, flags : SUBSET PolicyFlags]]

\* Every variable holds a value of its type.
TypeOK ==
    /\ alert \in 1 .. Len(Alerts) + 1
    /\ step \in RoleNames \cup {"select", "policy", "report", "none"}
    /\ step \in RoleNames \cup {"policy"} => alert <= Len(Alerts)
    /\ step = "report" => alert > Len(Alerts)
    /\ attempt \in 0 .. 1
    /\ invocations \in Seq(Invocation)
    /\ said \in [RoleNames -> Answers]
    /\ calls \in Nat
    /\ results \in Seq(Result) /\ Len(results) <= Len(Alerts)
    /\ alert = Len(results) + 1
    /\ outcome \in {"running", "triaged", "MODEL_FAILED", "POLICY_REJECTED",
                    "crashed"}
    /\ (outcome = "running") <=> (step # "none")

\* The budgets hold for the calls really made, including the one that fails
\* and leaves no record.
BudgetHolds == calls <= MaxCalls /\ calls - Len(invocations) \in 0 .. 1

\* The workflow never produces what the validators of the persisted records and
\* of the report refuse (two results of one occurrence, a role without its one
\* accepted call, a reference that leads nowhere): an error there would end the command without a recorded
\* failure, after all model calls were paid for.
NeverCrashes == outcome # "crashed"

\* An invalid answer ends the run only after the role used all its repairs.
EveryRoleGetsItsRepair ==
    [][outcome' = "MODEL_FAILED" /\ invocations' # invocations =>
         \A n \in 0 .. Repairs : \E i \in DOMAIN invocations' :
             /\ invocations'[i].role = step /\ invocations'[i].attempt = n
             /\ invocations'[i].status = "invalid"]_vars

\* The policy's own reference checks are a second line of defence: no accepted
\* conversation reaches them, so a policy rejection means missing evidence.
RejectionMeansNoEvidence ==
    outcome = "POLICY_REJECTED" => Own = {}

\* A conversation that was paid for is decided: nothing the workflow accepted
\* is refused afterwards, by the policy (workflow.py:179) or by the records
\* (domain/triage.py:209-261) or the report (domain/report.py:97-165).
AcceptedIsDecided == NeverCrashes /\ RejectionMeansNoEvidence

\* No unknown of any role, no claim left open by its author, and no evidence of
\* another occurrence stands behind a TP or FP.
Certain(result) ==
    /\ result.decision.label \in {"TP", "FP"} =>
         /\ result.decision.label = result.judge.label
         /\ ~Doubt(result.analyst, result.rebuttal, result.judge)
         /\ Considered(result.judge) # {}
         /\ Considered(result.judge) \subseteq TargetEvidence(Registry, result.target)

\* A security FP rests on a decisive item of this occurrence that a Rebuttal
\* claim cites; a resource FP on an assessment of the Rebuttal.
FalsePositiveBasis(result) ==
    result.decision.label = "FP" =>
        IF result.family = "legacy"
        THEN \E c \in result.rebuttalClaims, e \in DOMAIN Registry :
               /\ c.status = "rebutted" /\ e \in c.evidence
               /\ Registry[e].target = result.target
               /\ Supports(Registry[e], "supports_fp", {"decisive"})
        ELSE Answered(result.rebuttal, ReleaseQuestions, "confirmed")

\* A TP rests on the Analyst's supported claims and nothing strong against it.
TruePositiveBasis(result) ==
    result.decision.label = "TP" =>
        IF result.family = "legacy"
        THEN /\ ~HasHighPolarity(Registry, Considered(result.judge), "supports_fp")
             /\ \E c \in result.analystClaims, e \in DOMAIN Registry :
                  /\ c.status = "supported" /\ e \in c.evidence
                  /\ Registry[e].target = result.target
                  /\ Supports(Registry[e], "supports_tp", MediumOrStronger)
        ELSE /\ result.analyst.acquisition = "yes"
             /\ result.analyst.exit = "confirmed"
             /\ ~Answered(result.rebuttal, ReleaseQuestions, "confirmed")

\* Whatever the three roles answer, a decided alert has its documented basis.
VerdictsAreGrounded ==
    \A i \in DOMAIN results :
        /\ results[i].target = Alerts[i].target
        /\ results[i].family = Family(Alerts[i].rule)
        /\ Certain(results[i])
        /\ FalsePositiveBasis(results[i])
        /\ TruePositiveBasis(results[i])

-----------------------------------------------------------------------------
(* The inductive invariant behind the theorems. *)

\* How far the conversation is; the answers of the roles before are accepted.
Rank(s) ==
    IF s = "analyst" THEN 1 ELSE IF s = "rebuttal" THEN 2
    ELSE IF s = "judge" THEN 3 ELSE 4

\* The calls so far: in role order, the attempts of a role in order, one
\* accepted for each role before this one and none for this one.
TraceInv ==
    /\ calls = Len(invocations) /\ Len(invocations) <= MaxCalls
    /\ attempt <= Repairs
    /\ \A m, n \in DOMAIN invocations : m < n =>
         \/ Rank(invocations[m].role) < Rank(invocations[n].role)
         \/ /\ invocations[m].role = invocations[n].role
            /\ invocations[m].attempt < invocations[n].attempt
    /\ \A n \in DOMAIN invocations :
         LET c == invocations[n] IN
         /\ Rank(c.role) <= Rank(step)
         /\ c.role = step => c.status = "invalid" /\ c.attempt < attempt
    /\ \A r \in RoleNames : Rank(r) < Rank(step) =>
         \E n \in DOMAIN invocations :
             invocations[n].role = r /\ invocations[n].status = "accepted"
    /\ \A m, n \in DOMAIN invocations :
         /\ invocations[m].role = invocations[n].role
         /\ invocations[m].status = "accepted" /\ invocations[n].status = "accepted"
         => m = n

\* The accepted answers went through their validators.
AnswersInv ==
    /\ Own # {}
    /\ Rank(step) > 1 => said["analyst"] \in Replies(FamilyHere, "analyst")
                          /\ ValidAnalyst(said["analyst"])
    /\ Rank(step) > 2 => said["rebuttal"] \in Replies(FamilyHere, "rebuttal")
                          /\ ValidRebuttal(said["rebuttal"])
    /\ Rank(step) > 3 => said["judge"] \in Replies(FamilyHere, "judge")
                          /\ ValidJudge(said["judge"])

\* The repair under way follows one invalid answer for each attempt before it.
AttemptsInv ==
    step \in RoleNames => \A n \in 0 .. 1 : n < attempt =>
        \E i \in DOMAIN invocations :
            /\ invocations[i].role = step /\ invocations[i].attempt = n
            /\ invocations[i].status = "invalid"

StagesInv ==
    \A i \in DOMAIN results, r \in {"analyst", "rebuttal"} :
        ValidStage(results[i].trace, r)

RowsInv == \A i \in DOMAIN results : ValidRow(results[i])

TriageInv ==
    /\ step \in RoleNames \cup {"policy"} => TraceInv /\ AnswersInv
    /\ StagesInv
    /\ RowsInv
    /\ VerdictsAreGrounded

-----------------------------------------------------------------------------

\* The whole triage behaves as the rest of the run expects.
Outcome == INSTANCE TriageOutcome
    WITH Count <- Len(Alerts),
         labels <- [i \in DOMAIN results |-> results[i].decision.label]

ImplementsTriageOutcome == Outcome!Spec

\* Every triage ends: repairs and roles cannot go on for ever.
Terminates == <>(outcome # "running")

\* docs/adr/0014-resource-leak-v2-closed-loop.md:35: "Unknown, partial, or
\* conflicting critical facts force NMC".  A confirmed exit without release
\* and a confirmed release coverage conflict.
ConflictingFactsForceNMC ==
    \A i \in DOMAIN results :
        /\ results[i].family # "legacy"
        /\ results[i].analyst.exit = "confirmed"
        /\ results[i].rebuttal.assess["release_coverage"] = "confirmed"
        => results[i].decision.label = "NMC"

=============================================================================
