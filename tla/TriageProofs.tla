---------------------------- MODULE TriageProofs ----------------------------
(***************************************************************************)
(* Theorems about the triage, for every bundle, registry, model and budget. *)
(***************************************************************************)
EXTENDS Triage, TLAPS

-----------------------------------------------------------------------------
(* The policies, for every input. *)

\* What a security label rests on, whatever registry and answers the policy is
\* given: the Judge only asks, and a gate must hold for the answer to stand.
LEMMA LegacyBasis ==
    ASSUME NEW registry, NEW target, NEW analyst, NEW analystClaims,
           NEW rebuttal, NEW rebuttalClaims, NEW judge, judge.label \in Labels,
           NEW d, d = Apply(registry, target, analyst, analystClaims, rebuttal,
                            rebuttalClaims, judge),
           d.label \in {"TP", "FP"}
    PROVE  /\ d.label = judge.label
           /\ ~Doubt(analyst, rebuttal, judge)
           /\ Considered(judge) # {}
           /\ Considered(judge) \subseteq TargetEvidence(registry, target)
           /\ d.label = "FP" =>
                HasDecisiveRebuttal(registry, judge.claims, rebuttalClaims)
           /\ d.label = "TP" =>
                /\ ~HasHighPolarity(registry, Considered(judge), "supports_fp")
                /\ HasSupportedTPCase(registry, judge.claims, analystClaims)
  BY DEF Apply, Rejection, Downgrade, Accepted, FalsePositiveGate,
         TruePositiveGate, ReferencesResolve, Labels

\* What a resource label rests on.
LEMMA ResourceBasis ==
    ASSUME NEW registry, NEW target, NEW analyst, NEW analystClaims,
           NEW rebuttal, NEW rebuttalClaims, NEW judge, judge.label \in Labels,
           NEW d, d = ApplyResource(registry, target, analyst, analystClaims,
                                    rebuttal, rebuttalClaims, judge),
           d.label \in {"TP", "FP"}
    PROVE  /\ d.label = judge.label
           /\ ~Doubt(analyst, rebuttal, judge)
           /\ Considered(judge) \subseteq TargetEvidence(registry, target)
           /\ d.label = "FP" =>
                /\ Answered(rebuttal, ReleaseQuestions, "confirmed")
                /\ HasClaimKind(judge.claims, FPClaims, {"supported", "rebutted"})
           /\ d.label = "TP" =>
                /\ analyst.acquisition = "yes" /\ analyst.exit = "confirmed"
                /\ ~Answered(rebuttal, ReleaseQuestions, "confirmed")
                /\ HasClaimKinds(judge.claims, TPClaims, "supported")
  BY DEF ApplyResource, Rejection, Downgrade, Accepted, ResourceTruePositiveGate,
         ResourceFalsePositiveGate, ReferencesResolve, Labels

-----------------------------------------------------------------------------
(* Type correctness. *)

\* Every rule identifier names a family that has a workflow.
LEMMA FamilyType ==
    ASSUME NEW rule
    PROVE  Family(rule) \in Families
  BY DEF Family, Families, ResourceKinds, ResourceRules

\* Recording a call keeps the trace a sequence of records.
LEMMA RecordType ==
    ASSUME TypeOK, step \in RoleNames, NEW s \in {"accepted", "invalid"}, Record(s)
    PROVE  /\ invocations' \in Seq(Invocation)
           /\ Len(invocations') = Len(invocations) + 1
           /\ invocations'[Len(invocations) + 1] =
                [role |-> step, attempt |-> attempt, status |-> s]
           /\ \A n \in DOMAIN invocations : invocations'[n] = invocations[n]
           /\ DOMAIN invocations' = DOMAIN invocations \cup {Len(invocations) + 1}
  BY DEF TypeOK, Record, Invocation

\* A call leaves the types alone, whatever the model answers.
LEMMA CallType ==
    ASSUME TypeOK, Call
    PROVE  TypeOK'
<1> USE TriageAssumption
<1>1. PICK reply \in Replies(FamilyHere, step) \cup {Malformed} :
         IF Valid(reply) THEN Accept(reply) ELSE Reject
  BY DEF Call
<1>2. /\ step \in RoleNames /\ calls' \in Nat /\ alert' = alert
      /\ results' = results /\ alert <= Len(Alerts)
  BY DEF Call, TypeOK
<1>3. CASE Valid(reply)
  <2>1. Accept(reply) /\ reply \in Replies(FamilyHere, step)
    BY <1>1, <1>3 DEF Valid
  <2>2. reply \in Answers
    BY <2>1, <1>2, FamilyType DEF Answers, FamilyHere
  <2>3. said' \in [RoleNames -> Answers]
    BY <2>1, <2>2 DEF Accept, TypeOK
  <2>4. invocations' \in Seq(Invocation)
    BY <2>1, <1>2, RecordType DEF Accept
  <2> QED
    BY <2>1, <2>3, <2>4, <1>2 DEF Accept, TypeOK, NextStep, RoleNames
<1>4. CASE ~Valid(reply)
  <2>1. Reject
    BY <1>1, <1>4
  <2>2. invocations' \in Seq(Invocation)
    BY <2>1, <1>2, RecordType DEF Reject
  <2>3. attempt' \in 0 .. 1
    BY <2>1 DEF Reject, TypeOK
  <2> QED
    BY <2>1, <2>2, <2>3, <1>2 DEF Reject, TypeOK, End, RoleNames
<1> QED
  BY <1>3, <1>4

-----------------------------------------------------------------------------
(* The conversation about one alert. *)

\* A recorded call extends the trace: its role is the current one, and its
\* attempt is later than those recorded for that role.
LEMMA RecordTrace ==
    ASSUME TypeOK, TraceInv, step \in RoleNames, WithinBudget,
           calls' = calls + 1, NEW s \in {"accepted", "invalid"}, Record(s),
           \/ s = "accepted" /\ step' = NextStep(step) /\ attempt' = 0
           \/ s = "invalid" /\ step' = step /\ attempt' = attempt + 1
              /\ attempt < Repairs
    PROVE  TraceInv'
<1> USE TriageAssumption
<1> DEFINE last == Len(invocations) + 1
<1>0. /\ attempt \in 0 .. 1 /\ calls \in Nat /\ MaxCalls \in 3 .. 6
      /\ Repairs \in 0 .. 1
  BY DEF TypeOK
<1>rec. /\ DOMAIN invocations' = DOMAIN invocations \cup {last}
      /\ Len(invocations') = last
      /\ invocations'[last] = [role |-> step, attempt |-> attempt, status |-> s]
      /\ \A n \in DOMAIN invocations : invocations'[n] = invocations[n]
  BY RecordType
<1>1. /\ DOMAIN invocations' = DOMAIN invocations \cup {last}
      /\ Len(invocations') = last
      /\ invocations'[last] = [role |-> step, attempt |-> attempt, status |-> s]
      /\ \A n \in DOMAIN invocations : invocations'[n] = invocations[n]
      /\ DOMAIN invocations = 1 .. Len(invocations) /\ Len(invocations) \in Nat
      /\ \A n \in DOMAIN invocations :
           invocations[n] \in [role : RoleNames, attempt : 0 .. 1,
                               status : {"accepted", "invalid"}]
  <2>1. /\ DOMAIN invocations = 1 .. Len(invocations) /\ Len(invocations) \in Nat
        /\ \A n \in DOMAIN invocations : invocations[n] \in Invocation
    BY DEF TypeOK
  <2> QED
    BY <1>rec, <2>1 DEF Invocation
<1>2. Rank(step') > Rank(step) \/ step' = step
  BY DEF Rank, NextStep, RoleNames
<1>3. \A r \in RoleNames : Rank(r) < Rank(step') /\ ~(Rank(r) < Rank(step)) =>
         r = step /\ s = "accepted"
  BY DEF Rank, NextStep, RoleNames
<1>4. \A r \in RoleNames : Rank(r) \in 1 .. 4 /\ Rank(step) \in 1 .. 4
                           /\ Rank(step') \in 1 .. 4
  BY DEF Rank
<1>5. \A r \in RoleNames : Rank(r) = Rank(step) => r = step
  BY DEF Rank, RoleNames
<1>6. \A n \in DOMAIN invocations :
        /\ Rank(invocations[n].role) <= Rank(step)
        /\ invocations[n].role = step =>
             invocations[n].status = "invalid" /\ invocations[n].attempt < attempt
  BY DEF TraceInv
<1>7. calls' = Len(invocations') /\ Len(invocations') <= MaxCalls
      /\ attempt' <= Repairs
  BY <1>0, <1>1 DEF TraceInv, WithinBudget
<1>8. \A m, n \in DOMAIN invocations' : m < n =>
         \/ Rank(invocations'[m].role) < Rank(invocations'[n].role)
         \/ /\ invocations'[m].role = invocations'[n].role
            /\ invocations'[m].attempt < invocations'[n].attempt
  <2> SUFFICES ASSUME NEW m \in DOMAIN invocations', NEW n \in DOMAIN invocations',
                      m < n
               PROVE  \/ Rank(invocations'[m].role) < Rank(invocations'[n].role)
                      \/ /\ invocations'[m].role = invocations'[n].role
                         /\ invocations'[m].attempt < invocations'[n].attempt
    OBVIOUS
  <2>1. m \in DOMAIN invocations
    BY <1>1
  <2>2. CASE n \in DOMAIN invocations
    BY <2>1, <2>2, <1>1 DEF TraceInv
  <2>3. CASE n = last
    BY <2>1, <2>3, <1>1, <1>4, <1>5, <1>6
  <2> QED
    BY <2>2, <2>3, <1>1
<1>9. \A n \in DOMAIN invocations' :
        /\ Rank(invocations'[n].role) <= Rank(step')
        /\ invocations'[n].role = step' =>
             invocations'[n].status = "invalid" /\ invocations'[n].attempt < attempt'
  <2> SUFFICES ASSUME NEW n \in DOMAIN invocations'
               PROVE  /\ Rank(invocations'[n].role) <= Rank(step')
                      /\ invocations'[n].role = step' =>
                           /\ invocations'[n].status = "invalid"
                           /\ invocations'[n].attempt < attempt'
    OBVIOUS
  <2>1. CASE n \in DOMAIN invocations
    <3>1. invocations'[n] = invocations[n] /\ invocations[n].role \in RoleNames
          /\ invocations[n].attempt \in 0 .. 1
      BY <2>1, <1>1
    <3>2. CASE step' = step
      <4>1. attempt' >= attempt \/ s = "accepted"
        BY <1>0
      <4>2. s = "invalid"
        BY <3>2 DEF NextStep, RoleNames
      <4> QED
        BY <2>1, <3>1, <3>2, <4>1, <4>2, <1>0, <1>6
    <3>3. CASE Rank(step') > Rank(step)
      BY <2>1, <3>1, <3>3, <1>4, <1>6
    <3> QED
      BY <3>2, <3>3, <1>2
  <2>2. CASE n = last
    <3>1. CASE s = "accepted"
      BY <2>2, <3>1, <1>1, <1>2, <1>4 DEF NextStep, RoleNames
    <3>2. CASE s = "invalid"
      BY <2>2, <3>2, <1>0, <1>1, <1>4
    <3> QED
      BY <3>1, <3>2
  <2> QED
    BY <2>1, <2>2, <1>1
<1>10. \A r \in RoleNames : Rank(r) < Rank(step') =>
         \E n \in DOMAIN invocations' :
             invocations'[n].role = r /\ invocations'[n].status = "accepted"
  BY <1>1, <1>3 DEF TraceInv
<1>11. \A m, n \in DOMAIN invocations' :
         /\ invocations'[m].role = invocations'[n].role
         /\ invocations'[m].status = "accepted"
         /\ invocations'[n].status = "accepted"
         => m = n
  BY <1>1, <1>6 DEF TraceInv
<1> QED
  BY <1>7, <1>8, <1>9, <1>10, <1>11 DEF TraceInv

\* An accepted answer went through the validator of its role, and the answers
\* it refers to do not change afterwards.
LEMMA AcceptAnswers ==
    ASSUME TypeOK, AnswersInv, step \in RoleNames, UNCHANGED alert,
           NEW reply \in Replies(FamilyHere, step), Valid(reply), Accept(reply)
    PROVE  AnswersInv'
<1>1. /\ Own' = Own /\ FamilyHere' = FamilyHere /\ Target' = Target
  BY DEF Own, Target, FamilyHere
<1>2. /\ said'[step] = reply
      /\ \A r \in RoleNames : r # step => said'[r] = said[r]
  BY DEF Accept, TypeOK
<1>3. CASE step = "analyst"
  <2>1. step' = "rebuttal" /\ ValidAnalyst(reply)
    BY <1>3 DEF Accept, NextStep, Valid
  <2> QED
    BY <2>1, <1>1, <1>2, <1>3 DEF AnswersInv, Rank, ValidAnalyst, ValidDrafts,
       ValidShape
<1>4. CASE step = "rebuttal"
  <2>1. step' = "judge" /\ ValidRebuttal(reply)
    BY <1>4 DEF Accept, NextStep, Valid
  <2>2. said'["analyst"] = said["analyst"]
    BY <1>2, <1>4 DEF RoleNames
  <2>3. AnalystClaims' = AnalystClaims
    BY <2>2 DEF AnalystClaims
  <2> QED
    BY <2>1, <2>2, <2>3, <1>1, <1>2, <1>4 DEF AnswersInv, Rank, ValidAnalyst,
       ValidRebuttal, ValidDrafts, ValidShape
<1>5. CASE step = "judge"
  <2>1. step' = "policy" /\ ValidJudge(reply)
    BY <1>5 DEF Accept, NextStep, Valid
  <2>2. said'["analyst"] = said["analyst"] /\ said'["rebuttal"] = said["rebuttal"]
    BY <1>2, <1>5 DEF RoleNames
  <2>3. AnalystClaims' = AnalystClaims /\ RebuttalClaims' = RebuttalClaims
    BY <2>2 DEF AnalystClaims, RebuttalClaims
  <2> QED
    BY <2>1, <2>2, <2>3, <1>1, <1>2, <1>5 DEF AnswersInv, Rank, ValidAnalyst,
       ValidRebuttal, ValidJudge, ValidDrafts, ValidShape
<1> QED
  BY <1>3, <1>4, <1>5 DEF RoleNames

-----------------------------------------------------------------------------
(* The decision about one alert. *)

\* A materialized claim cites what its draft cites and carries its author.
LEMMA MaterializedClaim ==
    ASSUME NEW drafts, NEW author, NEW c \in Materialize(drafts, author)
    PROVE  c.by = author /\ \E i \in DOMAIN drafts : c.evidence = drafts[i].evidence
  BY DEF Materialize

\* Claims of the two authors never share an ID.
LEMMA ClaimsDistinct ==
    AnalystClaims \cap RebuttalClaims = {}
<1> SUFFICES ASSUME NEW c \in AnalystClaims, c \in RebuttalClaims
             PROVE  FALSE
  OBVIOUS
<1>1. c.by = "analyst"
  BY MaterializedClaim DEF AnalystClaims
<1>2. c.by = "rebuttal"
  BY MaterializedClaim DEF RebuttalClaims
<1> QED
  BY <1>1, <1>2

\* The references of three accepted answers stay inside the occurrence.
LEMMA AcceptedResolve ==
    ASSUME AnswersInv, step = "policy"
    PROVE  ReferencesResolve(Registry, Target, AnalystClaims \cup RebuttalClaims,
                             said["judge"])
<1>1. /\ Own # {} /\ ValidAnalyst(said["analyst"]) /\ ValidRebuttal(said["rebuttal"])
      /\ ValidJudge(said["judge"])
  BY DEF AnswersInv, Rank
<1>2. \A c \in AnalystClaims : c.evidence \subseteq Own
  BY <1>1, MaterializedClaim DEF AnalystClaims, ValidAnalyst, ValidDrafts
<1>3. \A c \in RebuttalClaims : c.evidence \subseteq Own
  BY <1>1, MaterializedClaim DEF RebuttalClaims, ValidRebuttal, ValidDrafts
<1>4. /\ said["judge"].claims \subseteq AnalystClaims \cup RebuttalClaims
      /\ said["judge"].evidence \subseteq Own
  BY <1>1 DEF ValidJudge
<1>5. \A c \in said["judge"].claims : c.evidence \subseteq Own
  BY <1>2, <1>3, <1>4
<1>6. Considered(said["judge"]) \subseteq Own
  BY <1>4, <1>5 DEF Considered
<1> QED
  BY <1>1, <1>4, <1>6 DEF ReferencesResolve, Own

\* Three accepted answers are never rejected by either policy.
LEMMA AcceptedNotRejected ==
    ASSUME AnswersInv, step = "policy"
    PROVE  PolicyVerdict # Rejection /\ PolicyVerdict.label \in Labels
<1> DEFINE resolved == ReferencesResolve(Registry, Target,
                           AnalystClaims \cup RebuttalClaims, said["judge"])
<1>1. resolved
  BY AcceptedResolve
<1> HIDE DEF resolved
<1> DEFINE legacy == Apply(Registry, Target, said["analyst"], AnalystClaims,
                           said["rebuttal"], RebuttalClaims, said["judge"])
           resource == ApplyResource(Registry, Target, said["analyst"],
                           AnalystClaims, said["rebuttal"], RebuttalClaims,
                           said["judge"])
<1>2. legacy.label \in Labels
  BY <1>1 DEF resolved, Apply, Downgrade, Accepted, FalsePositiveGate,
     TruePositiveGate, Labels
<1>3. resource.label \in Labels
  BY <1>1 DEF resolved, ApplyResource, Downgrade, Accepted,
     ResourceTruePositiveGate, ResourceFalsePositiveGate, Labels
<1>4. PolicyVerdict \in {legacy, resource}
  BY DEF PolicyVerdict
<1>5. PolicyVerdict.label \in Labels
  BY <1>2, <1>3, <1>4
<1>6. Rejection.label \notin Labels
  BY DEF Rejection, Labels
<1> QED
  BY <1>5, <1>6

\* The record of a finished conversation passes the validators of the result
\* and of the stage records built from it.
LEMMA FinishedTrace ==
    ASSUME TypeOK, TraceInv, AnswersInv, step = "policy"
    PROVE  /\ ValidResult(invocations)
           /\ \A r \in {"analyst", "rebuttal"} : ValidStage(invocations, r)
<1> DEFINE accepted(n) == invocations[n].status = "accepted"
<1>1. /\ DOMAIN invocations = 1 .. Len(invocations) /\ Len(invocations) \in Nat
      /\ \A n \in DOMAIN invocations :
           invocations[n].role \in RoleNames /\ invocations[n].attempt \in 0 .. 1
  <2>1. /\ DOMAIN invocations = 1 .. Len(invocations) /\ Len(invocations) \in Nat
        /\ \A n \in DOMAIN invocations : invocations[n] \in Invocation
    BY DEF TypeOK
  <2> QED
    BY <2>1 DEF Invocation
<1>2. PICK i \in DOMAIN invocations : invocations[i].role = "analyst" /\ accepted(i)
  BY DEF TraceInv, Rank, RoleNames
<1>3. PICK j \in DOMAIN invocations : invocations[j].role = "rebuttal" /\ accepted(j)
  BY DEF TraceInv, Rank, RoleNames
<1>4. PICK k \in DOMAIN invocations : invocations[k].role = "judge" /\ accepted(k)
  BY DEF TraceInv, Rank, RoleNames
<1>5. \A m, n \in DOMAIN invocations : m < n =>
         \/ Rank(invocations[m].role) < Rank(invocations[n].role)
         \/ /\ invocations[m].role = invocations[n].role
            /\ invocations[m].attempt < invocations[n].attempt
  BY DEF TraceInv
<1>6. \A n \in DOMAIN invocations : accepted(n) <=> n \in {i, j, k}
  BY <1>1, <1>2, <1>3, <1>4 DEF TraceInv, RoleNames
<1>7. i < j /\ j < k
  <2>1. ~(j < i) /\ ~(k < j)
    BY <1>2, <1>3, <1>4, <1>5 DEF Rank
  <2>2. i # j /\ j # k
    BY <1>2, <1>3, <1>4
  <2> QED
    BY <2>1, <2>2, <1>1
<1>8. Len(invocations) \in 3 .. 6
  <2>1. ASSUME NEW l \in Nat, l <= MaxCalls, l >= 3
        PROVE  l \in 3 .. 6
    BY <2>1, TriageAssumption
  <2>2. Len(invocations) <= MaxCalls
    BY DEF TraceInv
  <2>3. Len(invocations) >= 3
    BY <1>1, <1>7
  <2>4. Len(invocations) \in Nat
    BY <1>1
  <2> QED
    BY <2>1, <2>2, <2>3, <2>4
<1>9. ValidTrace(invocations)
  BY <1>2, <1>3, <1>4, <1>6, <1>7, <1>8 DEF ValidTrace
<1>10. IsInjective(said["analyst"].drafts) /\ IsInjective(said["rebuttal"].drafts)
  BY DEF AnswersInv, Rank, ValidAnalyst, ValidRebuttal, ValidDrafts
<1>11. \A r \in {"analyst", "rebuttal"} : ValidStage(invocations, r)
  <2> SUFFICES ASSUME NEW r \in {"analyst", "rebuttal"}
               PROVE  ValidStage(invocations, r)
    OBVIOUS
  <2> DEFINE own == {n \in DOMAIN invocations : invocations[n].role = r}
  <2>1. \E n \in own : accepted(n)
    BY <1>2, <1>3
  <2>2. \A m, n \in own : accepted(m) /\ accepted(n) => m = n
    BY DEF TraceInv
  <2>3. \A m, n \in own : m < n => invocations[m].attempt < invocations[n].attempt
    BY <1>5 DEF Rank
  <2>4. \A m \in own : m \in Nat /\ invocations[m].attempt \in 0 .. 1
    BY <1>1
  <2>5. \A l, m, n \in own : l = m \/ l = n \/ m = n
    BY <2>3, <2>4
  <2> QED
    BY <2>1, <2>2, <2>5 DEF ValidStage
<1> QED
  BY <1>9, <1>10, <1>11, ClaimsDistinct DEF ValidResult

-----------------------------------------------------------------------------
(* The invariant. *)

\* A role's accepted answer becomes typed claims.
LEMMA ClaimsType ==
    ASSUME NEW f \in Families, NEW r \in {"analyst", "rebuttal"},
           NEW reply \in Replies(f, r)
    PROVE  Materialize(reply.drafts, r) \subseteq Claim
<1>1. reply.drafts \in Seq(Draft)
  BY TriageAssumption DEF ConformsTo, RoleNames
<1>2. \A i \in DOMAIN reply.drafts : reply.drafts[i] \in Draft
  BY <1>1
<1> QED
  BY <1>2 DEF Materialize, Claim, Draft, RoleNames

\* The result of a decision, as Decide builds it, is a typed record.
LEMMA NewResult ==
    ASSUME TypeOK, TraceInv, AnswersInv, step = "policy"
    PROVE  [target |-> Target, family |-> FamilyHere,
            analyst |-> said["analyst"], rebuttal |-> said["rebuttal"],
            judge |-> said["judge"], analystClaims |-> AnalystClaims,
            rebuttalClaims |-> RebuttalClaims,
            decision |-> PolicyVerdict, trace |-> invocations] \in Result
<1>1. Target \in Targets
  <2> DEFINE A == [target : Targets, rule : STRING]
  <2>1. Alerts \in Seq(A)
    BY TriageAssumption DEF Targets
  <2> HIDE DEF A
  <2>2. alert \in 1 .. Len(Alerts)
    BY <2>1 DEF TypeOK
  <2>3. Alerts[alert] \in A
    BY <2>1, <2>2
  <2> QED
    BY <2>3 DEF Target, A
<1>2. FamilyHere \in Families
  BY FamilyType DEF FamilyHere
<1>3. \A r \in RoleNames : said[r] \in Answers
  BY DEF TypeOK
<1>4. AnalystClaims \subseteq Claim /\ RebuttalClaims \subseteq Claim
  BY <1>2, ClaimsType DEF AnswersInv, Rank, AnalystClaims, RebuttalClaims
<1>5. PolicyVerdict \in [label : Labels, flags : SUBSET PolicyFlags]
  <2>1. \A flag \in PolicyFlags : Downgrade(flag) \in [label : Labels, flags : SUBSET PolicyFlags]
    BY DEF Downgrade, Labels, PolicyFlags
  <2>2. \A l \in Labels, flags \in SUBSET PolicyFlags :
           Accepted(l, flags) \in [label : Labels, flags : SUBSET PolicyFlags]
    BY DEF Accepted, PolicyFlags
  <2>3. PolicyVerdict # Rejection
    BY AcceptedNotRejected
  <2>4. CASE FamilyHere = "legacy"
    BY <2>1, <2>2, <2>3, <2>4 DEF PolicyVerdict, Apply, FalsePositiveGate,
       TruePositiveGate, Labels, PolicyFlags
  <2>5. CASE FamilyHere # "legacy"
    BY <2>1, <2>2, <2>3, <2>5 DEF PolicyVerdict, ApplyResource,
       ResourceFalsePositiveGate, ResourceTruePositiveGate, Labels, PolicyFlags
  <2> QED
    BY <2>4, <2>5
<1>6. invocations \in Seq(Invocation)
  BY DEF TypeOK
<1> QED
  BY <1>1, <1>2, <1>3, <1>4, <1>5, <1>6 DEF Result, RoleNames

\* The result of a decision has the basis its label documents.
LEMMA NewResultGrounded ==
    ASSUME TypeOK, TraceInv, AnswersInv, step = "policy", NEW r,
           r.target = Target, r.family = FamilyHere,
           r.analyst = said["analyst"], r.rebuttal = said["rebuttal"],
           r.judge = said["judge"], r.analystClaims = AnalystClaims,
           r.rebuttalClaims = RebuttalClaims, r.decision = PolicyVerdict
    PROVE  Certain(r) /\ FalsePositiveBasis(r) /\ TruePositiveBasis(r)
<1> DEFINE judge == said["judge"]
<1>1. judge.label \in Labels
  <2>1. judge \in Replies(FamilyHere, "judge") /\ FamilyHere \in Families
    BY FamilyType DEF AnswersInv, Rank, FamilyHere
  <2> QED
    BY <2>1, TriageAssumption DEF ConformsTo, RoleNames
<1>2. Considered(judge) \subseteq Own
  BY AcceptedResolve DEF ReferencesResolve, Own
<1>3. \A c \in judge.claims : c.evidence \subseteq Own
  BY <1>2 DEF Considered
<1>4. \A e \in Own : e \in DOMAIN Registry /\ Registry[e].target = r.target
  BY DEF Own, TargetEvidence
<1>5. CASE FamilyHere = "legacy"
  <2>1. PolicyVerdict = Apply(Registry, Target, said["analyst"], AnalystClaims,
                              said["rebuttal"], RebuttalClaims, judge)
    BY <1>5 DEF PolicyVerdict
  <2>2. PolicyVerdict.label \in {"TP", "FP"} =>
           /\ PolicyVerdict.label = judge.label
           /\ ~Doubt(said["analyst"], said["rebuttal"], judge)
           /\ Considered(judge) # {}
           /\ PolicyVerdict.label = "FP" =>
                HasDecisiveRebuttal(Registry, judge.claims, RebuttalClaims)
           /\ PolicyVerdict.label = "TP" =>
                /\ ~HasHighPolarity(Registry, Considered(judge), "supports_fp")
                /\ HasSupportedTPCase(Registry, judge.claims, AnalystClaims)
    BY <2>1, <1>1, LegacyBasis
  <2>3. Certain(r)
    BY <2>2, <1>2 DEF Certain, Own
  <2>4. FalsePositiveBasis(r)
    BY <2>2, <1>3, <1>4, <1>5 DEF FalsePositiveBasis, HasDecisiveRebuttal
  <2>5. HasSupportedTPCase(Registry, judge.claims, AnalystClaims) =>
           \E c \in AnalystClaims \cap judge.claims : \E e \in c.evidence :
              /\ c.status = "supported"
              /\ Supports(Registry[e], "supports_tp", MediumOrStronger)
    BY DEF HasSupportedTPCase, Established, Supports, MediumOrStronger
  <2>6. TruePositiveBasis(r)
    BY <2>2, <2>5, <1>3, <1>4, <1>5 DEF TruePositiveBasis
  <2> QED
    BY <2>3, <2>4, <2>6
<1>6. CASE FamilyHere # "legacy"
  <2>1. PolicyVerdict = ApplyResource(Registry, Target, said["analyst"],
                            AnalystClaims, said["rebuttal"], RebuttalClaims, judge)
    BY <1>6 DEF PolicyVerdict
  <2>2. PolicyVerdict.label \in {"TP", "FP"} =>
           /\ PolicyVerdict.label = judge.label
           /\ ~Doubt(said["analyst"], said["rebuttal"], judge)
           /\ PolicyVerdict.label = "FP" =>
                /\ Answered(said["rebuttal"], ReleaseQuestions, "confirmed")
                /\ HasClaimKind(judge.claims, FPClaims, {"supported", "rebutted"})
           /\ PolicyVerdict.label = "TP" =>
                /\ said["analyst"].acquisition = "yes"
                /\ said["analyst"].exit = "confirmed"
                /\ ~Answered(said["rebuttal"], ReleaseQuestions, "confirmed")
                /\ HasClaimKinds(judge.claims, TPClaims, "supported")
    BY <2>1, <1>1, ResourceBasis
  <2>3. PolicyVerdict.label \in {"TP", "FP"} =>
           \E c \in judge.claims : c.evidence # {}
    BY <2>2 DEF HasClaimKind, HasClaimKinds, TPClaims
  <2>4. (\E c \in judge.claims : c.evidence # {}) => Considered(judge) # {}
    BY DEF Considered
  <2>5. Certain(r)
    BY <2>2, <2>3, <2>4, <1>2 DEF Certain, Own
  <2>6. FalsePositiveBasis(r) /\ TruePositiveBasis(r)
    BY <2>2, <1>6 DEF FalsePositiveBasis, TruePositiveBasis
  <2> QED
    BY <2>5, <2>6
<1> QED
  BY <1>5, <1>6

\* The result of a decision is a closed row of the report.
LEMMA NewRow ==
    ASSUME AnswersInv, step = "policy", NEW r,
           r.target = Target, r.analyst = said["analyst"],
           r.rebuttal = said["rebuttal"], r.judge = said["judge"],
           r.analystClaims = AnalystClaims, r.rebuttalClaims = RebuttalClaims
    PROVE  ValidRow(r)
<1>1. /\ ValidAnalyst(said["analyst"]) /\ ValidRebuttal(said["rebuttal"])
      /\ ValidJudge(said["judge"])
  BY DEF AnswersInv, Rank
<1>2. \A c \in AnalystClaims : c.evidence \subseteq Own
  BY <1>1 DEF AnalystClaims, Materialize, ValidAnalyst, ValidDrafts
<1>3. \A c \in RebuttalClaims : c.evidence \subseteq Own
  BY <1>1 DEF RebuttalClaims, Materialize, ValidRebuttal, ValidDrafts
<1>4. /\ r.analystClaims = Materialize(r.analyst.drafts, "analyst")
      /\ r.rebuttalClaims = Materialize(r.rebuttal.drafts, "rebuttal")
  BY DEF AnalystClaims, RebuttalClaims
<1>5. said["rebuttal"].rebutted \subseteq AnalystClaims
  BY <1>1 DEF ValidRebuttal
<1>6. /\ said["judge"].evidence \subseteq Own
      /\ said["judge"].claims \subseteq AnalystClaims \cup RebuttalClaims
  BY <1>1 DEF ValidJudge
<1> QED
  BY <1>2, <1>3, <1>4, <1>5, <1>6 DEF ValidRow, Own

\* A decision either ends nothing and adds one grounded result, or cannot be.
LEMMA DecideStep ==
    ASSUME TypeOK, TriageInv, Decide
    PROVE  TypeOK' /\ TriageInv'
<1> DEFINE r == [target |-> Target, family |-> FamilyHere,
                 analyst |-> said["analyst"], rebuttal |-> said["rebuttal"],
                 judge |-> said["judge"], analystClaims |-> AnalystClaims,
                 rebuttalClaims |-> RebuttalClaims,
                 decision |-> PolicyVerdict, trace |-> invocations]
<1>1. step = "policy" /\ TraceInv /\ AnswersInv
  BY DEF Decide, TriageInv
<1>2. PolicyVerdict # Rejection /\ ValidResult(invocations)
  BY <1>1, AcceptedNotRejected, FinishedTrace
<1>3. /\ results' = Append(results, r) /\ alert' = alert + 1 /\ step' = "select"
      /\ outcome' = outcome
      /\ UNCHANGED <<attempt, invocations, said, calls>>
  BY <1>2 DEF Decide
<1>4. /\ r \in Result /\ r.target = Target /\ r.family = FamilyHere
      /\ r.trace = invocations
  BY <1>1, NewResult
<1>5. Certain(r) /\ FalsePositiveBasis(r) /\ TruePositiveBasis(r)
  BY <1>1, NewResultGrounded
<1>6. \A s \in {"analyst", "rebuttal"} : ValidStage(r.trace, s)
  BY <1>1, <1>4, FinishedTrace
<1>7. /\ results' \in Seq(Result) /\ Len(results') = Len(results) + 1
      /\ results'[Len(results) + 1] = r
      /\ \A i \in DOMAIN results : results'[i] = results[i]
      /\ DOMAIN results' = DOMAIN results \cup {Len(results) + 1}
  <2> HIDE DEF r
  <2>1. results \in Seq(Result)
    BY DEF TypeOK
  <2> QED
    BY <1>3, <1>4, <2>1
<1>8. alert = Len(results) + 1 /\ alert <= Len(Alerts)
  BY <1>1 DEF TypeOK
<1>9. TypeOK'
  BY <1>1, <1>3, <1>7, <1>8 DEF TypeOK, RoleNames
<1> HIDE DEF r
<1>10. StagesInv'
  BY <1>6, <1>7 DEF TriageInv, StagesInv
<1>11. VerdictsAreGrounded'
  BY <1>4, <1>5, <1>7, <1>8
     DEF TriageInv, VerdictsAreGrounded, Target, FamilyHere
<1>12. RowsInv'
  <2>1. ValidRow(r)
    <3> USE DEF r
    <3> QED
      BY <1>1, NewRow
  <2>2. \A i \in DOMAIN results : ValidRow(results[i])
    BY DEF TriageInv, RowsInv
  <2> QED
    BY <2>1, <2>2, <1>7 DEF RowsInv, ValidRow
<1> QED
  BY <1>3, <1>9, <1>10, <1>11, <1>12 DEF TriageInv, RoleNames

\* An answered call keeps the conversation in order and changes no result.
LEMMA CallStep ==
    ASSUME TypeOK, TriageInv, Call
    PROVE  TriageInv'
<1>1. PICK reply \in Replies(FamilyHere, step) \cup {Malformed} :
         IF Valid(reply) THEN Accept(reply) ELSE Reject
  BY DEF Call
<1>2. /\ step \in RoleNames /\ WithinBudget /\ calls' = calls + 1
      /\ UNCHANGED <<alert, results>> /\ TraceInv /\ AnswersInv
  BY DEF Call, TriageInv
<1>3. StagesInv' /\ RowsInv' /\ VerdictsAreGrounded'
  BY <1>2 DEF TriageInv, StagesInv, RowsInv, ValidRow, VerdictsAreGrounded
<1>4. CASE Valid(reply)
  <2>1. Accept(reply) /\ reply \in Replies(FamilyHere, step)
    BY <1>1, <1>4 DEF Valid
  <2>2. TraceInv'
    BY <2>1, <1>2, RecordTrace DEF Accept
  <2>3. AnswersInv'
    BY <2>1, <1>2, <1>4, AcceptAnswers
  <2> QED
    BY <2>2, <2>3, <1>3 DEF TriageInv
<1>5. CASE ~Valid(reply)
  <2>1. Reject
    BY <1>1, <1>5
  <2>2. CASE attempt < Repairs
    <3>1. Record("invalid") /\ step' = step /\ attempt' = attempt + 1 /\ said' = said
      BY <2>1, <2>2 DEF Reject
    <3>2. TraceInv'
      BY <3>1, <2>2, <1>2, RecordTrace
    <3>3. AnswersInv'
      BY <3>1, <1>2 DEF AnswersInv, Own, Target, FamilyHere, ValidAnalyst,
         ValidRebuttal, ValidJudge, ValidDrafts, ValidShape, AnalystClaims,
         RebuttalClaims
    <3> QED
      BY <3>2, <3>3, <1>3 DEF TriageInv
  <2>3. CASE ~(attempt < Repairs)
    BY <2>1, <2>3, <1>3 DEF Reject, End, TriageInv, RoleNames
  <2> QED
    BY <2>2, <2>3
<1> QED
  BY <1>4, <1>5

\* Starting on an alert empties the conversation.
LEMMA SelectStep ==
    ASSUME TypeOK, TriageInv, Select
    PROVE  TriageInv'
<1>1. StagesInv' /\ RowsInv' /\ VerdictsAreGrounded'
  BY DEF Select, TriageInv, StagesInv, RowsInv, ValidRow, VerdictsAreGrounded
<1>2. CASE Own = {}
  BY <1>1, <1>2 DEF Select, End, TriageInv, RoleNames
<1>3. CASE Own # {}
  <2>1. /\ step' = "analyst" /\ invocations' = <<>> /\ calls' = 0 /\ attempt' = 0
        /\ Own' # {}
    BY <1>3 DEF Select, Own, Target
  <2>2. TraceInv'
    BY <2>1, TriageAssumption DEF TraceInv, Rank, RoleNames
  <2>3. AnswersInv'
    BY <2>1 DEF AnswersInv, Rank
  <2> QED
    BY <2>2, <2>3, <1>1 DEF TriageInv
<1> QED
  BY <1>2, <1>3

\* Results of different alerts are results of different occurrences.
LEMMA ResultsDistinct ==
    ASSUME TypeOK, TriageInv
    PROVE  DistinctTargets(results)
<1>1. DistinctTargets(Alerts)
  BY TriageAssumption
<1>2. Len(results) <= Len(Alerts) /\ DOMAIN results = 1 .. Len(results)
      /\ Len(results) \in Nat
  BY DEF TypeOK
<1>3. DOMAIN Alerts = 1 .. Len(Alerts) /\ Len(Alerts) \in Nat
  BY TriageAssumption
<1>4. \A i \in DOMAIN results : results[i].target = Alerts[i].target
  BY DEF TriageInv, VerdictsAreGrounded
<1> QED
  BY <1>1, <1>2, <1>3, <1>4 DEF DistinctTargets

\* After the last alert every occurrence has its closed row.
LEMMA ReportIsValid ==
    ASSUME TypeOK, TriageInv, step = "report"
    PROVE  ValidReport
<1>1. /\ DOMAIN results = 1 .. Len(results) /\ Len(results) \in Nat
      /\ Len(results) <= Len(Alerts) /\ alert = Len(results) + 1
      /\ alert > Len(Alerts)
  BY DEF TypeOK
<1>2. DOMAIN Alerts = 1 .. Len(Alerts) /\ Len(Alerts) \in Nat
  BY TriageAssumption
<1>3. Len(results) = Len(Alerts)
  <2>1. \A m, n \in Nat : m <= n /\ m + 1 > n => m = n
    OBVIOUS
  <2> QED
    BY <2>1, <1>1, <1>2
<1>4. \A i \in DOMAIN results :
        results[i].target = Alerts[i].target /\ ValidRow(results[i])
  BY DEF TriageInv, RowsInv, VerdictsAreGrounded
<1> QED
  BY <1>1, <1>2, <1>3, <1>4, ResultsDistinct DEF ValidReport

\* The invariant holds initially and is kept by every step.
LEMMA Inductive == Spec => [](TypeOK /\ TriageInv)
<1>1. Init => TypeOK /\ TriageInv
  BY TriageAssumption DEF Init, TypeOK, TriageInv, StagesInv,
     RowsInv, VerdictsAreGrounded, RoleNames, Answers
<1>2. TypeOK /\ TriageInv /\ [Next]_vars => TypeOK' /\ TriageInv'
  <2> SUFFICES ASSUME TypeOK, TriageInv, [Next]_vars
               PROVE  TypeOK' /\ TriageInv'
    OBVIOUS
  <2>1. CASE Select
    <3>1. TypeOK'
      BY <2>1 DEF Select, TypeOK, End, RoleNames, Answers
    <3> QED
      BY <2>1, <3>1, SelectStep
  <2>2. CASE ExceedBudget \/ RefuseRequest \/ CallFails
    <3>1. TypeOK'
      BY <2>2 DEF ExceedBudget, RefuseRequest, CallFails, TypeOK, End, RoleNames
    <3>2. TriageInv'
      BY <2>2 DEF ExceedBudget, RefuseRequest, CallFails, End, TriageInv,
         RoleNames, StagesInv, RowsInv, ValidRow, VerdictsAreGrounded
    <3> QED
      BY <3>1, <3>2
  <2>3. CASE Call
    BY <2>3, CallType, CallStep
  <2>4. CASE Decide
    BY <2>4, DecideStep
  <2>5. CASE Persist \/ Report
    <3>1. TypeOK'
      BY <2>5 DEF Persist, Report, TypeOK, End, RoleNames
    <3>2. TriageInv'
      BY <2>5 DEF Persist, Report, End, TriageInv, RoleNames, StagesInv,
         RowsInv, ValidRow, VerdictsAreGrounded
    <3> QED
      BY <3>1, <3>2
  <2>6. CASE UNCHANGED vars
    <3>1. TypeOK'
      BY <2>6 DEF vars, TypeOK, Answers
    <3>2. TriageInv'
      BY <2>6 DEF vars, TriageInv, StagesInv, RowsInv, ValidRow, VerdictsAreGrounded, TraceInv,
         AnswersInv, Own, Target, FamilyHere, ValidAnalyst, ValidRebuttal,
         ValidJudge, ValidDrafts, ValidShape, AnalystClaims, RebuttalClaims
    <3> QED
      BY <3>1, <3>2
  <2> QED
    BY <2>1, <2>2, <2>3, <2>4, <2>5, <2>6 DEF Next
<1> QED
  BY <1>1, <1>2, PTL DEF Spec

-----------------------------------------------------------------------------
(* What the run may rely on. *)

\* Every variable of the triage keeps its type.
THEOREM TypeCorrect == Spec => []TypeOK
  BY Inductive, PTL

\* No decided alert lacks the basis its label documents, whatever the three
\* roles answered: the policies' gates cannot be talked round.
THEOREM Grounded == Spec => []VerdictsAreGrounded
<1>1. TriageInv => VerdictsAreGrounded
  BY DEF TriageInv
<1> QED
  BY <1>1, Inductive, PTL

\* No alert costs more calls than its budget, counting the call that fails.
THEOREM Budget == Spec => []BudgetHolds
<1>0. TypeOK => Len(invocations) \in Nat /\ calls \in Nat
  BY DEF TypeOK
<1>a. MaxCalls \in Nat
  BY TriageAssumption
<1>b. ASSUME NEW t, t = <<>>
      PROVE  0 <= MaxCalls /\ 0 - Len(t) \in 0 .. 1
  <2>1. Len(t) = 0
    BY <1>b
  <2> QED
    BY <1>a, <2>1
<1>1. Init => BudgetHolds
  BY <1>b DEF Init, BudgetHolds
<1>2. TypeOK /\ TriageInv /\ BudgetHolds /\ [Next]_vars => BudgetHolds'
  <2> SUFFICES ASSUME TypeOK, TriageInv, BudgetHolds, [Next]_vars
               PROVE  BudgetHolds'
    OBVIOUS
  <2>0. Len(invocations) \in Nat /\ calls \in Nat /\ MaxCalls \in Nat
    BY <1>0, <1>a
  <2>1. CASE Select
    <3>1. invocations' = <<>> /\ calls' = 0
      BY <2>1 DEF Select
    <3> QED
      BY <1>b, <3>1 DEF BudgetHolds
  <2>2. CASE CallFails
    <3>1. calls = Len(invocations) /\ Len(invocations) < MaxCalls
      BY <2>2 DEF CallFails, WithinBudget, TriageInv, TraceInv
    <3> QED
      BY <2>0, <2>2, <3>1 DEF CallFails, BudgetHolds
  <2>3. CASE Call
    <3>1. calls = Len(invocations) /\ Len(invocations) < MaxCalls
          /\ calls' = calls + 1 /\ step \in RoleNames
      BY <2>3 DEF Call, WithinBudget, TriageInv, TraceInv
    <3>2. Record("accepted") \/ Record("invalid")
      BY <2>3 DEF Call, Accept, Reject
    <3>3. Len(invocations') = Len(invocations) + 1
      BY <3>1, <3>2, RecordType
    <3> QED
      BY <2>0, <3>1, <3>3 DEF BudgetHolds
  <2>4. CASE ExceedBudget \/ RefuseRequest \/ Decide \/ Persist \/ Report
              \/ UNCHANGED vars
    BY <2>4 DEF ExceedBudget, RefuseRequest, Decide, Persist, Report, vars, BudgetHolds
  <2> QED
    BY <2>1, <2>2, <2>3, <2>4 DEF Next
<1> QED
  BY <1>1, <1>2, Inductive, PTL DEF Spec

\* The accepted conversation always passes the validators of the result, of
\* the stage records and of the report: no error escapes after the calls were made.
THEOREM NoCrash == Spec => []NeverCrashes
<1>1. Init => NeverCrashes
  BY DEF Init, NeverCrashes
<1>2. TypeOK /\ TriageInv /\ NeverCrashes /\ [Next]_vars => NeverCrashes'
  <2> SUFFICES ASSUME TypeOK, TriageInv, NeverCrashes, [Next]_vars
               PROVE  NeverCrashes'
    OBVIOUS
  <2>1. CASE Decide
    <3>1. step = "policy" /\ TraceInv /\ AnswersInv
      BY <2>1 DEF Decide, TriageInv
    <3>2. ValidResult(invocations)
      BY <3>1, FinishedTrace
    <3> QED
      BY <2>1, <3>2 DEF Decide, End, NeverCrashes
  <2>2. CASE Persist
    BY <2>2, ResultsDistinct DEF Persist, End, TriageInv, StagesInv, NeverCrashes
  <2>3. CASE Select \/ ExceedBudget \/ RefuseRequest \/ CallFails
    BY <2>3 DEF Select, ExceedBudget, RefuseRequest, CallFails, End, NeverCrashes
  <2>4. CASE Call
    BY <2>4 DEF Call, Accept, Reject, End, NeverCrashes
  <2>5. CASE UNCHANGED vars
    BY <2>5 DEF vars, NeverCrashes
  <2>6. CASE Report
    BY <2>6, ReportIsValid DEF Report, End, NeverCrashes
  <2> QED
    BY <2>1, <2>2, <2>3, <2>4, <2>5, <2>6 DEF Next
<1> QED
  BY <1>1, <1>2, Inductive, PTL DEF Spec

\* A policy never rejects what the workflow accepted: a run that ends with a
\* policy rejection met an alert without evidence.
THEOREM RejectionsExplained == Spec => []RejectionMeansNoEvidence
<1>1. Init => RejectionMeansNoEvidence
  BY DEF Init, RejectionMeansNoEvidence
<1>2. TypeOK /\ TriageInv /\ RejectionMeansNoEvidence /\ [Next]_vars
        => RejectionMeansNoEvidence'
  <2> SUFFICES ASSUME TypeOK, TriageInv, RejectionMeansNoEvidence, [Next]_vars
               PROVE  RejectionMeansNoEvidence'
    OBVIOUS
  <2>0. step # "none" => outcome = "running"
    BY DEF TypeOK
  <2>1. CASE Select
    BY <2>0, <2>1 DEF Select, End, RejectionMeansNoEvidence, Own, Target
  <2>2. CASE Decide
    <3>1. step = "policy" /\ TraceInv /\ AnswersInv
      BY <2>2 DEF Decide, TriageInv
    <3>2. PolicyVerdict # Rejection
      BY <3>1, AcceptedNotRejected
    <3> QED
      BY <2>0, <2>2, <3>1, <3>2 DEF Decide, End, RejectionMeansNoEvidence
  <2>3. CASE ExceedBudget \/ RefuseRequest \/ CallFails \/ Report
    BY <2>3 DEF ExceedBudget, RefuseRequest, CallFails, Report, End,
       RejectionMeansNoEvidence
  <2>6. CASE Persist
    BY <2>0, <2>6 DEF Persist, End, RejectionMeansNoEvidence
  <2>4. CASE Call
    BY <2>0, <2>4 DEF Call, Accept, Reject, End, RoleNames,
       RejectionMeansNoEvidence
  <2>5. CASE UNCHANGED vars
    BY <2>5 DEF vars, RejectionMeansNoEvidence, Own, Target
  <2> QED
    BY <2>1, <2>2, <2>3, <2>4, <2>5, <2>6 DEF Next
<1> QED
  BY <1>1, <1>2, Inductive, PTL DEF Spec

\* Whatever is paid for is decided: neither the policy nor the validators of
\* the persisted records refuse an accepted conversation.
THEOREM PaidIsDecided == Spec => []AcceptedIsDecided
  BY NoCrash, RejectionsExplained, PTL DEF AcceptedIsDecided

-----------------------------------------------------------------------------
(* The repairs of a role. *)

\* An invalid answer adds the record of its attempt to those before it.
LEMMA RejectRecords ==
    ASSUME TypeOK, AttemptsInv, step \in RoleNames, Record("invalid")
    PROVE  \A n \in 0 .. 1 : n <= attempt =>
             \E i \in DOMAIN invocations' :
                 /\ invocations'[i].role = step /\ invocations'[i].attempt = n
                 /\ invocations'[i].status = "invalid"
<1> DEFINE last == Len(invocations) + 1
<1>1. /\ DOMAIN invocations' = DOMAIN invocations \cup {last}
      /\ invocations'[last] =
           [role |-> step, attempt |-> attempt, status |-> "invalid"]
      /\ \A n \in DOMAIN invocations : invocations'[n] = invocations[n]
  BY RecordType
<1> HIDE DEF last
<1> TAKE n \in 0 .. 1
<1> HAVE n <= attempt
<1>2. CASE n < attempt
  BY <1>1, <1>2 DEF AttemptsInv
<1>3. CASE n = attempt
  BY <1>1, <1>3
<1> QED
  BY <1>2, <1>3 DEF TypeOK

\* Every repair of the role under way was preceded by the invalid answers that
\* called for it.
LEMMA AttemptsAreRecorded == Spec => []AttemptsInv
<1>1. Init => AttemptsInv
  BY DEF Init, AttemptsInv, RoleNames
<1>2. TypeOK /\ AttemptsInv /\ [Next]_vars => AttemptsInv'
  <2> SUFFICES ASSUME TypeOK, AttemptsInv, [Next]_vars
               PROVE  AttemptsInv'
    OBVIOUS
  <2>1. CASE Call
    <3>1. step \in RoleNames
      BY <2>1 DEF Call
    <3>2. CASE \E reply : Accept(reply)
      BY <3>2 DEF Accept, AttemptsInv
    <3>3. CASE Reject
      <4>1. Record("invalid")
        BY <3>3 DEF Reject
      <4>2. CASE attempt < Repairs
        <5>1. step' = step /\ attempt' = attempt + 1
          BY <3>3, <4>2 DEF Reject
        <5>2. \A n \in 0 .. 1 : n < attempt' => n <= attempt
          BY <5>1 DEF TypeOK
        <5> QED
          BY <3>1, <4>1, <5>1, <5>2, RejectRecords DEF AttemptsInv
      <4>3. CASE ~(attempt < Repairs)
        BY <3>3, <4>3 DEF Reject, End, AttemptsInv, RoleNames
      <4> QED
        BY <4>2, <4>3
    <3> QED
      BY <2>1, <3>2, <3>3 DEF Call
  <2>2. CASE Select
    BY <2>2 DEF Select, AttemptsInv
  <2>3. CASE ExceedBudget \/ RefuseRequest \/ CallFails \/ Decide \/ Persist
             \/ Report
    BY <2>3 DEF ExceedBudget, RefuseRequest, CallFails, Decide, Persist, Report,
       End, AttemptsInv, RoleNames
  <2>4. CASE UNCHANGED vars
    BY <2>4 DEF vars, AttemptsInv
  <2> QED
    BY <2>1, <2>2, <2>3, <2>4 DEF Next
<1> QED
  BY <1>1, <1>2, Inductive, PTL DEF Spec

\* An invalid answer ends the run only after the role used every repair it is
\* allowed: the first answer and each repair left an invalid record of this role.
THEOREM RepairsAreUsed == Spec => EveryRoleGetsItsRepair
<1>1. TypeOK /\ TriageInv /\ AttemptsInv /\ [Next]_vars =>
        [outcome' = "MODEL_FAILED" /\ invocations' # invocations =>
           \A n \in 0 .. Repairs : \E i \in DOMAIN invocations' :
               /\ invocations'[i].role = step /\ invocations'[i].attempt = n
               /\ invocations'[i].status = "invalid"]_vars
  <2> SUFFICES ASSUME TypeOK, TriageInv, AttemptsInv, Next,
                      outcome' = "MODEL_FAILED", invocations' # invocations
               PROVE  \A n \in 0 .. Repairs : \E i \in DOMAIN invocations' :
                         /\ invocations'[i].role = step
                         /\ invocations'[i].attempt = n
                         /\ invocations'[i].status = "invalid"
    OBVIOUS
  <2>1. ~(ExceedBudget \/ RefuseRequest \/ CallFails \/ Decide \/ Persist \/ Report)
    BY DEF ExceedBudget, RefuseRequest, CallFails, Decide, Persist, Report
  <2>2. step # "none" => outcome = "running"
    BY DEF TypeOK
  <2>3. ~Select
    BY <2>2 DEF Select, End
  <2>4. Call
    BY <2>1, <2>3 DEF Next
  <2>5. step \in RoleNames
    BY <2>4 DEF Call
  <2>6. Reject
    <3>1. \A reply : ~Accept(reply)
      BY <2>2, <2>5 DEF Accept, RoleNames
    <3> QED
      BY <2>4, <3>1 DEF Call
  <2>7. Record("invalid") /\ ~(attempt < Repairs)
    BY <2>2, <2>5, <2>6 DEF Reject, RoleNames
  <2>8. attempt \in 0 .. 1 /\ Repairs \in 0 .. 1
    BY TriageAssumption DEF TypeOK
  <2>9. \A n \in 0 .. Repairs : n \in 0 .. 1 /\ n <= attempt
    BY <2>7, <2>8
  <2> QED
    BY <2>5, <2>7, <2>9, RejectRecords
<1> QED
  BY <1>1, Inductive, AttemptsAreRecorded, PTL DEF Spec, EveryRoleGetsItsRepair

-----------------------------------------------------------------------------
(* The triage implements its abstract specification. *)

\* The labels of the results: Outcome's view of the state.
Labelled == [i \in DOMAIN results |-> results[i].decision.label]

\* As many labels as results, and each of them a label.
LEMMA LabelledType ==
    ASSUME NEW s \in Seq(Result)
    PROVE  LET l == [i \in DOMAIN s |-> s[i].decision.label] IN
           l \in Seq(Labels) /\ Len(l) = Len(s)
<1> DEFINE l == [i \in DOMAIN s |-> s[i].decision.label]
<1>2. \A i \in DOMAIN s : s[i].decision.label \in Labels
  <2>1. \A i \in DOMAIN s : s[i] \in Result
    OBVIOUS
  <2>2. \A r \in Result : r.decision.label \in Labels
    BY DEF Result
  <2> QED
    BY <2>1, <2>2
<1>3. DOMAIN s = 1 .. Len(s) /\ Len(s) \in Nat
  OBVIOUS
<1>4. l \in [1 .. Len(s) -> Labels]
  BY <1>2, <1>3
<1> QED
  BY <1>3, <1>4

\* The initial state is one of the abstract specification.
LEMMA OutcomeInit == Init => Outcome!Init
<1> SUFFICES ASSUME Init
             PROVE  Outcome!Init
  OBVIOUS
<1>1. results = <<>> /\ outcome = "running"
  BY DEF Init
<1>2. [i \in DOMAIN results |-> results[i].decision.label] = <<>>
  BY <1>1
<1> QED
  BY <1>1, <1>2 DEF Outcome!Init

\* Every step is a step of the abstract specification or none at all.
LEMMA OutcomeStep ==
    ASSUME TypeOK, TypeOK', TriageInv, [Next]_vars
    PROVE  [Outcome!Next]_(Outcome!outcomeVars)
<1>0. /\ Labelled \in Seq(Labels) /\ Len(Labelled) = Len(results)
      /\ alert = Len(results) + 1 /\ Len(results) \in Nat
      /\ Len(Alerts) \in Nat
      /\ step \in RoleNames \cup {"policy"} => alert <= Len(Alerts)
      /\ step # "none" => outcome = "running"
      /\ alert <= Len(Alerts) + 1
  BY LabelledType, TriageAssumption DEF TypeOK, Labelled
<1>1. ASSUME UNCHANGED results
      PROVE  Labelled' = Labelled
  BY <1>1 DEF Labelled
<1>2. ASSUME UNCHANGED <<results, outcome>>
      PROVE  UNCHANGED Outcome!outcomeVars
  BY <1>2 DEF Outcome!outcomeVars
<1>3. ASSUME UNCHANGED results, step # "none", Len(results) < Len(Alerts),
             outcome' \in {"MODEL_FAILED", "POLICY_REJECTED"}
      PROVE  Outcome!Next
  BY <1>0, <1>1, <1>3 DEF Outcome!Next, Outcome!Fail, Outcome!Failures, Labelled
<1>4. CASE Select
  <2>1. step # "none" /\ results' = results /\ Len(results) < Len(Alerts)
    BY <1>0, <1>4 DEF Select
  <2>2. CASE Own = {}
    BY <1>3, <1>4, <2>1, <2>2 DEF Select, End
  <2>3. CASE Own # {}
    BY <1>2, <1>4, <2>3 DEF Select
  <2> QED
    BY <2>2, <2>3
<1>5. CASE ExceedBudget \/ RefuseRequest \/ CallFails
  <2>1. /\ step \in RoleNames /\ results' = results
        /\ outcome' = "MODEL_FAILED"
    BY <1>5 DEF ExceedBudget, RefuseRequest, CallFails, End
  <2>2. step # "none" /\ Len(results) < Len(Alerts)
    BY <1>0, <2>1 DEF RoleNames
  <2> QED
    BY <1>3, <2>1, <2>2
<1>6. CASE Call
  <2>1. step \in RoleNames /\ results' = results
        /\ (outcome' = outcome \/ outcome' = "MODEL_FAILED")
    BY <1>6 DEF Call, Accept, Reject, End
  <2>2. step # "none" /\ Len(results) < Len(Alerts)
    BY <1>0, <2>1 DEF RoleNames
  <2> QED
    BY <1>2, <1>3, <2>1, <2>2
<1>7. CASE Decide
  <2>1. step = "policy" /\ TraceInv /\ AnswersInv
    BY <1>7 DEF Decide, TriageInv
  <2>2. PolicyVerdict # Rejection /\ PolicyVerdict.label \in Labels
        /\ ValidResult(invocations)
    BY <2>1, AcceptedNotRejected, FinishedTrace
  <2> DEFINE l == PolicyVerdict.label
             r == [target |-> Target, family |-> FamilyHere,
                   analyst |-> said["analyst"], rebuttal |-> said["rebuttal"],
                   judge |-> said["judge"], analystClaims |-> AnalystClaims,
                   rebuttalClaims |-> RebuttalClaims,
                   decision |-> PolicyVerdict, trace |-> invocations]
  <2>3. results' = Append(results, r) /\ outcome' = outcome
    BY <1>7, <2>2 DEF Decide
  <2>4. r.decision.label = l
    OBVIOUS
  <2>5. r \in Result /\ results \in Seq(Result)
    BY <2>1, NewResult DEF TypeOK
  <2> HIDE DEF r, l
  <2>6. /\ DOMAIN results' = 1 .. Len(results) + 1
        /\ results'[Len(results) + 1] = r
        /\ \A i \in 1 .. Len(results) : results'[i] = results[i]
        /\ DOMAIN results = 1 .. Len(results)
    BY <2>3, <2>5
  <2>7. Labelled' \in Seq(Labels) /\ Len(Labelled') = Len(results) + 1
    <3>1. Labelled' \in Seq(Labels) /\ Len(Labelled') = Len(results')
      BY LabelledType DEF TypeOK, Labelled
    <3>2. Len(results') = Len(results) + 1
      BY <2>3, <2>5
    <3> QED
      BY <3>1, <3>2
  <2>8. \A i \in 1 .. Len(results) + 1 :
           Labelled'[i] = Append(Labelled, l)[i]
    <3>1. \A i \in 1 .. Len(results) : Labelled'[i] = Labelled[i]
      BY <2>6, <1>0 DEF Labelled
    <3>2. Labelled'[Len(results) + 1] = l
      BY <2>6, <2>4, <1>0 DEF Labelled
    <3>3. l \in Labels
      BY <2>2 DEF l
    <3> QED
      BY <3>1, <3>2, <3>3, <1>0
  <2>9. Labelled' = Append(Labelled, l)
    <3>1. Append(Labelled, l) \in Seq(Labels)
          /\ Len(Append(Labelled, l)) = Len(results) + 1
      BY <2>2, <1>0 DEF l
    <3> QED
      BY <3>1, <2>7, <2>8, <1>0
  <2>10. Len(results) < Len(Alerts) /\ outcome = "running" /\ l \in Labels
    BY <2>1, <1>0, <2>2 DEF l
  <2> QED
    BY <2>3, <2>9, <2>10, <1>0 DEF Outcome!Next, Outcome!Label, Labelled, Labels
<1>8. CASE Persist
  <2>1. UNCHANGED <<results, outcome>>
    BY <1>8, ResultsDistinct DEF Persist, TriageInv, StagesInv
  <2> QED
    BY <1>2, <2>1
<1>10. CASE Report
  <2>1. outcome' = "triaged" /\ results' = results /\ outcome = "running"
    BY <1>0, <1>10, ReportIsValid DEF Report, End
  <2>2. Len(results) = Len(Alerts)
    BY <1>10, ReportIsValid DEF Report, ValidReport
  <2> QED
    BY <2>1, <2>2, <1>0, <1>1 DEF Outcome!Next, Outcome!Succeed, Labelled
<1>9. CASE UNCHANGED vars
  BY <1>2, <1>9 DEF vars
<1> QED
  BY <1>4, <1>5, <1>6, <1>7, <1>8, <1>9, <1>10 DEF Next

\* The triage labels the alerts in order, ends once, and succeeds only with a
\* label for every alert; no error ever becomes a label.
THEOREM Implements == Spec => ImplementsTriageOutcome
<1>1. TypeOK /\ TypeOK' /\ TriageInv /\ [Next]_vars
        => [Outcome!Next]_(Outcome!outcomeVars)
  BY OutcomeStep
<1>2. Init => Outcome!Init
  BY OutcomeInit
<1> QED
  BY <1>1, <1>2, Inductive, PTL DEF Spec, ImplementsTriageOutcome, Outcome!Spec

=============================================================================
