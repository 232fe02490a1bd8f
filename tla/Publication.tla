----------------------------- MODULE Publication -----------------------------
(***************************************************************************)
(* What an experiment promises to a reader of its artifact root: the       *)
(* decisions appear once, at most one per occurrence, and never change;    *)
(* only then they are compared with the baseline, once.  It is the         *)
(* specification Experiment implements; no part of it translates a         *)
(* function.                                                               *)
(***************************************************************************)
EXTENDS Evaluation

CONSTANT NoEvaluation

VARIABLES phase, decisions, evaluation

publication == <<phase, decisions, evaluation>>

Init == phase = "open" /\ decisions = {} /\ evaluation = NoEvaluation

Publish ==
    /\ phase = "open" /\ phase' = "published"
    /\ Consistent(decisions')
    /\ UNCHANGED evaluation

\* Every published decision is compared or reported as not compared.
Compare ==
    /\ phase = "published" /\ phase' = "evaluated"
    /\ evaluation' # NoEvaluation
    /\ evaluation'.aligned + evaluation'.missing_baseline = Cardinality(decisions)
    /\ UNCHANGED decisions

Next == Publish \/ Compare

Spec == Init /\ [][Next]_publication

=============================================================================
