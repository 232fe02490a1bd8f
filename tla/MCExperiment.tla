---------------------------- MODULE MCExperiment ----------------------------
(***************************************************************************)
(* Three cases: a SARIF whose only result is the historical target, one    *)
(* without results, and one that is only counted.                          *)
(***************************************************************************)
EXTENDS Experiment, TLC

MCManifest ==
    <<[mode |-> "triage", sarif |-> "a", prefix |-> "A"],
      [mode |-> "triage", sarif |-> "b", prefix |-> "no prefix"],
      [mode |-> "audit_only", sarif |-> "b", prefix |-> "no prefix"]>>
MCResults == [a |-> 1, b |-> 0]
MCTarget == {<<"a", 0>>}
MCRendered == <<>>

Row(prefix, i, label, agrees) ==
    [prefix |-> prefix, index |-> i, label |-> label, agrees |-> agrees]

\* No row, a row that binds, one without a binding, one that is there twice.
MCBaselines ==
    {<<>>, <<Row("A", 0, "FP", TRUE)>>,
     <<Row("A", 0, "TP", TRUE), Row("Z", 0, "TP", TRUE)>>,
     <<Row("A", 0, "TP", TRUE), Row("A", 0, "TP", TRUE)>>}

MCSymmetry == Permutations(Procs)

=============================================================================
