----------------------------- MODULE Evaluation -----------------------------
(***************************************************************************)
(* The comparison of frozen automatic decisions with a human baseline.     *)
(* A report is one automatic decision, a row one line of the baseline; the *)
(* identity of an occurrence is its SARIF and its index.  Both files are   *)
(* joined by that identity and by nothing else.                            *)
(***************************************************************************)
EXTENDS Naturals, Sequences, FiniteSets

Labels == {"TP", "FP", "NMC"}

Identity(report) == <<report.sarif, report.index>>

\* One decision per occurrence.
Consistent(reports) ==
    \A r, s \in reports : Identity(r) = Identity(s) => r = s

\* A row names a case by its prefix; sarifs is the binding of each prefix.
RowIdentity(row, sarifs) == <<sarifs[row.prefix], row.index>>

\* Every row needs a binding, a decision and a location that agrees with it.
Bindable(row, reports, sarifs) ==
    /\ row.prefix \in DOMAIN sarifs
    /\ RowIdentity(row, sarifs) \in {Identity(r) : r \in reports}
    /\ row.agrees

\* Mutant of Bind: rows that cannot be bound are passed over.
BindPassesOver(rows, reports, sarifs) ==
    [accepted |-> TRUE,
     records |-> SelectSeq(rows, LAMBDA row : Bindable(row, reports, sarifs))]

\* One row that cannot be bound rejects the whole baseline.
Bind(rows, reports, sarifs) ==
    [accepted |-> \A i \in DOMAIN rows : Bindable(rows[i], reports, sarifs),
     records |-> rows]

NoDuplicates(rows, sarifs) ==
    \A i, j \in DOMAIN rows :
        RowIdentity(rows[i], sarifs) = RowIdentity(rows[j], sarifs) => i = j

Rows(rows) == {rows[i] : i \in DOMAIN rows}

\* What an evaluation says.
Evaluations ==
    [aligned : Nat, matrix : [Labels -> [Labels -> Nat]],
     automatic_counts : [Labels -> Nat], baseline_counts : [Labels -> Nat],
     missing_automatic : Nat, missing_baseline : Nat]

\* Counts of the baseline-aligned cohort and of what has no partner.
Evaluate(reports, rows, sarifs) ==
    LET Pairs(b, a) ==
            {r \in reports : /\ r.label = a
                             /\ \E row \in Rows(rows) :
                                    /\ row.label = b
                                    /\ RowIdentity(row, sarifs) = Identity(r)}
        aligned == UNION {Pairs(b, a) : b \in Labels, a \in Labels}
        human == {RowIdentity(row, sarifs) : row \in Rows(rows)}
        automatic == {Identity(r) : r \in reports}
    IN  [aligned |-> Cardinality(aligned),
         matrix |-> [b \in Labels |-> [a \in Labels |-> Cardinality(Pairs(b, a))]],
         automatic_counts |->
            [a \in Labels |-> Cardinality({r \in aligned : r.label = a})],
         baseline_counts |->
            [b \in Labels |-> Cardinality({row \in Rows(rows) : row.label = b})],
         missing_automatic |-> Cardinality(human \ automatic),
         missing_baseline |-> Cardinality(automatic \ human)]

=============================================================================
