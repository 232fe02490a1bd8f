----------------------------- MODULE ScanFiles -----------------------------
(***************************************************************************)
(* The files a CodeQL scan leaves in the artifacts of a run, whatever      *)
(* becomes of it.  CodeQLScan is checked to keep to this, and Pipeline     *)
(* relies on it for what its scan step may find.                           *)
(***************************************************************************)
EXTENDS Naturals, Sequences

\* The logs are written one after the other, and only the last may be
\* incomplete; the SARIF file appears when the first `before` of them are
\* complete, and the metadata of the run when everything else is.
LeftBehind(content, logs, before, sarif, metadata) ==
    \E k \in 0 .. Len(logs) :
        /\ \A i \in DOMAIN logs :
             IF i <= k THEN content[logs[i]] = "original"
             ELSE content[logs[i]] \in
                    IF i = k + 1 THEN {"partial", "absent"} ELSE {"absent"}
        /\ content[sarif] # "absent" => k >= before
        /\ content[metadata] # "absent" =>
             k = Len(logs) /\ content[sarif] = "original"

=============================================================================
