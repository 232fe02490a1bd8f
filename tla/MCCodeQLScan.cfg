SPECIFICATION Spec
\* Scans end: no deadlock check.
CHECK_DEADLOCK FALSE
CONSTANTS
    s1 = s1
    s2 = s2
    Procs = {s1, s2}
    Setups <- MCSetups
    MaxIncidents = 1
INVARIANTS
    OutcomeTellsTheCommands
    AuditBelongsToOneScan
    ScanKeepsTheContract
PROPERTY
    ScansReturn
