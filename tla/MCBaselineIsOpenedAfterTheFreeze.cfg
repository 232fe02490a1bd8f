SPECIFICATION Spec
SYMMETRY MCSymmetry
CONSTANTS
    p1 = p1
    p2 = p2
    NoEvaluation = NoEvaluation
    NoSummary = NoSummary
    Procs = {p1, p2}
    Manifest <- MCManifest
    Results <- MCResults
    RunLabels = {"TP", "NMC"}
    Before = 1
    After = 2
    Target <- MCTarget
    Rendered <- MCRendered
    Baselines <- MCBaselines
    Incidents = {"stop", "exchange", "review"}
    MaxIncidents = 1
INVARIANT BaselineIsOpenedAfterTheFreeze
