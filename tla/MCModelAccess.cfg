SPECIFICATION Spec
CHECK_DEADLOCK FALSE
CONSTANTS
    p1 = p1
    p2 = p2
    k1 = k1
    k2 = k2
    Procs = {p1, p2}
    Keys = {k1, k2}
    Workloads <- MCWorkloads
    Sources <- MCSources
    MaxIncidents = 1
    Output = 3
    PipeSize = 1
    Limit = 2
    Whole = 1
INVARIANTS
    CaptureIsSound
    UndisturbedCommandsTellTheSources
    StoredCredentialsSurvive
    OnlySilenceIsAskedAgain
PROPERTIES
    FoundIsNotPassedOver
    CommandsReturn
