SPECIFICATION FairSpec
CONSTANTS
    Procs <- MCProcs
    Contents <- MCContents
    Specs <- MCSpecs
    Incidents <- MCEverything
    MaxIncidents = 2
INVARIANTS
    TypeOK
    SnapshotsKeepIdentity
PROPERTIES
    GrantIsOwned
    WorkIsKept
    UndisturbedRefusalsAreReal
    ImplementsRunOwnership
    SomebodyReturns
