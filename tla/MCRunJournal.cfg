\* The client may stop calling, and the constructor may raise: no deadlock check.
CHECK_DEADLOCK FALSE
CONSTANTS
    Paths <- MCPaths
    MaxIncidents = 2
    InitialArtifacts <- MCInitialArtifacts
SPECIFICATION MCSpec
INVARIANTS
    ManifestReplaysLog
    FinalManifestIsAudited
PROPERTY FinalIsFinal
