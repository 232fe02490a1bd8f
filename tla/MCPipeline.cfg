\* The process ends: no deadlock check.
CHECK_DEADLOCK FALSE
CONSTANTS
    Commands <- MCCommands
    SlicePaths <- MCSlicePaths
    ToolLogs <- MCToolLogs
    MaxIncidents = 2
SPECIFICATION Spec
INVARIANTS
    SuccessIsEarned
    FailureIsTold
    OnlyKnownErrorsEscape
PROPERTY ImplementsRunLifecycle
