\* The process ends: no deadlock check.
CHECK_DEADLOCK FALSE
CONSTANTS
    Commands <- MCCommands
    SlicePaths <- MCSlicePaths
    ToolLogs <- MCToolLogs
    MaxIncidents = 1
SPECIFICATION Spec
INVARIANT FailedCommandIsNotCompleted
