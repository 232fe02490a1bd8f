SPECIFICATION Spec
CHECK_DEADLOCK FALSE
CONSTANTS
    Documents <- MCDocuments
    Budget = 12
    Radius = 1
    MaximumCallees = 1
    Snapshot <- MCSnapshot
    MaximumDepth = 2
    Paths <- MCPaths
    Setups <- MCSetups
    InitialContents <- MCContents
    MaxChanges = 0
INVARIANT
    GapsDoNotEndTheRun
