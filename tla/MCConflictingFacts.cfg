\* The triage ends: no deadlock check.
CHECK_DEADLOCK FALSE
CONSTANTS
    Alerts <- MCResource
    Registry <- MCRegistry
    Replies <- MCReplies
    MaxCalls = 3
    Repairs = 0
SPECIFICATION Spec
INVARIANT
    ConflictingFactsForceNMC
