\* The triage ends: no deadlock check.
CHECK_DEADLOCK FALSE
CONSTANTS
    Alerts <- MCAll
    Registry <- MCRegistry
    Replies <- MCReplies
    MaxCalls = 5
    Repairs = 1
SPECIFICATION FairSpec
INVARIANTS
    BudgetHolds
    AcceptedIsDecided
    VerdictsAreGrounded
PROPERTIES
    EveryRoleGetsItsRepair
    ImplementsTriageOutcome
    Terminates
