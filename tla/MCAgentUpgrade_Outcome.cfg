SPECIFICATION Spec
CONSTANTS
    MaxOps = 1
    MaxClaims = 2
    MaxCrashes = 1
CHECK_DEADLOCK FALSE
INVARIANTS
    OutcomeReportable
