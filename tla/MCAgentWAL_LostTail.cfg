SPECIFICATION Spec
CONSTANTS
    Events = {a, b}
    NoEvent = none
    MaxSeq = 4
    MaxBatch = 2
    CrashKinds <- KillAndPower
CHECK_DEADLOCK FALSE
INVARIANTS
    RestartAccepted
