SPECIFICATION Spec
CONSTANTS
    r1 = r1
    r2 = r2
    r3 = r3
    p = p
    q = q
    v = v
    Rules <- ThreeRules
    Leases <- ThreeLeases
    Bytes <- Two
    Dirs <- OneWay
    Windowed <- OneRule
    Adaptive = {}
    Sizes = {2}
    RuleCredits = 2
    AccountCredits = 3
    MaxPending = 5
    Payloads = {1, 2}
    Configs <- Mixed
    MaxCharges = 2
    Ending = {}
    MaxCrashes = 0
    NoWindow = none
CHECK_DEADLOCK FALSE
INVARIANTS
    LogStaysReplayable
