SPECIFICATION RenewalSpec
CONSTANTS
    r1 = r1
    p = p
    q = q
    Rules <- OneRule
    Leases <- TwoLeases
    Bytes <- Two
    Dirs <- OneWay
    Windowed <- OneRule
    Adaptive <- OneRule
    Sizes = {2}
    RuleCredits = 2
    AccountCredits = 2
    MaxPending = 2
    Payloads = {1}
    Configs <- Renewing
    MaxCharges = 0
    Ending <- OneLease
    MaxCrashes = 1
    NoWindow = none
    Dials = {d1, d2}
    Candidates = {1, 2}
    Weight <- MCWeight
    MaxFail = 2
    MaxApplies = 1
CHECK_DEADLOCK FALSE
INVARIANTS
    ProbeOwned
    WeightsBalance
PROPERTIES
    MeteringContract
