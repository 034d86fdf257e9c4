SPECIFICATION MeteringSpec
CONSTANTS
    MaxLeases = 2
    Ents <- TwoPlans
    Quota <- Small
    Ask = 2
    Outstanding = 4
    MaxOpen = 2
    MaxLate = 1
    MaxVersion = 2
    BatchSize = 1
    Workers <- AllWorkers
    Ending = {}
    Idle = Idle
INVARIANTS
    SettledExactly
    
    AllocationExact
