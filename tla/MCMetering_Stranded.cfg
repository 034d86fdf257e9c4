SPECIFICATION MeteringSpec
CONSTANTS
    MaxLeases = 2
    Ents <- OnePlan
    Quota <- Small
    Ask = 2
    Outstanding = 4
    MaxOpen = 2
    MaxLate = 0
    MaxVersion = 1
    BatchSize = 1
    Workers <- TwoWorkers
    Ending = {1}
    Idle = Idle
INVARIANTS
    Reclaimable
