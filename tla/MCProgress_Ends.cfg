SPECIFICATION ProgressSpec
CONSTANTS
    MaxLeases = 2
    Ents = {1, 2}
    Quota <- Small
    Ask = 1
    Outstanding = 4
    MaxOpen = 2
    MaxLate = 0
    MaxVersion = 2
    BatchSize = 1
    Workers <- TwoWorkers
    Ending = {1}
    Idle = Idle
CHECK_DEADLOCK FALSE
PROPERTIES
    
    ReplacementEnds
    LossIsTold
