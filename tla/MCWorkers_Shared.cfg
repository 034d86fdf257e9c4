SPECIFICATION WorkersSpec
CONSTANTS
    a = a
    b = b
    Panels <- TwoPanels
    Tasks = {1}
    Rules = 2
    MaxActive = 1
    MaxCrashes = 1
    MaxEarly = 1
    Events = {1}
    MaxAttempts = 2
    MaxEdits = 2
    Calls = {c1, c2}
    Keys = {k1, k2}
    MaxCarriers = 1
    MaxStreams = 1
    MaxEntries = 2
CHECK_DEADLOCK FALSE
INVARIANTS
    TasksTrue
    PoolSound
PROPERTIES
    WebhooksCounted
    NothingReopens
    
