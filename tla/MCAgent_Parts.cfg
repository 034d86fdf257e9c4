SPECIFICATION AgentSpec
CONSTANTS
    Events = {a, b}
    NoEvent = none
    MaxSeq = 4
    MaxBatch = 2
    CrashKinds <- KillAndPower
    MaxCrashes = 1
    r1 = r1
    r2 = r2
    p = p
    q = q
    NoWindow = none
    Waiters = {w1, w2}
    Leases = {1, 2}
    Allowance = 1
    MaxNews = 1
    Listening = {l1}
    Reverse = {r1}
    Addrs = {s1}
    Versions = {1, 2}
    MaxEntries = 3
    MaxCommits = 2
CHECK_DEADLOCK FALSE
INVARIANTS
    PromisesKept
    UpgradeTruthful
    DuplexSpoolSound
    
    
    
PROPERTIES
    PowerSafe
