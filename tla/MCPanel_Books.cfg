SPECIFICATION PanelSpec
CONSTANTS
    o1 = o1
    Orders = {o1}
    Amount <- AmountDef
    Terms <- TermsDef
    Addon <- AddonDef
    Rate = 67
    CodeAmount = 1
    MaxUses = 1
    Credits <- CreditsDef
    MaxEnts = 2
    MaxExtras = 2
    MaxReserve = 0
    Chunk = 1
    Sizes <- SizesDef
    MaxAsides = 1
    Rules = {r1, r2}
    Exits = {e1}
    Groups = {g1}
    Ports = {p1}
    Nil = Nil
    MaxRevision = 3
CHECK_DEADLOCK FALSE
INVARIANTS
    WalletsExact
    MoneyTraced
    OrdersAndShares
    QuotaCovers
    PortOwnedOnce
    ListenerHoldsPort
    
    HistoryExact
PROPERTIES
    RemindersSound
    AlertsTrue
