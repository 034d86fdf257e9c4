SPECIFICATION ShopSpec
CONSTANTS
    o1 = o1
    Orders = {o1}
    Amount <- AmountDef
    Terms <- TermsDef
    Addon <- AddonDef
    Rate = 67
    CodeAmount = 1
    MaxUses = 1
    Credits <- CreditsDef
    MaxEnts = 2
    MaxExtras = 2
    MaxReserve = 2
    Chunk = 2
    Sizes <- SizesDef
    MaxAsides = 1
INVARIANT RefundTakesQuota
CHECK_DEADLOCK FALSE
