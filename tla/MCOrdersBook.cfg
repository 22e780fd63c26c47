SPECIFICATION FairSpec
CONSTANTS
    o1 = o1
    o2 = o2
    o3 = o3
    a1 = a1
    Calls = {o1, o2, o3, a1}
    OrderCalls = {o1, o2, o3}
    Menu <- CancelLookups
    OrderMenu <- CancelMenu
    Values <- MCValues
    Cents <- MCCents
    Null = Null
    NoRow = NoRow
    NoOrder = NoOrder
    Users = {1, 2}
    IntMax = 2
    OrderIdMax = 1
    InitialMovies <- OneMovie
    FirstFreeId = 2
    DatabaseCanFail = TRUE
INVARIANTS OnlyOwnerReachesOrder AcknowledgedOrderStays CancelConflictJustified
PROPERTIES EveryCallEnds ImplementsOrderBook
