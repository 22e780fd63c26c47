SPECIFICATION HistorySpec
CONSTANTS
    o1 = o1
    o2 = o2
    o3 = o3
    a1 = a1
    Calls = {o1, o2, o3, a1}
    OrderCalls = {o1, o2, o3}
    Menu <- BuyLookups
    OrderMenu <- BuyMenu
    Values <- MCValues
    Cents <- MCCents
    Null = Null
    NoRow = NoRow
    NoOrder = NoOrder
    Users = {1, 2}
    IntMax = 2
    OrderIdMax = 2
    InitialMovies <- OneMovie
    FirstFreeId = 2
    DatabaseCanFail = TRUE
INVARIANTS TypeOK OrdersMatchAnswers SnapshotWasCurrent NewestFirst
