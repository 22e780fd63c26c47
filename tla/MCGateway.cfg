SPECIFICATION FairSpec
CONSTANTS
    l1 = l1
    l2 = l2
    m1 = m1
    b1 = b1
    RpcCalls = {l1, l2, m1, b1}
    Services = {"auth", "catalog", "order"}
    To <- MCTo
    AuthCalls = {l1, l2}
    MovieCalls = {m1}
    OrderCalls = {b1}
    HttpMenu <- MCHttpMenu
    NoToken = NoToken
    MaxFaults = 1
    Emails <- MCEmails
    Canon <- MCCanon
    Passwords = {"p1", "p2"}
    Environments <- MCEnvironments
    NoAdmin = NoAdmin
    NoUser = NoUser
    UserIdMax = 2
    Values <- MCValues
    Null = Null
    NoRow = NoRow
    IntMax = 2
    InitialMovies <- OneMovie
    FirstFreeId = 2
    OrderIdMax = 2
    NoOrder = NoOrder
    Cents <- MCCents
INVARIANTS TypeOK OrdersBelongToAccounts OrdersMatchResponses
PROPERTIES OnlyAdminsChangeMovies EveryRequestAnswered
