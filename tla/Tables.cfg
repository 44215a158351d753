SPECIFICATION Spec
CONSTANTS
    NoType = NoType
    NoRate = NoRate
    NoAccount = NoAccount
    BStores = {s1}
    BRequests = {r1, r2, r3}
    Searches = {q1, q2}
    XOrders = {o1, o2}
    DummyOrders = {o2}
    Rates = {x1, x2, x3, x4, x5}
    Refreshes = {f1, f2}
    System = {a1, a2}
    Pooled = {b1, b2}
    Instances = {p1, p2}
    MinPool = 1
    MaxStarts = 2
    Sagas = {g1}
    LOrders = {l1, l2}
    SagaOf <- MCSagaOf
    LCalls = {c1, c2, c3}
    Gone = Gone
    MaxMoves = 2
    Base = 10
    MAX = 1023
    OtherDigits <- MCOtherDigits
    MaxWeight = 4
    Failed = Failed
    Unread = Unread
SYMMETRY Symmetry
INVARIANTS
    BillingConsistent
    OneActiveRate
    AccountsBacked
    SagaInStep
    AmountKept
CHECK_DEADLOCK FALSE
