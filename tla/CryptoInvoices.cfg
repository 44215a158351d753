SPECIFICATION Spec
CONSTANTS
    Invoices = {i1}
    Accounts = {a1}
    Calls = {c1, c2}
    t1 = t1
    t2 = t2
    a1 = a1
    Txs = {t1, t2}
    None = None
    AccountOf <- MCAccountOf
    AmountOf <- MCAmountOf
    Prices = {3, 8}
    PriceScale = 2
    Precision = 2
    MaxAmount = 5
    Orders = {o1, o2}
    MaxAttempts = 2
SYMMETRY CallSymmetry
CHECK_DEADLOCK FALSE
INVARIANTS
    PaidIsCovered
    CapturedAccounted
    FollowedUp
    ToldPaidUnlessRaced
