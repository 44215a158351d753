SPECIFICATION FairSpec
CONSTANTS
    Invoices = {i1, i2}
    Accounts = {a1}
    Calls = {c1}
    t1 = t1
    t2 = t2
    a1 = a1
    Txs = {t1, t2}
    None = None
    AccountOf <- MCAccountOf
    AmountOf <- MCAmountOf
    Prices = {4}
    PriceScale = 2
    Precision = 2
    MaxAmount = 5
    Orders = {o1}
    MaxAttempts = 2
CHECK_DEADLOCK FALSE
INVARIANTS
    AccountExclusive
PROPERTIES
    AccountFreed
