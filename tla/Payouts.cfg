SPECIFICATION FairSpec
CONSTANTS
    Requests = {r1, r2}
    o1 = o1
    o2 = o2
    Orders = {o1, o2}
    StoreOf <- MCStoreOf
    SellerCurrency <- MCSellerCurrency
    TotalAmount <- MCTotalAmount
    Cryptos = {"stq", "eth"}
    BlockchainFees = {0, 2}
    MaxAmount = 3
    MaxAttempts = 2
CHECK_DEADLOCK FALSE
INVARIANTS
    TransfersSound
    LostOnlyIfMissed
    DoublePayoutOnlyIfConcurrent
PROPERTIES
    PayoutDecided
