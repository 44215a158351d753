SPECIFICATION FairSpec
CONSTANTS
    Orders = {o1, o2}
    Fiat = {o1}
    Requests = {r1, r2, r3}
    None = None
    MaxAttempts = 2
INVARIANTS
    RefundAccounted
    RefundedTwiceOnlyIf
    FeeMissingOnlyIf
PROPERTIES
    FinalUnlessStale
    CaptureDecided
CHECK_DEADLOCK FALSE
