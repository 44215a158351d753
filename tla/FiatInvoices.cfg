SPECIFICATION FairSpec
CONSTANTS
    Invoices = {i1}
    Webhooks = {w1, w2}
    None = None
    MaxAttempts = 3
CHECK_DEADLOCK FALSE
INVARIANTS
    IntentIsTrue
    NotDroppedInSilence
    ToldPaidUnlessRaced
PROPERTIES
    HalfDoneIsForever
    IntentSettled
