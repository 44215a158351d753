SPECIFICATION FairSpec
CONSTANTS
    Workers = {w1, w2}
    MaxEntries = 2
    MaxAttempts = 2
    StuckThreshold = 1
    MaxDelay = 1
    NoEntry = none
INVARIANTS
    AttemptsBounded
    RowsAreHonest
PROPERTIES
    EventuallySettled
