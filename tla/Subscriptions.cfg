SPECIFICATION Spec
CONSTANTS
    Stores = {s1}
    Edits = {e1, e2}
    None = None
    Counts = {k1, k2}
    Payloads <- const_Payloads
    Runs = {p1, p2}
    Owned = {s1}
    Cards = {s1}
    DayLength = 2
    TrialTime = 2
    Periodicity = 0
    Skew = 1
    MaxTime = 2
INVARIANTS
    TermsConsistent
    PaymentIsTrue
    CountedOncePerDay
PROPERTIES
    DaysCollectedOnce
SYMMETRY Symmetry
CHECK_DEADLOCK FALSE
