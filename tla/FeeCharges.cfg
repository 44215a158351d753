SPECIFICATION Spec
CONSTANTS
    Users = {u1}
    Calls = {k1, k2, k3}
    None = None
    f1 = f1
    f2 = f2
    f3 = f3
    Fees = {f1, f2, f3}
    Requests = {q1, q2}
    store_id <- const_store_id
    owner <- const_owner
    currency <- const_currency
    amount <- const_amount
    MaxAmount = 3
    StripeCurrencies <- const_StripeCurrencies
INVARIANTS
    CustomersMirrored
    ChargeRecorded
PROPERTIES
    PaidUnlessRivals
    FeesChargedOnce
SYMMETRY Symmetry
CHECK_DEADLOCK FALSE
