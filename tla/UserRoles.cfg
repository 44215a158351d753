SPECIFICATION Spec
CONSTANTS
    u1 = u1
    u2 = u2
    s1 = s1
    r1 = r1
    r2 = r2
    r3 = r3
    None = None
    Users = {u1, u2}
    Stores = {s1}
    RoleIds = {1, 2, 3}
    Existing <- MCExisting
    Requests = {r1, r2, r3}
    NewRows <- MCNewRows
    Asked <- MCAsked
SYMMETRY Symmetry
INVARIANTS
    RolesFresh
    DecisionCurrent
CHECK_DEADLOCK FALSE
