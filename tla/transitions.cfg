SPECIFICATION FairSpec
CONSTANTS
    a1 = a1
    a2 = a2
    a3 = a3
    r1 = r1
    r2 = r2
    None = None
    NoRow = NoRow
    Limits = {1, 2}
    Admins = {a1, a2, a3}
    Wanted <- Three
    Readers = {}
    MaxRevision = 6
    RoleMayGo = TRUE
    Faulty = TRUE
CHECK_DEADLOCK FALSE
INVARIANT MarkerHasOwner
PROPERTY FailClosed
PROPERTY AdminsEnd
