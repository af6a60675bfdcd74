SPECIFICATION Spec
CONSTANTS
    a1 = a1
    a2 = a2
    a3 = a3
    r1 = r1
    r2 = r2
    None = None
    NoRow = NoRow
    Limits = {1, 2}
    Admins = {a1}
    Wanted <- One
    Readers = {r1, r2}
    MaxRevision = 2
    RoleMayGo = TRUE
    Faulty = TRUE
CHECK_DEADLOCK FALSE
INVARIANT CacheIsSound
PROPERTY GrantsAreCurrent
