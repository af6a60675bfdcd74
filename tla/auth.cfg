CONSTANTS
    u1 = u1
    u2 = u2
    s1 = s1
    s2 = s2
    s3 = s3
    r1 = r1
    r2 = r2
    p = p
    q = q
    Users <- TwoUsers
    Sids <- ThreeSids
    Requests <- TwoRequests
    PermSets <- Perms
    Times <- Clocks
    MaxSessions = 2
    MaxGen = 1
    None = None
CHECK_DEADLOCK FALSE
VIEW Pending
SYMMETRY Fresh
SPECIFICATION FocusSpec
INVARIANTS TypeOK KeysAreSound
PROPERTIES ServedWhenAlone NoResurrection EvictsOldest
