CONSTANTS
    u1 = u1
    u2 = u2
    s1 = s1
    s2 = s2
    s3 = s3
    r1 = r1
    r2 = r2
    p = p
    q = q
    Users <- OneUser
    Sids <- OneSid
    Requests <- OneRequest
    PermSets <- Perms
    Times <- Clocks
    MaxSessions = 1
    MaxGen = 1
    None = None
CHECK_DEADLOCK FALSE
SPECIFICATION FocusSpec
PROPERTIES NoPermissionIsForbidden
