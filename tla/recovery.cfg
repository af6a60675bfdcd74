SPECIFICATION ExpirySpec
CONSTANTS
    q1 = q1
    q2 = q2
    q3 = q3
    q4 = q4
    h1 = h1
    h2 = h2
    w1 = w1
    w2 = w2
    s1 = s1
    s2 = s2
    None = None
    Requests = {q1, q2, q3}
    HttpSessions = {h1}
    Workers = {w1, w2}
    Chats = {s1}
    OldChats = {s1}
    Http <- RecoveryHttp
    Worker <- RecoveryWorker
    Kind <- RecoveryKind
    Target <- RecoveryTarget
    Faults = {"expiry", "crash"}
    ReplyBeforeCommit = TRUE
PROPERTY KeysAreTemporary
PROPERTY EveryRequestEnds
PROPERTY MarkedSessionIsDeleted
