SPECIFICATION Spec
CONSTANTS
    q1 = q1
    q2 = q2
    q3 = q3
    q4 = q4
    h1 = h1
    h2 = h2
    w1 = w1
    w2 = w2
    s1 = s1
    s2 = s2
    None = None
    Requests = {q1, q2, q3}
    HttpSessions = {h1}
    Workers = {w1, w2}
    Chats = {s1, s2}
    OldChats = {s1}
    Http <- CancelHttp
    Worker <- CancelWorker
    Kind <- CancelKind
    Target <- CancelTarget
    Faults = {}
    ReplyBeforeCommit = TRUE
INVARIANTS
    TypeOK
    LockIsReturned
PROPERTY ImplementsProcessingLock
