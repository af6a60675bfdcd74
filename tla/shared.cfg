SPECIFICATION FairSpec
CONSTANTS
    q1 = q1
    q2 = q2
    q3 = q3
    q4 = q4
    h1 = h1
    h2 = h2
    w1 = w1
    w2 = w2
    s1 = s1
    s2 = s2
    None = None
    Requests = {q1, q2, q3}
    HttpSessions = {h1, h2}
    Workers = {w1, w2}
    Chats = {s1}
    OldChats = {s1}
    Http <- SharedHttp
    Worker <- SharedWorker
    Kind <- SharedKind
    Target <- SharedTarget
    Faults = {}
    ReplyBeforeCommit = TRUE
INVARIANT OneOperationPerChat
PROPERTY EveryRequestEnds
CHECK_DEADLOCK FALSE
