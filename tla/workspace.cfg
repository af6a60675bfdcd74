SPECIFICATION WorkspaceSpec
CHECK_DEADLOCK FALSE
CONSTANTS
    r1 = r1
    r2 = r2
    r3 = r3
    r4 = r4
    h1 = h1
    h2 = h2
    w1 = w1
    w2 = w2
    None = None
    Requests = {r1, r2, r3, r4}
    HttpSessions = {h1, h2}
    Workers = {w1, w2}
    Http <- MCHttp
    Worker <- MCWorker
    IUsers = {"a", "b"}
    IPermSets = {{}, {"x"}}
    INone = INone
    IMaxSessions = 2
    IMaxKeys = 2
    IMaxChanges = 2
    DSessions = {s1, s2, s3}
    DExisting = {s1, s2}
    DNone = DNone
    DMaxNavigations = 2
    DMaxDeletes = 2
    DMaxSubmits = 1
    WNone = WNone
    WMaxTurns = 2
    WMaxSaved = 3
    WMaxMounts = 2
    WMaxRequests = 3
    YNone = YNone
    YMaxRequests = 3
    YMaxDeletions = 2
    NUsers <- MCUsers
    NNone = NNone
    NMaxMoves = 5
    KLists <- MCLists
    KNone = KNone
    KTexts = {1, 2, 3}
    KLimit = 2
    KMaxChoices = 3
    LLists <- MCSelectorLists
    LName <- MCName
    LNone = LNone
    BIds = {1, 2, 3}
    BPageSize = 1
    BNone = BNone
    BMaxKey = 5
    BMaxChanges = 2
    ZIds = {1, 2}
    ZRows <- MCRows
    ZTerms = {"  ", "a", "b"}
    ZFound <- MCFound
    ZNone = ZNone
    ZMaxSteps = 7
    UBlocks = {b1, b2}
    UCodes = {"x", "y"}
    UNone = UNone
    XNone = XNone
    XMaxFetches = 4
    HManifest <- MCManifest
    HIds = {"id", "connection"}
    HStatuses = {200, 201, 503}
    HBodies <- MCBodies
    HNone = HNone
    GNames = {"", "  ", "n", "o"}
    GPasswords = {"", "p"}
    GBlank = ""
    GSpaces = "  "
    GNone = GNone
    GMaxAttempts = 3
    TTags <- MCTags
    TNavigators <- MCNavigators
    TNone = TNone
    TMaxEntries = 2
    TMaxSteps = 3
INVARIANTS
    WorkspaceTypeOK
    WorkerExclusion
    PageIsOfTheUser
    DeletionIsSafe
    TurnsAreKept
    ScopeIsSound
    ContractIsKept
    HonestCallsPass
    ListsAreExact
    ChoicesAreKept
PROPERTIES
    OwnerSafety
    StepsAreTrue
