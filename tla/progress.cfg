SPECIFICATION ProgressSpec
CHECK_DEADLOCK FALSE
CONSTANTS
    QRoles = {r1}
    QTexts <- MCTexts
    NoQuota = NoQuota
    QNone = QNone
    QMaxSafe = 5
    QMaxMounts = 1
    QMaxMutations = 1
    AFilters = {}
    ANone = ANone
    APages <- MCAuditPages
    AFormats = {"json"}
    ADispositions <- MCDispositions
    AMaxSearches = 1
    AMaxExports = 1
    AMaxRequests = 2
    FTexts = {3, 5}
    FNaN = FNaN
    FNone = FNone
    FMaxSaves = 1
    STyped = {"v"}
    SStored = {"v"}
    SMask = "mask"
    SBlank = ""
    SNone = SNone
    SMaxSends = 0
    CIds = {c1}
    CNone = CNone
    CPorts = {0}
    CMaxSends = 1
    RIds = {i1, i2}
    RNames = {"p", "q"}
    RPolicies = {"x", "y"}
    ROthers <- MCRolesOfOthers
    RNone = RNone
    RMaxSaves = 1
    Connections = {k1}
    Tables = {t1}
    Columns = {a}
    NoneYet = NoneYet
    InitialPolicies <- MCPolicies
    MaxFilters = 0
    MaxMasks = 0
    VQuestions = {"q", "r"}
    VPolicies = {"p", "s"}
    VAllowed <- MCAllowed
    VBlank = ""
    VNone = VNone
    VMaxSends = 1
    EErrors <- MCErrors
    EDotted = {"error.forbidden", "error.internal", "error.notFound", "error.unauthorized"}
    ENone = ENone
    EMaxToasts = 2
    EMaxMounts = 1
    r1 = r1
    r2 = r2
    r3 = r3
    r4 = r4
    h1 = h1
    h2 = h2
    w1 = w1
    w2 = w2
    None = None
    Requests = {r1, r2, r3, r4}
    HttpSessions = {h1, h2}
    Workers = {w1, w2}
    Http <- MCHttp
    Worker <- MCWorker
    IUsers = {"a", "b"}
    IPermSets = {{}}
    INone = INone
    IMaxSessions = 2
    IMaxKeys = 1
    IMaxChanges = 1
    DSessions = {s1, s2}
    DExisting = {s1}
    DNone = DNone
    DMaxNavigations = 1
    DMaxDeletes = 2
    DMaxSubmits = 1
    WNone = WNone
    WMaxTurns = 2
    WMaxSaved = 2
    WMaxMounts = 2
    WMaxRequests = 2
    YNone = YNone
    YMaxRequests = 1
    YMaxDeletions = 2
    NUsers <- MCUsers
    NNone = NNone
    NMaxMoves = 3
    KLists <- MCLists
    KNone = KNone
    KTexts = {1}
    KLimit = 2
    KMaxChoices = 1
    LLists <- MCSelectorLists
    LName <- MCName
    LNone = LNone
    BIds = {1}
    BPageSize = 1
    BNone = BNone
    BMaxKey = 5
    BMaxChanges = 0
    ZIds = {1, 2}
    ZRows <- MCRows
    ZTerms = {"  ", "a", "b"}
    ZFound <- MCFound
    ZNone = ZNone
    ZMaxSteps = 4
    UBlocks = {b1, b2}
    UCodes = {"x", "y"}
    UNone = UNone
    XNone = XNone
    XMaxFetches = 2
    HManifest <- MCManifest
    HIds = {"id", "connection"}
    HStatuses = {200}
    HBodies <- MCBodies
    HNone = HNone
    GNames = {"", "  ", "n", "o"}
    GPasswords = {"", "p"}
    GBlank = ""
    GSpaces = "  "
    GNone = GNone
    GMaxAttempts = 1
    TTags <- MCTags
    TNavigators <- MCNavigators
    TNone = TNone
    TMaxEntries = 2
    TMaxSteps = 0
PROPERTIES
    EverythingSettles
