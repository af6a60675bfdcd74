SPECIFICATION AdminSpec
CHECK_DEADLOCK FALSE
CONSTANTS
    QRoles = {r1, r2}
    QTexts <- MCTexts
    NoQuota = NoQuota
    QNone = QNone
    QMaxSafe = 5
    QMaxMounts = 2
    QMaxMutations = 2
    AFilters = {f1}
    ANone = ANone
    APages <- MCAuditPages
    AFormats = {"json"}
    ADispositions <- MCDispositions
    AMaxSearches = 3
    AMaxExports = 2
    AMaxRequests = 4
    FTexts = {0, 5, 11}
    FNaN = FNaN
    FNone = FNone
    FMaxSaves = 2
    STyped = {"v"}
    SStored = {"v"}
    SMask = "mask"
    SBlank = ""
    SNone = SNone
    SMaxSends = 2
    CIds = {c1}
    CNone = CNone
    CPorts = {0}
    CMaxSends = 2
    RIds = {i1, i2}
    RNames = {"p", "q"}
    RPolicies = {"x", "y"}
    ROthers <- MCRolesOfOthers
    RNone = RNone
    RMaxSaves = 2
    Connections = {k1}
    Tables = {t1, t2}
    Columns = {a}
    NoneYet = NoneYet
    InitialPolicies <- MCPolicies
    MaxFilters = 1
    MaxMasks = 1
    VQuestions = {"q", "r"}
    VPolicies = {"p", "s"}
    VAllowed <- MCAllowed
    VBlank = ""
    VNone = VNone
    VMaxSends = 3
    EErrors <- MCErrors
    EDotted = {"error.forbidden", "error.internal", "error.notFound", "error.unauthorized"}
    ENone = ENone
    EMaxToasts = 2
    EMaxMounts = 2
INVARIANTS
    AdminTypeOK
    ConsoleIsTruthful
    ChangesAreExclusive
PROPERTIES
    DraftsAreKept
