SPECIFICATION Spec
CONSTANTS
    a1 = a1
    a2 = a2
    v1 = v1
    p1 = p1
    p2 = p2
    None = None
    Writers = {a1}
    Auditors = {v1}
    Purgers = {p1}
    Retention = 1
    MaxSeq = 5
    MaxTime = 5
INVARIANT ChainIsSound
INVARIANT LinearChain
PROPERTY RetentionRespected
