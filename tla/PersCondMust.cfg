SPECIFICATION Spec
CONSTANTS
    a = a
    b = b
    c = c
    d = d
    arr = arr
    p = p
    q = q
    inner = inner
    outer = outer
    PersistenceTypes <- MCCondMust
    Tags <- MCTags
    Paths <- MCOnePath
    Scopes <- MCOneScope
    Arrays <- MCNone
    LinesOf <- MCNoFunction
    PerSetSize <- MCNoFunction
    CoTags <- MCNone
    CoTagsOfSetZero = 0
    LiangY = FALSE
    Assoc = 2
    MaxEntries = 1

INVARIANTS
    MissesWithinEntries
