SPECIFICATION Spec
CONSTANTS
    a = a
    b = b
    c = c
    d = d
    arr = arr
    p = p
    q = q
    inner = inner
    outer = outer
    PersistenceTypes <- MCSetWise
    Tags <- MCTags
    Paths <- MCOnePath
    Scopes <- MCOneScope
    Arrays <- MCArrays
    LinesOf <- MCLinesOf
    PerSetSize <- MCPerSetSize
    CoTags <- MCNone
    CoTagsOfSetZero = 0
    LiangY = FALSE
    Assoc = 2
    MaxEntries = 1

INVARIANTS
    MissesWithinEntries
