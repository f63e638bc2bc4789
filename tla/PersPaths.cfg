SPECIFICATION Spec
CONSTANTS
    a = a
    b = b
    c = c
    d = d
    arr = arr
    p = p
    q = q
    inner = inner
    outer = outer
    PersistenceTypes <- MCCountingTypes
    Tags <- MCTags
    Paths <- MCPaths
    Scopes <- MCOneScope
    Arrays <- MCNone
    LinesOf <- MCNoFunction
    PerSetSize <- MCNoFunction
    CoTags <- MCNone
    CoTagsOfSetZero = 0
    LiangY = FALSE
    Assoc = 2
    MaxEntries = 1
SYMMETRY MCSymmetry
INVARIANTS
    MissesWithinEntries
    JoinIsUpperBound
    UpdateIsMonotone
