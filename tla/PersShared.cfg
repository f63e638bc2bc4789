SPECIFICATION Spec
CONSTANTS
    a = a
    b = b
    c = c
    d = d
    arr = arr
    p = p
    q = q
    inner = inner
    outer = outer
    PersistenceTypes <- MCCountingTypes
    Tags <- MCFourTags
    Paths <- MCOnePath
    Scopes <- MCScopes
    Arrays <- MCArrays
    LinesOf <- MCLinesOf
    PerSetSize <- MCPerSetSize
    CoTags <- MCCoTags
    CoTagsOfSetZero = 1
    LiangY = TRUE
    Assoc = 3
    MaxEntries = 2
SYMMETRY MCSharedSymmetry
INVARIANTS
    AgeWithinConflicts
    LineMissesWithinEntries
