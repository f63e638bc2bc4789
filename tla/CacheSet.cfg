SPECIFICATION Spec
CONSTANTS
    a = a
    b = b
    c = c
    p = p
    q = q
    Tags <- MCTags
    Paths <- MCPaths
    AddressSets <- MCAddressSets
    Assoc = 2
    Level = 1
    MaxWorthwhileTags = 2
SYMMETRY MCSymmetry
INVARIANTS
    MustSound
    MaySound
    ClassificationSound
    HitAssumptionIsLegal
    StackBounded
    SubStackConcrete
    UpdateIsMonotone
