SPECIFICATION Spec
CONSTANTS
    Tags <- MCTwoTags
    Assoc = 1
    NSets = 4
    LineWords = 2
    AddressSpace = 16
    Intervals <- MCArrays
    Level = 1
    MaxWorthwhileTags = 1
INVARIANTS
    EverySetIsDescribed
    IntervalClassificationSound
    PersistentInEverySet
