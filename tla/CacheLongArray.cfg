SPECIFICATION Spec
CONSTANTS
    Tags <- MCThreeTags
    Assoc = 2
    NSets = 2
    LineWords = 4
    AddressSpace = 24
    Intervals <- MCLongArray
    Level = 1
    MaxWorthwhileTags = 2
PROPERTIES
    ImpreciseUpdateSpansSets
