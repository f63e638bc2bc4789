SPECIFICATION Spec
CONSTANTS
    Blocks <- MCBlocks
    Functions <- MCFunctions
    FuncOf <- MCFuncOf
    Loops <- MCLoops
    Header <- MCHeader
    Body <- MCBody
    Options <- MCOptions
    EntryPoint = "main"
    EntryBlock <- MCEntryBlock
    Values <- MCValues
    Start = {0}
    Transferred <- MCTransferred
    Number <- MCNumber
    Callee <- MCCallee
    NoCall = "none"
    External = "external"
    Branches <- MCBranches
    Layout <- MCLayout
    FallsThrough <- MCFallsThrough
    ReturnBlocks = {"m3", "f4", "g0"}
    Returned <- MCReturned
INVARIANTS
    TypeOK NoAssertionFails ContextsFitBlocks WorklistComplete RunIsCovered
PROPERTY IterationEnds
CHECK_DEADLOCK FALSE
