SPECIFICATION Spec
CONSTANTS
    Code <- MCCode
    Loops = {"first", "calling", "second"}
    LoopBlocks <- MCLoopBlocks
    EntryPoints = {1, 15}
    MaxAccessId = 4
INVARIANTS
    TypeOK NoAssertionFails InProgramOrder PortsServePipeline ScopesFollowFlow
PROPERTIES FastForwardSound EveryInstructionRetires
CHECK_DEADLOCK FALSE
