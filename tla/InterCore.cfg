SPECIFICATION Spec
CONSTANTS
    L2assoc = 3
    SetOf <- MCSetOf
    Tasks <- MCTasks
    MaxPath = 20
    CoRunnerPaths <- MCCoRunnerPaths
INVARIANTS
    MatchingsWithinBound
    EvictionsWithinOuts
    CeopsCoverRuns
CHECK_DEADLOCK FALSE
