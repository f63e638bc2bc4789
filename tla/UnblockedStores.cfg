SPECIFICATION Spec
CONSTANTS
    MaxId = 9
    ServiceTime <- MCServiceTime
    MaxBlockingPerAccess = 1
    Policies <- MCUnblockedNonAllocating
    InstrLatency = 1
    DataLatency = 2
    L2Latency = 1
    TimingAnomalyAnalysis = TRUE
    MaxWork = 3
    MaxAccesses = 1
INVARIANT NoAccessRejected
CHECK_DEADLOCK FALSE
