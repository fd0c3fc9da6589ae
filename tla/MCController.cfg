SPECIFICATION FairSpec
CONSTANTS
    NSEC_PER_SEC = 1
    NsPerTick = 2
    NSEC_PER_USEC = 3
    U32 = 14
    Clock = {0}
    MaxForeign = 1
    MaxStarts = 2
    InitialRate = 2
    InitialLatency = 1
    HBW = 120
    LBW = 8
    Devices <- MCDevices
    Programs <- Built
    bws <- MCPlan
INVARIANTS
    TypeOK
    InStep
    Adjacent
    AnswersCurrent
    WaitsForAnswer
PROPERTIES
    RoundEnds
CHECK_DEADLOCK FALSE
