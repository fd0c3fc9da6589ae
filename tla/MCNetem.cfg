SPECIFICATION FairSpec
\* A division by zero stops the machine.
CHECK_DEADLOCK FALSE
CONSTANTS
    NSEC_PER_SEC = 2
    NsPerTick = 1
    U32 = 3
    Lengths = {1, 2}
    MaxPackets = 3
    MaxTime = 3
    Plans <- MCPlans
INVARIANTS
    TypeOK
    QlenExact
    RatedSpacing
    WakesInTime
    TrapsOnlyAtZero
PROPERTIES
    EarliestFirst
    Drains
