SPECIFICATION FairShaper
CONSTANTS
    NSEC_PER_SEC = 2
    NsPerTick = 1
    U32 = 64
    TimeCap = 6
    Skbs <- UpToThree
    Opts <- ShaperOpts
    Inners <- NoopOnly
    Initial <- TcOpt
    Plan <- Rounds
    nbws = 2
    First = 1
INVARIANTS
    HeadFits
    NoLostWakeup
    LimitInForce
    BacklogExact
PROPERTY
    Progress
