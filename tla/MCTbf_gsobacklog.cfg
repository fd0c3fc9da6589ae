SPECIFICATION SpecFixed
CONSTANTS
    NSEC_PER_SEC = 2
    NsPerTick = 1
    U32 = 8
    TimeCap = 4
    Skbs <- AllPackets
    Opts <- RateOpts
    Inners <- NoopOnly
INVARIANTS
    BacklogWithinLimit
