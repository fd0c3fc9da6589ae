SPECIFICATION SpecLinkUp
CONSTANTS
    NSEC_PER_SEC = 2
    NsPerTick = 1
    U32 = 64
    TimeCap = 4
    Skbs <- PlainPackets
    Opts <- RateOpts
    Inners <- NoopOnly
INVARIANTS
    WakesInTime
