SPECIFICATION Spec
CONSTANTS
    NSEC_PER_SEC = 2
    NsPerTick = 1
    U32 = 8
    TimeCap = 4
    Skbs <- GsoPackets
    Opts <- AllOpts
    Inners <- PfifoOnly
INVARIANTS
    TypeOK
    RateConformance
    PeakConformance
    AdmittedFits
    QlenExact
    BacklogExact
PROPERTIES
    WakesWhenReady
    BytesFollow
