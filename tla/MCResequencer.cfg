SPECIFICATION SpecBounded
CONSTANTS
    Half = 16
    Flows <- TwoFlows
    Packets <- MixedPackets
    Isn <- WrapsAtThree
    FBUF_SIZ = 4
    MaxCount = 7
INVARIANTS
    TypeOK
    SizeExact
    NothingDueWaits
    GapExact
CHECK_DEADLOCK FALSE
