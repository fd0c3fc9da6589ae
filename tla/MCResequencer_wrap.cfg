SPECIFICATION SpecBounded
CONSTANTS
    Half = 16
    Flows <- TwoFlows
    Packets <- MixedPackets
    Isn <- WrapsAtThree
    FBUF_SIZ = 2
    MaxCount = 4
PROPERTY
    LowestMakesRoom
CHECK_DEADLOCK FALSE
