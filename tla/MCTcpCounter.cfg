SPECIFICATION SpecBounded
CONSTANTS
    Half = 8
    Ports <- SmallPorts
    Packets <- SmallPackets
    Isn <- SmallIsn
    MaxLog = 5
INVARIANTS
    TypeOK
    CountExact
PROPERTY
    CountsReordering
CHECK_DEADLOCK FALSE
