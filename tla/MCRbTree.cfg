SPECIFICATION Spec
CONSTANTS
    Half = 16
    Nodes <- MCNodes
    Isn = 28
INVARIANTS
    RedBlack
    WalksInOrder
