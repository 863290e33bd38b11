SPECIFICATION SelectionSpec
CONSTANTS
    h1 = h1
    h2 = h2
    h3 = h3
    g3 = g3
    g5 = g5
    NoHash = NoHash
    Origin = Origin
    Headers <- MCHeaders
    Slot <- MCSlot
    Parent <- MCParent
    Extra <- MCExtra
INVARIANTS
    ChainIsLinked
    NextIsTheChild
PROPERTIES
    ImplementsBestChain
