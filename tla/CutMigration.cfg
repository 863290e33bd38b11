SPECIFICATION Spec
CONSTANTS
    h1 = h1
    h2 = h2
    h3 = h3
    g2 = g2
    NoHash = NoHash
    MaxVersion = 3
    Headers <- MCHeaders
    Parent <- MCParent
INVARIANT OpenIsComplete
