SPECIFICATION Spec
CONSTANTS
    h1 = h1
    h2 = h2
    g2 = g2
    g4 = g4
    NoHash = NoHash
    Origin = Origin
    Headers <- MCHeaders
    Slot <- MCSlot
    Parent <- MCParent
    Extra <- MCExtra
    HashRank <- MCHashRank
INVARIANTS
    TypeOK
    LinksMatchHeaders
    ReadsStayInTheirTable
    GroupsMatchLinks
PROPERTIES
    RollbackIsAtomic
