SPECIFICATION Spec
CONSTANTS
    MaxStarts = 2
    MaxEvents = 3
    MaxViews = 2
INVARIANTS
    TypeOK
    AliveIsAccountedFor
    StatusSettles
    CaughtUpTipIsFresh
    RefusedOnlyAfterRace
PROPERTY LastSeenIsShown
