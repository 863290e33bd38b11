SPECIFICATION Spec
CONSTANTS
    Accounts = {a1, a2}
    Dreps <- MCDreps
    Base = 4
    MaxClock = 12
SYMMETRY MCSymmetry
INVARIANTS TypeOK DelegationFollowsTheRules LinksAreDelegators
CHECK_DEADLOCK FALSE
