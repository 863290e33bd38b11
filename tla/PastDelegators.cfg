SPECIFICATION Spec
CONSTANTS
    Accounts = {a1}
    Dreps <- MCDreps
    Base = 4
    MaxClock = 12
INVARIANT EveryPastDelegatorIsReset
CHECK_DEADLOCK FALSE
