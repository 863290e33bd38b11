SPECIFICATION Spec
CONSTANTS
    MaxStarts = 2
    MaxEvents = 3
    MaxViews = 2
INVARIANT BootstrapsOnce
CHECK_DEADLOCK FALSE
