SPECIFICATION Spec
CONSTANTS
    MaxStarts = 2
    MaxEvents = 3
    MaxViews = 2
INVARIANT AtMostOneNode
CHECK_DEADLOCK FALSE
