SPECIFICATION Spec
CONSTANTS
    NSessions = 2
    Cleanups = {TRUE, FALSE}
    MaxStops = 1
    MaxRows = 4
    Nothing = Nothing
CHECK_DEADLOCK FALSE
INVARIANT NothingIncludedIsLost
PROPERTY ImplementsContract
