CONSTANTS
    LastDay = 2
    Streams = {"grid", "load"}
    Grid = "grid"
    Priced = {0}
    MaxDepth = 1
    MaxSpan = 2
    MaxSamples = 3
    MaxRequests = 1
    MaxEdits = 1
    MaxFaults = 1
SPECIFICATION Spec
CHECK_DEADLOCK FALSE
INVARIANTS NothingSampledIsLost MissesAtMostAMinute 
