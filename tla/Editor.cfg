CONSTANTS
    Saved <- MCSaved
    FirstNumber = 6
    MaxNumber = 9
    Endpoints = {"e1", "e2"}
    MaxInUse = 16
    StartCircuits = 1
    MaxCircuits = 2
    Reorder = FALSE
    Habits = {}
    MaxGestures = 2
    MaxLost = 1
    MaxVisits = 2
SPECIFICATION Spec
CHECK_DEADLOCK FALSE
INVARIANTS  ClaimedOnce
PROPERTY NeverOverwrites
