CONSTANTS
    Slots = 2
    Kinds <- MCKinds
    Parts <- MCParts
    Batteries = {5}
    Saved <- MCSaved
    Reorder = FALSE
    Habits = {}
    MaxOpens = 2
    MaxFaults = 0
    MaxVisits = 1
SPECIFICATION Spec
CHECK_DEADLOCK FALSE
INVARIANT OneNodePerEndpoint
