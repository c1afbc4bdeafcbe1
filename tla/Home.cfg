CONSTANTS
    Slots = 2
    Kinds <- MCKinds
    Parts <- MCParts
    Batteries = {5}
    Saved <- MCSaved
    Reorder = FALSE
    Habits = {"cancels"}
    MaxOpens = 3
    MaxFaults = 1
    MaxVisits = 2
SPECIFICATION Spec
CHECK_DEADLOCK FALSE
 
PROPERTIES  OwnCircuit NothingReplaced
