CONSTANTS
    Nodes = {1}
    Endpoints = {0, 1}
    Root = 0
    Faults = {"open", "write", "rename", "read"}
    MaxRequests = 3
    MaxRestarts = 1
    MaxFaults = 1
SPECIFICATION Spec
CHECK_DEADLOCK FALSE
INVARIANT AnsweredIsSaved
