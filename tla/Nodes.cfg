CONSTANTS
    Kinds = {"commission", "delete"}
    Paired = {1, 2}
    FirstFree = 3
    Again = FALSE
    MaxRequests = 3
    MaxFaults = 1
SPECIFICATION FairSpec
CHECK_DEADLOCK FALSE
INVARIANT RemovedMeansLeft
PROPERTIES RequestReturns 
