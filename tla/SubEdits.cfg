CONSTANTS
    Nodes = {n1, n2}
    NoNode = NoNode
    SleepyNodes = {n1}
    Ids = {1}
    MeteredNodes = {n1}
    OtherNodes = {}
    TariffNode = n1
    MaxNodes = 1
    MaxInFlight = 1
    QueueDepth = 2
    SlowAttempts = FALSE
    MaxFaults = 1
    MaxEvents = 2
SPECIFICATION FairSpec
CHECK_DEADLOCK FALSE
PROPERTIES  WorkerNeverStuck
