CONSTANTS
    Nodes = {n1}
    NoNode = NoNode
    SleepyNodes = {n1}
    Ids = {1, 2}
    MeteredNodes = {n1}
    OtherNodes = {}
    TariffNode = NoNode
    MaxNodes = 1
    MaxInFlight = 2
    QueueDepth = 2
    SlowAttempts = TRUE
    MaxFaults = 1
    MaxEvents = 2
SPECIFICATION Spec
CHECK_DEADLOCK FALSE
INVARIANTS TypeOK NoPhantomSubscription PendingIsOwned SlotsAreOwned
PROPERTY ImplementsRegister
