SPECIFICATION Spec
CONSTANTS
    Wiring <- MCWiring
    Dates = {"yesterday", "today"}
    Today = "today"
    Recorded <- MCRecorded
    DayEnd <- MCDayEnd
    Energy <- MCEnergy
    GridStreams = {"meter"}
    SolarStreams = {"sun"}
    LoadStreams = {"oven"}
    MaxSelects = 2
    MaxPowerFaults = 1
    Names = {"a"}
    Paired <- MCPaired
    Impatient = FALSE
    MaxDeviceActs = 2
    MaxDeviceFaults = 1
    BaseRetry = 2
    MaxRetry = 3
    Visits = {1, 2}
    SlotsPerDay = 2
    MaxClock = 2
    MaxDrops = 2
    MaxLoads = 1
    MaxGotos = 3
    MaxEvents = 2
INVARIANTS ChartsShowTheDay GapsAreFlagged  
INVARIANTS OneConnection BacksOff PriceIsOfLastLoad
PROPERTIES ChartsSettle Reconnects
CHECK_DEADLOCK FALSE
