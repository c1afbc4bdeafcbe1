CONSTANTS
    Types <- MCTypes
    Graphs <- MCGraphs
    Drawable <- MCDrawable
    Readings <- MCReadings
    Standby <- MCStandby
    Hold = 2
    MaxReports = 2
    MaxEdits = 1
    MaxDrops = 1
SPECIFICATION Spec
CHECK_DEADLOCK FALSE
INVARIANTS Balanced UnallocatedIsTheRest SameAsReload 
PROPERTY WarnsOnlyIfHeld
