SPECIFICATION Spec
CONSTANTS
    Values <- MCValues
    MaxLength = 6
    Slopes <- MCSlopes
    Offsets <- MCOffsets
    Stamps <- MCStamps
    Slacks <- MCSlacks
    Margin = 1
    MaxPings = 2
    Orders <- MCOrders
    Trigger = 1
    Times <- MCTimes
    MaxSwitches = 3
    MaxFaults = 1
INVARIANTS
    QuantilesTrue RowsTrue PairsTrue CaptureTrue
PROPERTIES ReportOnlyGrows
CHECK_DEADLOCK FALSE
