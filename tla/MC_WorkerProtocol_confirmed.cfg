CONSTANTS
    Modes = {"disable-split", "timeslice"}
    Trials = 1
    MaxSignals = 0
    MaxCrashes = 1
SPECIFICATION FairSpec
INVARIANT
    ClaimIsConfirmed
CHECK_DEADLOCK FALSE
