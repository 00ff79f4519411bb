CONSTANTS
    Modes = {"none", "timeslice", "realtime-only", "realtime-restart", "preempt-wait",
             "preempt-async", "group-bound-none", "group-preempt-wait", "disable", "disable-split"}
    Trials = 2
    MaxSignals = 1
    MaxCrashes = 1
SPECIFICATION FairSpec
INVARIANTS
    ProtocolTypeOK
    ResultOfOwnCommand
    EvidenceOfRestoration
    EndsClean
    ResetNeverObserved
PROPERTY
    ControllerEnds
CHECK_DEADLOCK FALSE
