CONSTANTS
    D0 = d0
    FollowUps = {d1, d2}
    NoTarget = NoTarget
    MaxInterrupts = 1
SPECIFICATION FairSpec
INVARIANTS
    DiagnosticTypeOK
    ResultTrue
    CapturesSeparate
PROPERTIES
    OneFollowUpPerD0
    EveryCaptureEnds
CHECK_DEADLOCK FALSE
