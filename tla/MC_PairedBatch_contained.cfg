CONSTANTS
    Plan <- OnePair
    MaxAttempts = 1
    Executors = {e1}
    MaxInterrupts = 2
SPECIFICATION FairSpec
INVARIANT
    GroupContained
CHECK_DEADLOCK FALSE
