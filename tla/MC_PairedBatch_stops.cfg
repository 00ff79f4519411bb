CONSTANTS
    Plan <- OnePair
    MaxAttempts = 1
    Executors = {e1}
    MaxInterrupts = 2
SPECIFICATION FairSpec
PROPERTY
    InterruptStops
CHECK_DEADLOCK FALSE
