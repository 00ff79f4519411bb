CONSTANTS
    Plan <- TwoPairs
    MaxAttempts = 2
    Executors = {e1, e2}
    MaxInterrupts = 2
SPECIFICATION FairSpec
INVARIANTS
    BatchTypeOK
    LedgerTrue
    OneGroupAtATime
PROPERTIES
    LedgerNeverForgets
    SpawnLicensed
    EveryExecutorEnds
CHECK_DEADLOCK FALSE
