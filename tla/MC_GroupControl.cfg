CONSTANTS
    JournalCapacity = 4
    MaxEpoch = 3
    MaxOperations = 3
SPECIFICATION Spec
INVARIANTS
    GroupTypeOK
    RequestsLicensed
    EvidenceCovers
PROPERTY
    ImplementsContract
CHECK_DEADLOCK FALSE
