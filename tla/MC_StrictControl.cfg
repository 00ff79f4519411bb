CONSTANTS
    Clients = {"c"}
    Handles = {"c", "d", "s", "g", "h1", "e", "g2", "h2", "x"}
    Fds = {3}
    AllocShapes <- MCShapes
    Capacity = 16
    MaxGeneration = 13
    MaxHistory = 12
    MaxEvents = 11
    Slots = 3
    Settings = {"disabled", "timeslice"}
SPECIFICATION MCStrictSpec
INVARIANTS
    GroupSnapshotExact
    StrictValidIsRediscovery
    OwnObjectsOnly
    NothingLeftAltered
CHECK_DEADLOCK FALSE
CONSTRAINT ExploreComplete
