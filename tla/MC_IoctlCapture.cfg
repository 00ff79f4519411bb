CONSTANTS
    Clients = {"c", "d"}
    Handles = {"c", "d", "g", "h", "e"}
    Fds = {3, 4, 5}
    AllocShapes <- MCShapes
    Capacity = 3
    MaxGeneration = 9
    MaxHistory = 9
    ObservationCapacity = 4
    MaxOpens = 2
    MaxHidden = 1
SPECIFICATION CaptureSpec
INVARIANTS
    TypeOK
    GraphSound
    ControlReachesItsFile
    OneDescriptorPerClient
    CompleteMirrorsDriver
CHECK_DEADLOCK FALSE
CONSTRAINT ExploreComplete
