\* Clients that pipeline and leave at any moment, two descriptors for two of them, and a send
\* buffer of two units for responses of three.
CONSTANTS
    a = a
    b = b
    Clients = {a, b}
    Script <- Faults
    Pipelining = TRUE
    Mishaps = {"fin", "rst", "start"}
    NWorkers = 2
    TaskCapacity = 2
    PendingCapacity = 3
    MaxFds = 2
    MaxEvents = 2
    SockRoom = 2
    FileSize = 2
SPECIFICATION Spec
INVARIANTS
    TypeOK
    FileOwnedOnce
    TableMatchesEpoll
    PendingIsAnnounced
    InputIsAnnounced
    OutputIsAnnounced
    UnitsInOrder
    BacklogIsAnnounced
    RequestInOnePlace
