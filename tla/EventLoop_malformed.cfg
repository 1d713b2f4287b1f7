\* A malformed request on a connection whose client waits for the close.
CONSTANTS
    a = a
    b = b
    Clients = {a}
    Script <- OneBad
    Pipelining = FALSE
    Mishaps = {}
    NWorkers = 1
    TaskCapacity = 1
    PendingCapacity = 1
    MaxFds = 2
    MaxEvents = 1
    SockRoom = 1
    FileSize = 1
SPECIFICATION FairSpec
PROPERTY MalformedIsClosed
