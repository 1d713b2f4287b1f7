\* Two clients that wait for each answer and stay, and queues as large as the requests in flight.
CONSTANTS
    a = a
    b = b
    Clients = {a, b}
    Script <- Sessions
    Pipelining = FALSE
    Mishaps = {}
    NWorkers = 2
    TaskCapacity = 2
    PendingCapacity = 2
    MaxFds = 3
    MaxEvents = 2
    SockRoom = 1
    FileSize = 1
SPECIFICATION FairSpec
PROPERTIES
    AnswersInOrder
    AnswersArrive
    StopEndsRun
