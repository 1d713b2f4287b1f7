\* Both queues full: the loop waits for the worker and the worker for the loop.
CONSTANTS
    a = a
    b = b
    Clients = {a}
    Script <- FourOk
    Pipelining = TRUE
    Mishaps = {}
    NWorkers = 1
    TaskCapacity = 1
    PendingCapacity = 1
    MaxFds = 2
    MaxEvents = 1
    SockRoom = 1
    FileSize = 1
CHECK_DEADLOCK FALSE
SPECIFICATION FairSpec
PROPERTY SubmitReturns
