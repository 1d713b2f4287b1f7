\* A peer that resets while its response is being written.
CONSTANTS
    a = a
    b = b
    Clients = {a}
    Script <- FileThenOk
    Pipelining = FALSE
    Mishaps = {"rst"}
    NWorkers = 1
    TaskCapacity = 1
    PendingCapacity = 1
    MaxFds = 2
    MaxEvents = 1
    SockRoom = 1
    FileSize = 1
SPECIFICATION Spec
INVARIANT ModifiesOnlyRegistered
