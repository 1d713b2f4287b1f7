\* Three workers and two clients on a queue of two, and a log with room for one record: pool,
\* clients and workers can all wait, and a client can be inside submit() at the shutdown.
CONSTANTS
    NWorkers = 3
    Clients = {c1, c2}
    Capacity = 2
    MaxTasks = 2
    LogLevel = "info"
    LogCapacity = 1
SPECIFICATION LoggedSpec
INVARIANTS
    TypeOK
    TaskInOnePlace
    ShutdownDrains
    RecordsWritten
PROPERTIES
    AcceptedTaskFinishes
    ShutdownReturns
