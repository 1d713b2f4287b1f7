\* Five threads on a queue of two, so that each condition variable can have
\* several sleepers, and be overtaken by try_push, try_pop and close.
CONSTANTS
    Threads = {t1, t2, t3, t4, t5}
    Capacity = 2
    MaxPushes = 4
SPECIFICATION FairSpec
INVARIANTS
    TypeOK
    Fifo
    NoLostWakeup
PROPERTIES
    CloseUnblocksEveryone
    ImplementsBoundedQueue
