\* A buffer of two bytes, data of up to five, any legal calls.
CONSTANTS
    InitialCapacity = 2
    MaxLength = 5
    MaxReserve = 5
    MaxBytes = 9
SPECIFICATION FairSpec
INVARIANTS
    TypeOK
    BytesInOrder
    CapacityIsNeeded
PROPERTY EnqueueReturns
