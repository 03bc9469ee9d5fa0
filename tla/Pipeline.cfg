\* The queue overflows while a batch is in flight; two network faults.
SPECIFICATION PipeFairSpec
CONSTANTS
    MaxQueueSize = 3
    MaxBatchSize = 2
    MaxRecords = 6
    MaxFaults = 2
INVARIANTS
    TypeOK
    QueueIsLatest
    LossCounted
    NoResend
    GapsAreExplained
PROPERTIES
    TransferSpec
    DeliverySpec
    QueuedIsStored
    StopReturns
CHECK_DEADLOCK FALSE
