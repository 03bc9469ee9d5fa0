\* sender.hpp's drop policy against the interleaving of Enqueue and RunLoop.
SPECIFICATION Spec
CONSTANTS
    MaxQueueSize = 2
    MaxBatchSize = 2
    MaxRecords = 4
    MaxFaults = 0
INVARIANT
    LostOnlyByEviction
CHECK_DEADLOCK FALSE
