\* sender.hpp's "reconnecting on failure" against a peer that closes.
SPECIFICATION Spec
CONSTANTS
    MaxQueueSize = 2
    MaxBatchSize = 2
    MaxRecords = 4
    MaxFaults = 1
INVARIANT
    SurvivesPeerClose
CHECK_DEADLOCK FALSE
