\* Two writes of up to two rows, two faults, any number of refreshes.
SPECIFICATION FairSpec
CONSTANTS
    p = p
    q = q
    Pairs <- MCPairs
    Rows <- MCRows
    Width <- MCWidth
    MaxBatch = 2
    MaxWrites = 2
    MaxFaults = 2
INVARIANTS
    TypeOK
    AcknowledgedIsDurable
    RollupsAreWithinRaw
    ResolutionsAgree
PROPERTIES
    RawRowsArePermanent
    RollupsCatchUp
CHECK_DEADLOCK FALSE
