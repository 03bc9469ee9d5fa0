\* Three ticks of the clock; every pattern of unreadable files.
SPECIFICATION Spec
CONSTANTS
    Files = {"diskstats"}
    Gauges = {"load1"}
    MaxTime = 3
    MaxCount = 3
INVARIANTS
    TypeOK
    RatesNotNegative
    OutOfRangeOnlyByIowaitDrop
    ConsecutiveReadsGiveTrueRate
CHECK_DEADLOCK FALSE
