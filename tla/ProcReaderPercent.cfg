SPECIFICATION Spec
CONSTANTS
    Files = {"diskstats"}
    Gauges = {"load1"}
    MaxTime = 3
    MaxCount = 3
INVARIANT
    PercentagesInRange
CHECK_DEADLOCK FALSE
