\* Up to five nodes; durations below, around and far above the floor; two
\* askings in the settled window, and some before and after it.
SPECIFICATION MCSpec
CONSTANTS
    Nodes = {1, 2, 3, 4, 5}
    Durations = {0, 1, 5, 9, 30}
    MadFloor = 1
    MinReportingNodes = 3
    Readings <- MCReadings
    Unread = Unread
    SampleInterval = 2
    PhaseStart = 6
    PhaseEnd = 8
    Radius = 3
    Window = 4
    NearestLimit = 5
    BaselineLimit = 6
    MaxSamples = 7
INVARIANTS
    ReportTypeOK
    FlaggedAreMinority
    ScaleInvariant
    SlowerStaysTop
PROPERTY
    CauseIsStable
CHECK_DEADLOCK FALSE
