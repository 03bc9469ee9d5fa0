SPECIFICATION FairSpec
CONSTANTS
    JobIds = {j1}
    Hosts = {n1, n2}
    MaxPhases = 2
    MaxCrashes = 1
    NoFault = NoFault
INVARIANTS
    TypeOK
    BarrierHolds
    CompletedAnswerIsComplete
PROPERTIES
    JobEnds
    ImplementsBarrier
CHECK_DEADLOCK FALSE
