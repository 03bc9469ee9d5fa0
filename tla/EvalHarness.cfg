\* One interruption of the harness, at any step; jobs are slow at will.
SPECIFICATION FairSpec
CONSTANTS
    Hosts <- MCHosts
    Fault <- MCFault
    Target <- MCTarget
    DetectionBound <- MCDetectionBound
    FalseFlagBound <- MCFalseFlagBound
    NoFaultBound <- MCNoFaultBound
    MaxInterruptions = 1
INVARIANTS
    TypeOK
    EvidenceIsWhole
    SharingHasACause
    InterruptionCostsOneJob
PROPERTIES
    VerdictIsFinal
    EveryTrialIsFiled
