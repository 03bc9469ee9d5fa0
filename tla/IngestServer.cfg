\* Two clients with two and one frames: every cut of the byte streams.
SPECIFICATION FairSpec
CONSTANTS
    good = good
    bad = bad
    Conns <- MCConns
    FramesOf <- MCFramesOf
    MaxFrames <- MCMaxFrames
    UnknownMetrics = {5}
    BadTimes = {6}
    BadByte = 0
INVARIANTS
    TypeOK
    DecodesWhatWasSent
    CompleteFramesStored
    EofReasonIsTrue
PROPERTY
    HangupIsNoticed
CHECK_DEADLOCK FALSE
