\* The same clients; what follows a frame with an unknown tag.
SPECIFICATION Spec
CONSTANTS
    good = good
    bad = bad
    Conns <- MCConns
    FramesOf <- MCFramesOf
    MaxFrames <- MCMaxFrames
    UnknownMetrics = {5}
    BadTimes = {6}
    BadByte = 0
INVARIANT
    NoByteIsMisread
CHECK_DEADLOCK FALSE
