\* the settings of main.cfg: a frame size that is not the configured rate
CONSTANTS
    Iterations = 2
    ConnectionLimit = 2
    ConnectionThrottleLimit = 1
    ServerExitLimit = 3
    AcceptLimit = 2
    UlongBits = 7
    IntBits = 2
    MediaStreamInputs <- MCMediaStreamInputs

SPECIFICATION Spec

INVARIANT FrameSizeMatchesRate

\* wmain returns or the process fails fast: the process stops
CHECK_DEADLOCK FALSE
