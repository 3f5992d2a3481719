\* either role of broker.cfg inside the process, with and without a time
\* limit, after a TCP or media-stream startup; a 2-bit int so that four
\* failed connections exceed MAXINT
CONSTANTS
    Iterations = 2
    ConnectionLimit = 2
    ConnectionThrottleLimit = 1
    ServerExitLimit = 3
    AcceptLimit = 2
    UlongBits = 7
    IntBits = 2
    MediaStreamInputs <- MCMediaStreamInputs

SPECIFICATION Spec

INVARIANT TypeOK
INVARIANT NoCounterUnderflow
INVARIANT CountersMatchSockets
INVARIANT ConnectionLimitRespected
INVARIANT DoneMeansAllFinished
INVARIANT ExitCodeReportsErrors
INVARIANT TransferSizeConsistent

PROPERTY EventuallyReturns

\* wmain returns or the process fails fast: the process stops
CHECK_DEADLOCK FALSE
