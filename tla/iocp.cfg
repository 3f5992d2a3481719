\* one TCP socket under either IO function and either role: 3 bytes in IOs of up to 2,
\* 2 posted at once, 3 threads, rate-limited sends (send/recv) or file IO (read/write)
CONSTANTS
    MaxTransfer = 3
    BufferSize = 2
    ConnectionIdLength = 1
    MaxOutstanding = 2
    ErrorCodes <- MCErrorCodes
    ThreadCount = 3
    RateLimited = TRUE
    HandleInlineIocp = TRUE

SPECIFICATION Spec

INVARIANT TypeOK
INVARIANT NoRefcountFailFast
INVARIANT CompleteStateOnce
INVARIANT CompleteStateAfterLastIo
INVARIANT SuccessReported
INVARIANT PatternNoFailFast
INVARIANT PatternInflightAccounting
INVARIANT PatternOneProtocolTaskAtATime
INVARIANT PatternCompletionContract

PROPERTY EventuallyStateCompleted
PROPERTY ConnectionRefinement

\* the IO phase ends once complete_state is called and every thread is idle
CHECK_DEADLOCK FALSE
