\* the socket of iocp_tcp: a failed connection must be reported as failed
CONSTANTS
    MaxTransfer = 2
    BufferSize = 1
    ConnectionIdLength = 1
    MaxOutstanding = 2
    ErrorCodes <- MCErrorCodes
    ThreadCount = 3
    RateLimited = TRUE
    HandleInlineIocp = TRUE

SPECIFICATION Spec

INVARIANT FailureReported

\* the IO phase ends once complete_state is called and every thread is idle
CHECK_DEADLOCK FALSE
