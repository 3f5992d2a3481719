\* UDP media-stream end: completed_task's success report
CONSTANTS
    Protocol = "UDP"
    MaxTransfer = 2
    BufferSize = 1
    ConnectionIdLength = 2
    MaxOutstanding = 2
    ErrorCodes <- MCErrorCodes

SPECIFICATION Spec

INVARIANT CompletionContract

CHECK_DEADLOCK FALSE
