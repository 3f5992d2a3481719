\* 4 bytes per 3 ms, sends of 1, 3 or 9 bytes, 5 sends over 10 ms
CONSTANTS
    BytesSendingPerQuantum = 4
    QuantumPeriodMs = 3
    BufferSizes <- MCBufferSizes
    MaxTimeMs = 10
    MaxSends = 5

SPECIFICATION Spec

INVARIANT TypeOK
INVARIANT ReleasesInOrder
INVARIANT QuantaPaceSends

\* the pattern stops sending once its transfer is done
CHECK_DEADLOCK FALSE
