\* a sender over every request of 20..300 bytes with 60-byte datagrams, or a
\* receiver of every frame the protocol builds, runts and START requests
CONSTANTS
    FlagLength = 2
    FieldLength = 8
    MaximumSizeBytes = 60
    Requests <- MCRequests
    MaxDatagrams = 8
    ConnectionIdLength = 4
    StartLength = 5
    Values = {v1, v2}
    ConnectionIds = {c1, c2}
    PayloadLengths <- MCPayloadLengths
    Offsets = {0}
    RecvBufferLength <- MCRecvBufferLength

SPECIFICATION Spec

INVARIANT TypeOK
INVARIANT DatagramsWellFormed
INVARIANT RequestSentExactly
INVARIANT AcceptsExactlyProtocolFrames
INVARIANT ReadsWithinDatagram
INVARIANT SequenceAndIdRoundTrip

PROPERTY EventuallyEnd

\* the sender's loop stops at end(); the receiver may stop receiving
CHECK_DEADLOCK FALSE
