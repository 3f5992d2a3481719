\* every frame the protocol builds, runts and START requests, received at offset 0
CONSTANTS
    FlagLength = 2
    FieldLength = 8
    ConnectionIdLength = 4
    StartLength = 5
    Values = {v1, v2}
    ConnectionIds = {c1, c2}
    PayloadLengths <- MCPayloadLengths
    Offsets = {0}
    RecvBufferLength <- MCRecvBufferLength

SPECIFICATION Spec





INVARIANT TimestampRoundTrip
