CONSTANTS
    Slots <- MCSlots
    Requesters <- MCRequesters
    r1 = r1
    r2 = r2
    r3 = r3
    r4 = r4
    HandleInline = TRUE
    AcceptMayFail = FALSE
    StartMayThrow = FALSE
    PushMayThrow = FALSE
    BacklogLimit = 1
    MaxReady = 2
SPECIFICATION Spec
INVARIANT
    NoAcceptFailFast
CHECK_DEADLOCK FALSE
