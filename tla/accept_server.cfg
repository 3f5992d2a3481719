CONSTANTS
    Slots <- MCSlots
    Requesters <- MCRequesters
    r1 = r1
    r2 = r2
    r3 = r3
    r4 = r4
    HandleInline = FALSE
    AcceptMayFail = FALSE
    StartMayThrow = TRUE
    PushMayThrow = TRUE
    BacklogLimit = 1
    MaxReady = 2
SPECIFICATION Spec
INVARIANTS
    QueuesExclusive
    PendedMatchesWaiting
    AcceptedConnectionsConserved
PROPERTIES
    EveryRequestAnswered
CHECK_DEADLOCK FALSE
