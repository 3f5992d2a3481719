\* either role: a client with as many connections as its ConnectionLimit, or a
\* server growing 2 slots at a time up to 4 with 5 connections and failing commits
CONSTANTS
    ConnectionLimit = 5
    GrowthRate = 2
    ServerMaxConnections = 4
    Connections = {c1, c2, c3, c4, c5}
    CommitMayFail = TRUE

SPECIFICATION Spec
SYMMETRY MCSymmetry

INVARIANT TypeOK
INVARIANT SlotsDistinct
INVARIANT SlotsConserved
INVARIANT OwnIdIntact

\* a FAIL_FAST of the server's first growth stops the process
CHECK_DEADLOCK FALSE
