\* the roles of broker.cfg, interrupted by Ctrl-C
CONSTANTS
    Iterations = 2
    ConnectionLimit = 2
    ConnectionThrottleLimit = 1
    ServerExitLimit = 3
    AcceptLimit = 2

SPECIFICATION Spec

PROPERTY NoTimerCreateAfterInterrupt

\* main returns once Wait does: the process stops
CHECK_DEADLOCK FALSE
