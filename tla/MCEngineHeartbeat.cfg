SPECIFICATION Spec
CONSTANTS
    Cases <- HeartbeatCases
    Room = 3
    Batch = 2
    MaxConns = 2
    MaxTicks = 2
INVARIANT NoProtocolError
CHECK_DEADLOCK FALSE
