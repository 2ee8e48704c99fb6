SPECIFICATION MCSpec
CONSTANTS
    Cases <- AllCases
    Room = 3
    Batch = 2
    MaxConns = 2
    MaxTicks = 2
    Parts = {"engine", "codec", "udp", "norm"}
    UdpCases <- MCUdpCases
INVARIANTS WireAsserts Authorised SessionSound EnginesGoOn MessagesIntact
CHECK_DEADLOCK FALSE
