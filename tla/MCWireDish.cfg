SPECIFICATION MCSpec
CONSTANTS
    Cases <- AllCases
    Room = 3
    Batch = 2
    MaxConns = 2
    MaxTicks = 2
    Parts = {"udp"}
    UdpCases <- FullDish
INVARIANT DatagramAsserts
CHECK_DEADLOCK FALSE
