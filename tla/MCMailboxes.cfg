SPECIFICATION MCSpec
CONSTANTS
    Sender = {"1", "2", "3"}
    Sends = 2
    Receivers = {"1", "2"}
    Pollers = {"3"}
INVARIANTS NobodyForgotten NotUsedAfterDestroy
PROPERTIES AllReceivedInTheEnd
CHECK_DEADLOCK FALSE
