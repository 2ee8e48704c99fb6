SPECIFICATION Spec
CONSTANTS
    p1 = p1
    p2 = p2
    p3 = p3
    NoPipe = NoPipe
    Name = Name
    Pipes = {p1, p2, p3}
    Cases <- Reading
    MaxIds = 0
    Hwm = 1
    QuietDisconnect = TRUE
    KeepsTurn = FALSE
INVARIANT
    AssertionsHold
