SPECIFICATION Spec
SYMMETRY Symmetry
CONSTANTS
    p1 = p1
    p2 = p2
    p3 = p3
    NoPipe = NoPipe
    Name = Name
    Pipes = {p1, p2, p3}
    Cases <- MCCases
    MaxIds = 3
    Hwm = 1
    QuietDisconnect = TRUE
    KeepsTurn = TRUE
INVARIANTS
    AssertionsHold
    NoForgottenPipe
    KeptWhole
    RightPeer
