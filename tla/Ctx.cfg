SPECIFICATION Spec
CONSTANTS
    Sock = {a, b}
    Pair = {p1, p2}
    MaxConns = 2
    Addr = {x}
    RecvIdentity = {a}
    Binder = {b}
    Connecter = {a}
    NoDelay = {b}
    MaxSockets = 4
    None = None
INVARIANTS ContextSound NoMissedBind TermReturns
CHECK_DEADLOCK FALSE
