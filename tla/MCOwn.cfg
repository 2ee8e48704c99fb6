SPECIFICATION Spec
CONSTANTS
    sock = sock  l1 = l1  a1 = a1  s1 = s1  s2 = s2  c1 = c1  c2 = c2  c3 = c3
    app = app  io1 = io1  io2 = io2  
    None = None
    Socket = sock
    Listener = {l1}
    Connected = {s1, s2}
    Accepted = {a1}
    Connecter = {c1, c2, c3}
    Pipe = {p1, p2, p3, p4}
    Tid <- MCTid
    Affinity <- MCAffinity
    Immediate = {TRUE, FALSE}
    Linger = 1
    MaxEndpoints = 1
INVARIANTS OwnershipSound NoUseAfterDelete NoHang
CHECK_DEADLOCK FALSE
