SPECIFICATION MCSpec
CONSTANTS
    Conns = {1, 2, 3}
    Fds = {1, 2, 3}
    MaxTries = 3
    IntMax = 11
    Cases <- MCCases
    Objs = {oa, ob}
SYMMETRY Symmetry
INVARIANTS
    TransportAsserts
    OneHolderEach
    KeepsTryingInTime
    PollerAgrees
    NobodySleeps
    AnswersExact
    CallsExact
CHECK_DEADLOCK FALSE
