SPECIFICATION Spec
CONSTANTS
    a = a
    b = b
    p1 = p1
    p2 = p2
    p3 = p3
    NoPipe = NoPipe
    Links = {a, b}
    First = a
    PubPipes = {p1, p2, p3}
    Cases <- AllCases
    Prefixes <- TwoPrefixes
    Topics <- TwoTopics
    Covers <- Begins
    Hwm = 1
    ManualTerminates = FALSE
    DishReconnects = FALSE
CHECK_DEADLOCK FALSE
INVARIANTS
    AssertionsHold
    AudienceExact
    WholeMessages
    FiltersAgree
