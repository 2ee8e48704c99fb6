SPECIFICATION MCSpec
CONSTANTS
    Value = {a, b}
    MaxItems = 5
    Chunk = {c1, c2, c3, c4}
    N = 2
    Null = Null
    Junk = Junk
SYMMETRY Symmetry
INVARIANTS StructuresSound NoSharedCell NoLostWakeup
PROPERTIES ImplementsYPipe FlushedIsRead ImplementsUPipe
CHECK_DEADLOCK FALSE
