SPECIFICATION FairSpec
CONSTANTS
    Executor = {0, 1, 2}
    Makers = {0}
    Homing = FALSE
    Patient = TRUE
    Handle = {h1, h2, h3}
    RcRange = 8
    Address = {a1}
    a1 = a1
    h1 = h1
    h2 = h2
    h3 = h3
    v0 = v0
    Cell = {1}
    Value = {v0}
    Default = v0
    Null = Null
INVARIANTS
    TypeOK
    RcConservation
    Exact
    MemoryHeld
    DaemonAsserts
    HolderAsserts
    AnswersMatch
PROPERTIES
    ImplementsMemory
    Reclaimed
