SPECIFICATION FairSpec
CONSTANTS
    Executor = {0, 1}
    Makers = {0}
    Homing = FALSE
    Patient = TRUE
    Handle = {h1, h2, h3}
    RcRange = 8
    Address = {a1, a2}
    a1 = a1
    a2 = a2
    h1 = h1
    h2 = h2
    h3 = h3
    v0 = v0
    Cell = {1, 2}
    Value = {v0}
    Default = v0
    Null = Null
PROPERTY CountTableRaceFree
