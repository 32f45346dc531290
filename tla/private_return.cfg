SPECIFICATION Spec
CONSTANTS
    Executor = {0, 1}
    Makers = {0}
    Readers = {1}
    Rewriters = {1}
    Routes <- AnyRoute
    a1 = a1
    a2 = a2
    c1 = c1
    c2 = c2
    v0 = v0
    v1 = v1
    Address = {a1}
    Cell = {c1, c2}
    Value = {v0}
    Default = v0
    Null = Null
SYMMETRY Interchangeable
INVARIANT DaemonAsserts
