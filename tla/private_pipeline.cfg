SPECIFICATION Spec
CONSTANTS
    Executor = {0, 1, 2}
    Makers = {0}
    Readers = {0, 1, 2}
    Rewriters = {0, 1, 2}
    Routes <- Ascending
    a1 = a1
    a2 = a2
    c1 = c1
    c2 = c2
    v0 = v0
    v1 = v1
    Address = {a1, a2}
    Cell = {c1, c2}
    Value = {v0, v1}
    Default = v0
    Null = Null
SYMMETRY Interchangeable
INVARIANTS
    TypeOK
    SoleCapability
    DaemonAsserts
    UserAsserts
    NoDanglingChild
    NoLeak
    EntryRaceFree
    IInv
PROPERTY ImplementsMemory
