SPECIFICATION FairSpec
CONSTANTS
    Executor = {0, 1}
    PrivateMakers = {0, 1}
    PublicMakers = {1}
    Handle = {h1, h2}
    RcRange = 8
    Content = {v1}
    MaxLost = 1
    a1 = a1
    a2 = a2
    c1 = c1
    c2 = c2
    h1 = h1
    h2 = h2
    v0 = v0
    v1 = v1
    Address = {a1, a2}
    Cell = {c1, c2}
    Value = {v0, v1}
    Default = v0
    Null = Null
INVARIANTS
    TypeOK
    AssertsHold
    CountsConserved
    MemoryAccounted
    AnswersApart
    EntryRaceFree
PROPERTIES
    ImplementsMemory
    CallsReturn
    Reclaimed
