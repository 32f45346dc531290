SPECIFICATION FairSpec
CONSTANTS
    e1 = e1
    e2 = e2
    e3 = e3
    Executor = {e1, e2, e3}
    MaxRequests = 2
    InOrder = TRUE
INVARIANTS
    TypeOK
    ServesToTheEnd
    NothingUnserved
    CountsPeers
PROPERTY AllClose
