SPECIFICATION Spec
CONSTANTS
    t1 = t1
    t2 = t2
    t3 = t3
    b1 = b1
    b2 = b2
    b3 = b3
    Thread = {t1, t2, t3}
    Block = {b1, b2, b3}
    Null = Null
SYMMETRY Interchangeable
INVARIANTS
    AssertsHold
    LeaksTold
    IInv
