SPECIFICATION Spec
CONSTANTS
    Executor = {0, 1}
    u1 = u1
    u2 = u2
    Unit = {u1}
    HomeBits = 3
    LsbBits = 2
    MaxMade = 5
INVARIANTS
    Distinct
CHECK_DEADLOCK FALSE
