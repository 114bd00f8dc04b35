CONSTANTS
    Runs = {r1, r2, r3}
    MaxFaults = 2
SPECIFICATION Spec
INVARIANTS
    OneEdgeUnlessRaced
    StaleLockYields
PROPERTIES
    HeldLockStands
CHECK_DEADLOCK FALSE
