\* Two updates of one process, one after the other, hit by up to three faults.
CONSTANTS
    Updates = {u1, u2}
    Base = base
    MaxFaults = 3
    Concurrent = FALSE
SPECIFICATION Spec
INVARIANTS TypeOK ServiceKept ServiceInv NoLeftovers RowDescribesProd RegisteredPassed
    HandoverInv RegisteredServes
PROPERTIES HandsOver
CHECK_DEADLOCK FALSE
