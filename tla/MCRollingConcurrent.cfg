\* Two updates of one process at the same time; no call fails.
CONSTANTS
    Updates = {u1, u2}
    Base = base
    MaxFaults = 0
    Concurrent = TRUE
SPECIFICATION Spec
INVARIANTS RolledBackLeavesOldRunning
CHECK_DEADLOCK FALSE
