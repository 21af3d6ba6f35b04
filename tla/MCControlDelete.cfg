\* An update and a delete request race; nothing fails.
CONSTANTS
    Updates = {u1}
    Base = base
    MaxFaults = 0
    Concurrent = FALSE
    Clients = {r1}
    OneByOne = FALSE
    MaxExits = 0
    MaxCrashes = 0
SPECIFICATION ControlSpec
INVARIANTS DeletedLeavesNothing
CHECK_DEADLOCK FALSE
