\* Three requests for two projects, one of which can be deleted and made again, and a fault.
CONSTANTS
    Requests = {r1, r2, r3}
    Base = base
    Ids = {p1, p2}
    Default = default
    MaxFaults = 1
SYMMETRY Symmetry
SPECIFICATION Spec
INVARIANTS TypeOK GoneLeavesNothing Accounted UndisturbedSucceeds VariablesKept VariablesReachContainers
CHECK_DEADLOCK FALSE
