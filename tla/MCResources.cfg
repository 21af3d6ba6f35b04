\* Two clients, each with any number of requests and deployments, on one resource
\* that can be made twice; a fault or a crash.
CONSTANTS
    Clients = {c1, c2}
    Ids = {i1, i2}
    NoId = none
    Apps = {a1}
    MaxFaults = 1
SYMMETRY Symmetry
SPECIFICATION Spec
INVARIANTS TypeOK RunningHasContainer ContainerHasRunningRow ResourceInv
CHECK_DEADLOCK FALSE
