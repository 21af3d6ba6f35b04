\* Three S3 resources, made and deleted one request after the other, with three faults
\* or crashes, and a Garage that exits at any time.
CONSTANTS
    Requests = {r1, r2, r3}
    Nobody = nobody
    MaxFaults = 3
    Concurrent = FALSE
SYMMETRY Symmetry
SPECIFICATION Spec
INVARIANTS TypeOK InstanceDescribesGarage AloneSucceeds NoForgottenBucket BucketsServed
CHECK_DEADLOCK FALSE
