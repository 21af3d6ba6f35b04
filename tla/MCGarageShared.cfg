\* The first two S3 resources, asked for at the same time; nothing fails.
CONSTANTS
    Requests = {r1, r2}
    Nobody = nobody
    MaxFaults = 0
    Concurrent = TRUE
SPECIFICATION Spec
INVARIANT OneBucketEach
CHECK_DEADLOCK FALSE
