\* Two requests, one after the other, hit by one fault.
CONSTANTS
    Procs = {p1, p2}
    Web = {p1}
    Requests = {t1, t2}
    Base = base
    MaxFaults = 1
    Concurrent = FALSE
SPECIFICATION FairSpec
INVARIANTS TypeOK RowsDescribeContainers RemovedOnlyOnSuccess 
PROPERTIES Answered
CHECK_DEADLOCK FALSE
