\* One request of a client that waits for the answer; no call fails.
CONSTANTS
    Procs = {p1, p2}
    Web = {p1}
    Requests = {t1}
    Base = base
    MaxFaults = 0
    Concurrent = FALSE
SPECIFICATION FairSpec
PROPERTIES AlwaysAnswered
CHECK_DEADLOCK FALSE
