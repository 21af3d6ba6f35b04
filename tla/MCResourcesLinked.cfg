\* One client, one request after the other, and nothing fails.
CONSTANTS
    Clients = {c1}
    Ids = {i1}
    NoId = none
    Apps = {a1}
    MaxFaults = 0
SPECIFICATION Spec
INVARIANT LinkedIsInjected
CHECK_DEADLOCK FALSE
