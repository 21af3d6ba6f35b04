\* An update and one client's requests under the watcher, with exits, a fault and a
\* crash of the server.
CONSTANTS
    Updates = {u1}
    Base = base
    MaxFaults = 1
    Concurrent = FALSE
    Clients = {r1}
    OneByOne = TRUE
    MaxExits = 2
    MaxCrashes = 1
SPECIFICATION FairControlSpec
INVARIANTS ControlTypeOK ServiceKept AgreementAtRest
PROPERTIES Heals BuildingEnds
CHECK_DEADLOCK FALSE
