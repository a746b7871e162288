SPECIFICATION FairSpec
CONSTANTS
    d1 = d1
    d2 = d2
    a1 = a1
    NoDevice = NoDevice
    Devices = {d1, d2}
    Edited = {d1}
    Addresses = {a1}
    MaxKeys = 2
    MaxHubs = 2
    MaxFaults = 1
INVARIANTS
    EndsAsFresh
PROPERTIES
    SetUpEnds
    ListArrives
\* Identities and edits run out, and admins may do nothing more.
CHECK_DEADLOCK FALSE
