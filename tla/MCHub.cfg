SPECIFICATION FairSpec
CONSTANTS
    d1 = d1
    d2 = d2
    r1 = r1
    c1 = c1
    c2 = c2
    w1 = w1
    w2 = w2
    NoDevice = NoDevice
    Devices = {d1, d2}
    Routers = {r1}
    Calls = {c1}
    Syncs = {w1, w2}
    LastOctet = 3
    MaxKeys = 2
    MaxFaults = 1
PROPERTIES
    HubSettles
    SilentIsNoticed
\* Rows, keys and faults run out, and admins may do nothing more.
CHECK_DEADLOCK FALSE
