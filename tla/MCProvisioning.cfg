SPECIFICATION Spec
CONSTANTS
    d1 = d1
    d2 = d2
    r1 = r1
    c1 = c1
    c2 = c2
    w1 = w1
    w2 = w2
    NoDevice = NoDevice
    Devices = {d1, d2}
    Routers = {r1}
    Calls = {c1, c2}
    Syncs = {w1}
    LastOctet = 3
    MaxKeys = 3
    MaxFaults = 1
INVARIANTS
    ProvisioningTypeOK
    AddressesDiffer
    NeverMistaken
SYMMETRY Symmetric
\* Rows, keys and faults run out, and admins may do nothing more.
CHECK_DEADLOCK FALSE
