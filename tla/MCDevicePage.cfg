SPECIFICATION FairSpec
CONSTANTS
    d1 = d1
    d2 = d2
    q1 = q1
    q2 = q2
    NoDevice = NoDevice
    Devices = {d1, d2}
    Existing = {d1}
    Requests = {q1, q2}
    MaxClicks = 3
    MaxChanges = 2
    MaxKeys = 2
    MaxFaults = 1
INVARIANTS
    PanelsAreOfOneDevice
PROPERTIES
    CutOffIsAnnounced
    LinkIsNoticed
\* Clicks and changes run out.
CHECK_DEADLOCK FALSE
