SPECIFICATION Spec
CONSTANTS
    c1 = c1
    u1 = u1
    d1 = d1
    d2 = d2
    x1 = x1
    h1 = h1
    h2 = h2
    NoName = NoName
    NoMac = NoMac
    Unlimited = Unlimited
    Codes = {c1}
    Users = {u1}
    Phones = {d1, d2}
    Dialers = {x1}
    Handlers = {h1, h2}
    Duration <- TwoAndOne
    DefaultRenewal = 1
    Shelf = 1
    MacMayBeMissing = FALSE
    RadiusTimeout = 1
    MaxTime = 3
    MaxFaults = 1
INVARIANTS
    OneDevicePerVoucher
    PaidTimeAtMostTwice
    PppoeEndsSoon
    NeverTurnedAway
PROPERTIES
    LeaseKept
SYMMETRY Slots
\* The clock stops at its bound and customers may stay away.
CHECK_DEADLOCK FALSE
