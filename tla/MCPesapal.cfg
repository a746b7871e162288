SPECIFICATION Spec
CONSTANTS
    a1 = a1
    a2 = a2
    i1 = i1
    c1 = c1
    c2 = c2
    NoAccount = NoAccount
    Accounts = {a1, a2}
    Live = {a2}
    Isolates = {i1}
    Calls = {c1, c2}
    Life = 4
    DefaultLife = 3
    Buffer = 2
    Timeout = 1
    MaxIpns = 2
    MaxChanges = 1
    MaxFaults = 1
SYMMETRY CallSymmetry
INVARIANTS
    NeverExpiresMidFlight
    OldCredentialsDieOut
    OrdersAreAnnounced
