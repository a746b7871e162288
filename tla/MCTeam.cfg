SPECIFICATION Spec
CONSTANTS
    a1 = a1
    a2 = a2
    a3 = a3
    r1 = r1
    r2 = r2
    NoAccount = NoAccount
    Accounts = {a1, a2, a3}
    Visitors = {a1, a2}
    Requests = {r1, r2}
    MaxFaults = 1
INVARIANTS
    NoOrphanAccounts
    OwnerRemains
    RemovalsAreOnRecord
PROPERTY
    MembershipKept
SYMMETRY Symmetric
\* Account ids run out, and an organization without an owner can do nothing.
CHECK_DEADLOCK FALSE
