SPECIFICATION Spec
CONSTANTS
    t1 = t1
    t2 = t2
    l1 = l1
    l2 = l2
    NoTxn = NoTxn
    Txns = {t1, t2}
    Loads = {l1, l2}
    MaxFaults = 1
INVARIANTS
    CompensationIsIssued
