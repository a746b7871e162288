SPECIFICATION Spec
CONSTANTS
    t1 = t1
    t2 = t2
    w1 = w1
    w2 = w2
    w3 = w3
    p1 = p1
    p2 = p2
    a1 = a1
    a2 = a2
    c1 = c1
    c2 = c2
    NoTxn = NoTxn
    NoCode = NoCode
    NoCustomer = NoCustomer
    Txns = {t1, t2}
    Hotspot = {t1}
    Customers = {p1}
    Accounts = {a1}
    Owner <- OneOwner
    Buyer <- OneBuyer
    Codes = {c1, c2}
    Workers = {w1, w2, w3}
    Entry <- ThreeRacers
    Duration = 2
    Grace = 0
    SweepWindow = 1
    ResumeWindow = 2
    MaxTime = 1
    Faults = {"crash", "write", "flip"}
    MaxFaults = 1
    CronKeepsUp = FALSE
SYMMETRY CodeSymmetry
INVARIANTS
    EveryFaultCostsOne
    OneReceipt
    ReceiptNamesItsVoucher
    NeverMoreThanPaid
PROPERTIES
    FalseNegativesHeal
    PromiseKept
\* Customers may simply stop buying and paying.
CHECK_DEADLOCK FALSE
