SPECIFICATION FairSpec
CONSTANTS
    t1 = t1
    t2 = t2
    w1 = w1
    w2 = w2
    w3 = w3
    p1 = p1
    p2 = p2
    a1 = a1
    a2 = a2
    c1 = c1
    c2 = c2
    NoTxn = NoTxn
    NoCode = NoCode
    NoCustomer = NoCustomer
    Txns = {t1}
    Hotspot = {t1}
    Customers = {p1}
    Accounts = {}
    Owner <- OneOwner
    Buyer <- OneBuyer
    Codes = {c1, c2}
    Workers = {w1, w2, w3}
    Entry <- SweepAndBack
    Duration = 2
    Grace = 0
    SweepWindow = 2
    ResumeWindow = 2
    MaxTime = 2
    Faults = {"timeout", "crash", "write"}
    MaxFaults = 2
    CronKeepsUp = TRUE
PROPERTIES
    PaidIsCompleted
    CompletedGetsVoucher
\* Customers may simply stop buying and paying.
CHECK_DEADLOCK FALSE
