SPECIFICATION LaterPersistent
CONSTANTS
    t1 = t1
    t2 = t2
    w1 = w1
    w2 = w2
    p1 = p1
    p2 = p2
    c1 = c1
    c2 = c2
    NoTxn = NoTxn
    NoCode = NoCode
    NoCustomer = NoCustomer
    NoInterval = NoInterval
    Txns = {t1, t2}
    Hotspot = {t1, t2}
    Customers = {p1, p2}
    Accounts = {}
    Owner <- NoOwner
    Buyer <- EachBuysOne
    Codes = {c1, c2}
    Workers = {w1, w2}
    Entry <- PollAndResume
    Duration = 2
    Grace = 0
    SweepWindow = 1
    ResumeWindow = 2
    MaxTime = 1
    Faults = {"timeout"}
    MaxFaults = 1
    CronKeepsUp = FALSE
    Intervals = {1, 2}
    MaxAnswers = 2
    ResponsesMayBeLost = TRUE
INVARIANTS
    LoginsArePaid
    SuccessIsPaid
PROPERTIES
    RecoveryConnects
\* Customers may simply stop buying and paying.
CHECK_DEADLOCK FALSE
