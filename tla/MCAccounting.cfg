SPECIFICATION Spec
CONSTANTS
    s1 = s1
    h1 = h1
    h2 = h2
    h3 = h3
    NoRow = NoRow
    NoPacket = NoPacket
    Sessions = {s1}
    Handlers = {h1, h2, h3}
    WordSize = 2
    MaxUse = 2
    MaxResends = 1
    MaxFaults = 1
INVARIANTS
    NeverInNeither
    UseIsNotInflated
    OrderlyIsExact
    DeletedIsGone
PROPERTY
    HistoryIsPermanent
SYMMETRY Slots
\* A session ends and nothing more is sent.
CHECK_DEADLOCK FALSE
