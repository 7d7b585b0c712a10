CONSTANTS
    None = None
    Undecided = Undecided
    v1 = v1
    v2 = v2
    e1 = e1
    e2 = e2
    p1 = p1
    p2 = p2
    g1 = g1
    g2 = g2
    r1 = r1
    r2 = r2
    c1 = c1
    c2 = c2
    c3 = c3
    n1 = n1
    n2 = n2
    n3 = n3
    Walks <- SomeWalks
    Histories <- SomeHistories
    Window = 2
    InputRoom = 1
    OutputRoom = 2
    Queued = 1
    DrainLimit = 6
    Limit = 2
    Faults = 1
    PathOrder <- ByteOrder
    Tracked = {}
    Subject <- README
    ReadLimit = 8
    ByteLimit = 9
    Candidates = 2
    Troubles = 1
    ProofLimit = 2
SPECIFICATION GitSpec
INVARIANTS
    SearchesTellTheTruth
    FocusedReadingIsSound
    HandoffsToldTruly
PROPERTIES
    ReadsEnd
    ReadsAsPromised
CHECK_DEADLOCK FALSE
