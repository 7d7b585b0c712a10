CONSTANTS
    root = root
    child = child
    p1 = p1
    p2 = p2
    t1 = t1
    t2 = t2
    f1 = f1
    f2 = f2
    x = x
    y = y
    g1 = g1
    g2 = g2
    because = because
    edits = 0
    hands = 1
    guides = 0
    tracks = 1
    checkouts = 1
    inits = 0
    invalidations = 1
    crashes = 0
    busies = 0
    MaxCounter = 3
    Docs <- TwoDocs
    Root = root
    Imports <- ChildImportsRoot
    Text <- Texts
    FirstText = t1
    Files = {f1, f2}
    FirstFiles = f1
    Exports = {x, y}
    ExportOf <- TextExport
    Guidance = {g1, g2}
    FirstGuidance = g1
    Reasons = {because}
    Scopes <- AllOrChild
    Procs = {p1, p2}
    Free = Free
    BaseOutcomes = {FALSE}
    Budgets <- Bounds
    RacingReplace = FALSE
SPECIFICATION CycleOrTextsSpec
SYMMETRY ProcSymmetry
INVARIANTS
    StoredStateValid
    EveryRecordWasReviewed
    RecordsAreRendered
    GuidesAreHeard
PROPERTIES
    SaveReplacesWhatWasLoaded
    RenderingKeepsMeaning
CHECK_DEADLOCK FALSE
