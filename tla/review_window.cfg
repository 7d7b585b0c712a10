CONSTANTS
    root = root
    child = child
    p1 = p1
    p2 = p2
    t1 = t1
    t2 = t2
    f1 = f1
    f2 = f2
    x = x
    y = y
    g1 = g1
    g2 = g2
    because = because
    edits = 1
    hands = 0
    guides = 0
    tracks = 0
    checkouts = 0
    inits = 0
    invalidations = 0
    crashes = 0
    busies = 0
    MaxCounter = 100
    Docs <- TwoDocs
    Root = root
    Imports <- ChildImportsRoot
    Text <- Texts
    FirstText = t1
    Files = {f1, f2}
    FirstFiles = f1
    Exports = {x, y}
    ExportOf <- TextExport
    Guidance = {g1, g2}
    FirstGuidance = g1
    Reasons = {because}
    Scopes <- AllOrChild
    Procs = {p1}
    Free = Free
    BaseOutcomes = {TRUE}
    Budgets <- Bounds
    RacingReplace = FALSE
SPECIFICATION Spec
PROPERTY
    NothingSlipsIn
