CONSTANTS
    root = root
    guide = guide
    page = page
    p1 = p1
    t1 = t1
    t2 = t2
    f1 = f1
    f2 = f2
    api1 = api1
    api2 = api2
    g1 = g1
    g2 = g2
    because = because
    edits = 1
    hands = 0
    guides = 1
    tracks = 0
    checkouts = 0
    inits = 0
    invalidations = 1
    crashes = 0
    busies = 0
    MaxCounter = 100
    Docs <- ChainDocs
    Root = root
    Imports <- ChainImports
    Text <- Texts
    FirstText = t1
    Files = {f1}
    FirstFiles = f1
    Exports = {api1, api2}
    ExportOf <- TextExport
    Guidance = {g1, g2}
    FirstGuidance = g1
    Reasons = {because}
    Scopes <- AnyDocument
    Procs = {p1}
    Free = Free
    BaseOutcomes = {TRUE}
    Budgets <- Bounds
    RacingReplace = TRUE
    Width = 25
    ExpandedValues = 200
    ExpandedBytes = 1000
    PacksFrom = 60
SPECIFICATION ChainOrTextSpec
INVARIANTS
    ProvidersReviewedFirst
    SavedIsReadBack
    AcceptedTextIsCanonical
CHECK_DEADLOCK FALSE
