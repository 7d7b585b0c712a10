CONSTANTS
    p1 = p1
    p2 = p2
    bin1 = bin1
    bin2 = bin2
    theirs = theirs
    Procs = {p1, p2}
    Executables = {bin1, bin2}
    ExeOf <- Relocated
    UserGroups = {theirs}
    Lookalikes = {}
    Originals <- JsonOriginals
    InlineOriginals <- TomlOriginals
    Edits = 1
    Crashes = 1
    None = None
SPECIFICATION FairSpec
INVARIANTS
    UserPartSurvives
    OwnershipCoherent
    UninstallLeavesNoTrace
PROPERTY
    InterruptedSettles
CHECK_DEADLOCK FALSE
