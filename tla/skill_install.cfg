CONSTANTS
    p1 = p1
    p2 = p2
    v1 = v1
    v2 = v2
    agent = agent
    u0 = u0
    u1 = u1
    u2 = u2
    writes = 1
    mishaps = 1
    Procs = {p1, p2}
    Versions = {v1, v2}
    Executables = {v2}
    Targets = {agent}
    Contents = {u0, u1}
    Backups <- Names
    Origins <- OldAndNew
    Budget <- Bounds
    None = None
SPECIFICATION FairSpec
INVARIANTS
    SettledContentSurvives
    OriginalReachable
    DisplacesOnlyWhatWasPlanned
CHECK_DEADLOCK FALSE
PROPERTY RecoveryCompletes
