CONSTANTS
    p1 = p1
    p2 = p2
    e1 = e1
    e2 = e2
    i1 = i1
    i2 = i2
    i3 = i3
    i4 = i4
    i5 = i5
    i6 = i6
    faults = 1
    changes = 0
    Procs = {p1}
    Versions = {1, 2}
    Inodes = {i1, i2, i3, i4, i5, i6}
    Edits = {e1, e2}
    FirstPairs <- WholePairs
    FirstIntents = {None}
    Foreign = Foreign
    Budget <- Bounds
    None = None
SPECIFICATION Spec
INVARIANT
    SomeApplySettles
CHECK_DEADLOCK FALSE
