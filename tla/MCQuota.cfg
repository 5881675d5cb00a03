SPECIFICATION Spec
CONSTANTS
    o1 = o1
    o2 = o2
    i1 = i1
    i2 = i2
    f2 = f2
    f1 = f1
    Ops = {o1, o2}
    Items = {i1, i2}
    Folders = {f1, f2}
    Sizes = {1, 2}
    Requests <- Arriving
    Contents <- Starting
    Quota = 3
    ItemCap = 2
    FolderCap = 1
    Attempts = 2
    MaxOps = 3
    MaxFaults = 1
INVARIANTS CountersCover RowCapsHold
PROPERTIES ImplementsLedger Converges
CHECK_DEADLOCK FALSE
