SPECIFICATION FairSpec
CONSTANTS
    Segments = {1, 2}
    Uploaders = {u1}
    Completers = {c1}
    Cancellers = {}
    Purgers = {p1}
    Free = Free
    Dead = Dead
PROPERTIES
    OrphanIsReclaimed
    UnclaimedUploadIsAborted
    PurgeIsFinished
CHECK_DEADLOCK FALSE
