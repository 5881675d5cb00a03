SPECIFICATION Spec
CONSTANTS
    Segments = {1, 2}
    Uploaders = {u1}
    Completers = {c1}
    Cancellers = {x1}
    Purgers = {p1}
    Free = Free
    Dead = Dead
INVARIANTS
    CancelIsFinal
CHECK_DEADLOCK FALSE
