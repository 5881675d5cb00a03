SPECIFICATION Spec
CONSTANTS
    Segments = {1, 2}
    Uploaders = {u1, u2}
    Completers = {c1, c2}
    Cancellers = {x1}
    Purgers = {p1}
    Free = Free
    Dead = Dead
SYMMETRY RequestSymmetry
INVARIANTS
    TransferInv
    ServedDocumentHasItsObject
    SingleCancelIsFinal
    ErasedAccountOwnsNothing
    AssembledTransferIsCompletable
CHECK_DEADLOCK FALSE
