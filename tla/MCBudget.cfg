SPECIFICATION Spec
CONSTANTS
    Transfers = {t1, t2, t3, t4}
    Openers = {o1, o2}
    Sizes = {1, 2}
    MaxDocs = 1
    MaxConc = 2
    Quota = 5
    Free = Free
SYMMETRY BudgetSymmetry
INVARIANTS
    BudgetInv
    RotationCanNameEveryDocument
    CommittedWithinQuota
CHECK_DEADLOCK FALSE
