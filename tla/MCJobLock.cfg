SPECIFICATION Spec
CONSTANTS
    Callers = {c1, c2, c3}
    TTL = 2
    MaxClock = 5
    MaxIds = 4
SYMMETRY CallerSymmetry
INVARIANTS
    IInv
    LeaseExclusion
CHECK_DEADLOCK FALSE
