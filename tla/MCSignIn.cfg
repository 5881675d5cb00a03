SPECIFICATION Spec
CONSTANTS
    r1 = r1
    r2 = r2
    Reqs = {r1, r2}
    MaxAttempts = 2
    MaxProofFailures = 2
    LockFor = 2
    LinkLife = 3
    ChallengeLife = 2
    SetupLife = 1
    Drifts = {0, 1}
    Mixes <- MCMixes
    MaxTime = 3
    MaxFaults = 1
SYMMETRY Interchangeable
INVARIANTS SignInInv CodeSpentOnce OneCodePerChallenge ProofCarriesOnce LockedHasLink
PROPERTIES BrakeHolds
CHECK_DEADLOCK FALSE
