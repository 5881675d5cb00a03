SPECIFICATION Spec
CONSTANTS
    t1 = t1
    t2 = t2
    c1 = c1
    NoTab = NoTab
    Tabs = {t1, t2}
    Copies = {c1}
    LockManagers = {TRUE, FALSE}
    Topologies = {"txn", "standalone"}
    MaxTok = 3
    MaxTime = 2
    MaxLogins = 2
    MaxFaults = 2
    MaxEnds = 1
    MaxTrouble = 2
    RefreshLife = 1
    ReuseWindow = 2
    MaxSessions = 1
SYMMETRY Interchangeable
INVARIANTS SessionsInv IssuedCookieIsBacked ReuseRecorded NoLiveAfterReuse TabsNeverReplay SpentRowKept
CHECK_DEADLOCK FALSE
