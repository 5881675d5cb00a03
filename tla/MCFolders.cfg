SPECIFICATION Spec
CONSTANTS
    fa = fa
    fb = fb
    fc = fc
    m1 = m1
    r1 = r1
    r2 = r2
    r3 = r3
    Root = Root
    Unborn = Unborn
    Gone = Gone
    Folders = {fa, fb, fc}
    Members = {m1}
    Reqs = {r1, r2, r3}
    Topologies = {"txn", "standalone"}
    MaxDepth = 3
    Trees <- MCTrees
    MaxOps = 3
    MaxFaults = 1
SYMMETRY Interchangeable
INVARIANTS FolderInv NoCycleStays RemovedFolderIsEmpty
CHECK_DEADLOCK FALSE
