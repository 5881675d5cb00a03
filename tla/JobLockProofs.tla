--------------------------- MODULE JobLockProofs ---------------------------
(* Mutual exclusion of the job lease for every TTL and any set of callers. *)
EXTENDS JobLock, TLAPS

\* IInv is preserved: one step per action of jobLock.ts.
LEMMA InvInductive == IInv /\ [Next]_vars => IInv'
<1> SUFFICES ASSUME IInv, [Next]_vars PROVE IInv'
    OBVIOUS
<1> USE JobLockAssumption DEF IInv, TypeOK, Row, RunRec, NoRow, Idle
<1>1. ASSUME NEW c \in Callers, BeginAcquire(c) PROVE IInv'
    BY <1>1 DEF BeginAcquire, IdsAreFresh, RowNamesLiveHolder, LiveHolder
<1>2. ASSUME NEW c \in Callers, Grant(c) PROVE IInv'
    <2>1. TypeOK' /\ IdsAreFresh'
        BY <1>2 DEF Grant, Takeable, IdsAreFresh
    <2>2. RowNamesLiveHolder'
        BY <1>2 DEF Grant, Takeable, IdsAreFresh, RowNamesLiveHolder, LiveHolder
    <2>3. QED BY <2>1, <2>2
<1>3. ASSUME NEW c \in Callers, Refuse(c) PROVE IInv'
    BY <1>3 DEF Refuse, IdsAreFresh, RowNamesLiveHolder, LiveHolder
<1>4. ASSUME NEW c \in Callers, releaseJobLock(c) PROVE IInv'
    <2>1. TypeOK' /\ IdsAreFresh'
        BY <1>4 DEF releaseJobLock, ReleasedBy, IdsAreFresh
    <2>2. RowNamesLiveHolder'
        BY <1>4 DEF releaseJobLock, ReleasedBy, IdsAreFresh, RowNamesLiveHolder, LiveHolder
    <2>3. QED BY <2>1, <2>2
<1>5. ASSUME NEW c \in Callers, Crash(c) PROVE IInv'
    BY <1>5 DEF Crash, IdsAreFresh, RowNamesLiveHolder, LiveHolder
<1>6. CASE Reap
    BY <1>6 DEF Reap, IdsAreFresh, RowNamesLiveHolder, LiveHolder
<1>7. CASE Tick
    BY <1>7 DEF Tick, IdsAreFresh, RowNamesLiveHolder, LiveHolder
<1>8. CASE UNCHANGED vars
    BY <1>8 DEF vars, IdsAreFresh, RowNamesLiveHolder, LiveHolder
<1>9. QED
    BY <1>1, <1>2, <1>3, <1>4, <1>5, <1>6, <1>7, <1>8 DEF Next

\* Every acquisition of acquireJobLock has an id of its own, and the stored row
\* names each holder whose lease still runs.
THEOREM IInvHolds == Spec => []IInv
<1>1. Init => IInv
    BY JobLockAssumption
    DEF Init, IInv, TypeOK, Row, RunRec, NoRow, Idle, IdsAreFresh, RowNamesLiveHolder, LiveHolder
<1>2. QED
    BY <1>1, InvInductive, PTL DEF Spec

\* The lease is exclusive: acquireJobLock and releaseJobLock never let two
\* callers run on unexpired leases at once.
THEOREM LeaseExclusionHolds == Spec => []LeaseExclusion
<1>1. IInv => LeaseExclusion
    BY DEF IInv, TypeOK, RunRec, IdsAreFresh, RowNamesLiveHolder, LeaseExclusion, LiveHolder
<1>2. QED
    BY <1>1, IInvHolds, PTL

=============================================================================
