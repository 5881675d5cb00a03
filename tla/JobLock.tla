------------------------------ MODULE JobLock ------------------------------
(***************************************************************************)
(* The distributed lease every background job and every per-account        *)
(* critical section takes (server/src/utils/jobLock.ts over the            *)
(* job_locks collection, server/src/models/JobLock.ts).                    *)
(*                                                                         *)
(* One jobName is modelled: locks of different names share nothing.        *)
(* A caller reads the clock and mints its lockId BEFORE the upsert reaches *)
(* the database, so acquireJobLock is two steps; the upsert itself, the    *)
(* release and the TTL monitor's delete are single-document writes and     *)
(* atomic.  A caller may crash at any point, or outlive its own lease.     *)
(***************************************************************************)
EXTENDS Integers

CONSTANTS
    Callers,   \* runs that may ask for the lock (workers, requests, ticks)
    TTL,       \* ttlMs, in clock ticks
    MaxClock,  \* bound: the clock stops here
    MaxIds     \* bound: how many acquisitions are ever attempted

ASSUME JobLockAssumption ==
    /\ TTL \in Nat \ {0}
    /\ MaxClock \in Nat
    /\ MaxIds \in Nat

VARIABLES
    clock,     \* Date.now(), shared by every process of the deployment
    lock,      \* the job_locks row: lockedBy (0 = no row) and expiresAt
    nextId,    \* randomUUID(): the next lockId nobody has used
    run        \* what each caller is doing, with which lockId and expiresAt

vars == <<clock, lock, nextId, run>>

NoRow == [lockedBy |-> 0, expiresAt |-> 0]
Idle  == [pc |-> "idle", now |-> 0, lockId |-> 0]

Row    == [lockedBy : Nat, expiresAt : Nat]
RunRec == [pc : {"idle", "asking", "holding"}, now : Nat, lockId : Nat]

TypeOK ==
    /\ clock \in Nat
    /\ lock \in Row
    /\ nextId \in Nat \ {0}
    /\ run \in [Callers -> RunRec]

Init ==
    /\ clock = 0
    /\ lock = NoRow
    /\ nextId = 1
    /\ run = [c \in Callers |-> Idle]

----------------------------------------------------------------------------
\* const now = new Date(); const lockId = randomUUID()
BeginAcquire(c) ==
    /\ run[c].pc = "idle"
    /\ nextId <= MaxIds
    /\ run' = [run EXCEPT ![c] = [pc |-> "asking", now |-> clock, lockId |-> nextId]]
    /\ nextId' = nextId + 1
    /\ UNCHANGED <<clock, lock>>

\* The filter of the upsert: no row, or a row whose lease had ended by `now`.
Takeable(now) == lock.lockedBy = 0 \/ lock.expiresAt <= now

\* findOneAndUpdate with upsert matched or inserted: lockedBy is ours.
Grant(c) ==
    /\ run[c].pc = "asking"
    /\ Takeable(run[c].now)
    /\ lock' = [lockedBy |-> run[c].lockId, expiresAt |-> run[c].now + TTL]
    /\ run' = [run EXCEPT ![c].pc = "holding"]
    /\ UNCHANGED <<clock, nextId>>

\* The upsert hit the unique jobName index (E11000): null.
Refuse(c) ==
    /\ run[c].pc = "asking"
    /\ ~Takeable(run[c].now)
    /\ run' = [run EXCEPT ![c] = Idle]
    /\ UNCHANGED <<clock, lock, nextId>>

\* Mutant: a release by name alone, deleteOne({ jobName }).
ReleasedByName(id) == NoRow

\* deleteOne({ jobName, lockedBy: lockId })
ReleasedBy(id) == IF lock.lockedBy = id THEN NoRow ELSE lock

releaseJobLock(c) ==
    /\ run[c].pc = "holding"
    /\ lock' = ReleasedBy(run[c].lockId)
    /\ run' = [run EXCEPT ![c] = Idle]
    /\ UNCHANGED <<clock, nextId>>

\* The process dies (or loses the reply): its row stays until the lease ends.
Crash(c) ==
    /\ run[c].pc # "idle"
    /\ run' = [run EXCEPT ![c] = Idle]
    /\ UNCHANGED <<clock, lock, nextId>>

\* MongoDB's TTL monitor on { expiresAt: 1 }, expireAfterSeconds 0.
Reap ==
    /\ lock.lockedBy # 0
    /\ lock.expiresAt <= clock
    /\ lock' = NoRow
    /\ UNCHANGED <<clock, nextId, run>>

Tick ==
    /\ clock < MaxClock
    /\ clock' = clock + 1
    /\ UNCHANGED <<lock, nextId, run>>

Next ==
    \/ \E c \in Callers :
        BeginAcquire(c) \/ Grant(c) \/ Refuse(c) \/ releaseJobLock(c) \/ Crash(c)
    \/ Reap
    \/ Tick

Spec == Init /\ [][Next]_vars

----------------------------------------------------------------------------
\* A caller that believes it holds the lock while its own lease still runs.
LiveHolder(c) == run[c].pc = "holding" /\ clock < run[c].now + TTL

\* Two callers are never both inside the critical section on unexpired
\* leases, whatever crashes, however long an acquisition is in flight and
\* however late a run that outlived its lease releases (jobLock.ts:4-15).
LeaseExclusion ==
    \A c, d \in Callers : LiveHolder(c) /\ LiveHolder(d) => c = d

\* The strengthening that makes it inductive: every acquisition has its own
\* id, and the row names each live holder with that holder's own deadline.
IdsAreFresh ==
    /\ lock.lockedBy < nextId
    /\ \A c \in Callers : run[c].pc # "idle" =>
            /\ 0 < run[c].lockId /\ run[c].lockId < nextId
            /\ run[c].now <= clock
    /\ \A c, d \in Callers :
            /\ run[c].pc # "idle" /\ run[d].pc # "idle"
            /\ run[c].lockId = run[d].lockId
            => c = d

RowNamesLiveHolder ==
    \A c \in Callers : LiveHolder(c) =>
        lock = [lockedBy |-> run[c].lockId, expiresAt |-> run[c].now + TTL]

IInv == TypeOK /\ IdsAreFresh /\ RowNamesLiveHolder

=============================================================================
