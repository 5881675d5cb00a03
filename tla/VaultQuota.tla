----------------------------- MODULE VaultQuota -----------------------------
(***************************************************************************)
(* The per-account vault counters (server: utils/vaultQuota.ts): bytes,    *)
(* item rows and folder rows, kept by every request that writes a counted  *)
(* row in the order reserve, write, settle, and corrected by the hourly    *)
(* recount. One account, any number of concurrent requests.                *)
(*                                                                         *)
(* The miss of a conditional reservation and the read that decides what it *)
(* means are one step. quotaEpoch and vaultBytesWrittenAt are compared for *)
(* equality only: the recount remembers whether either has moved.          *)
(***************************************************************************)
EXTENDS Tally

CONSTANTS
    Ops,         \* concurrent requests on the account's rows
    Items,       \* item row ids (derived from a nonce: an id can come back)
    Folders,     \* folder row ids
    Sizes,       \* counted sizes a row can have
    Requests,    \* the requests that can arrive: [kind, ids, size]
    Contents,    \* what the account may store at first: sizes by id, 0 for no row
    Quota,       \* VAULT_STORAGE_QUOTA_MB_PER_USER
    ItemCap,     \* MAX_ITEMS_PER_USER
    FolderCap,   \* MAX_FOLDERS_PER_USER
    Attempts,    \* PINNED_UPDATE_ATTEMPTS
    MaxOps,      \* bound: requests in a behaviour
    MaxFaults    \* bound: crashes, unknown outcomes and failed settles

ASSUME QuotaAssumption ==
    /\ IsFiniteSet(Ops) /\ IsFiniteSet(Items) /\ IsFiniteSet(Folders)
    /\ Items \cap Folders = {}
    /\ Sizes \subseteq Nat \ {0}
    /\ Contents \subseteq [Items \cup Folders -> {0} \cup Sizes]
    /\ Requests \subseteq
         [kind : {"create", "update", "remove", "import", "importTxn", "rotate"},
          ids : SUBSET (Items \cup Folders), size : Sizes]
    /\ \A r \in Requests :
         /\ r.kind \in {"create", "update"} => \E id \in Items \cup Folders : r.ids = {id}
         /\ r.kind \in {"import", "importTxn"} => r.ids \subseteq Items
    /\ {Quota, ItemCap, FolderCap, MaxOps, MaxFaults} \subseteq Nat
    /\ Attempts \in Nat \ {0}

VARIABLES
    rows,      \* the items and folders collections, by id
    counter,   \* User.vaultBytes, counters.items, counters.folders
    absent,    \* the counters that are not installed
    quiet,     \* vaultBytesWrittenAt is QUOTA_RECOUNT_QUIESCENCE_MS old, or absent
    op,        \* the requests in progress
    recount,   \* the maintenance step vault-quota-recount
    begun,     \* requests begun so far
    faults,    \* faults so far
    excused,   \* history since the last recount: see Excuses
    ever       \* history: every excuse there has been

history == <<excused, ever>>
vars == <<rows, counter, absent, quiet, op, recount, begun, faults, history>>

Ids == Items \cup Folders
Dims == {"bytes", "item", "folder"}
Limit == [bytes |-> Quota, item |-> ItemCap, folder |-> FolderCap]
KindOf(id) == IF id \in Items THEN "item" ELSE "folder"

\* Why the counters may be below the rows, for the properties:
\*   reseal   a rotation wrote rows it had reserved nothing for
\*   import   a row an import had inserted was changed before it was measured
Excuses == {"reseal", "import"}

Zero == [d \in Dims |-> 0]
Plus(x, y) == [d \in Dims |-> x[d] + y[d]]
Minus(x, y) == [d \in Dims |-> x[d] - y[d]]
Bytes(n) == [Zero EXCEPT !["bytes"] = n]
Growth(n) == Bytes(IF n > 0 THEN n ELSE 0)
RowOf(id, size) == [Zero EXCEPT !["bytes"] = size, ![KindOf(id)] = 1]

-----------------------------------------------------------------------------
(* The rows. A size of 0 is no row; v is __v, inc stands for createdAt.    *)

Exists(id) == rows[id].size > 0
SizeOf(S) == Tally([id \in S |-> rows[id].size], S)
RowsIn(S) == Cardinality({id \in S : Exists(id)})

\* storedVaultTotals: one aggregate for each collection, one after the other.
ItemTotals == [bytes |-> SizeOf(Items), item |-> RowsIn(Items), folder |-> 0]
FolderTotals == [bytes |-> SizeOf(Folders), item |-> 0, folder |-> RowsIn(Folders)]
Stored == Plus(ItemTotals, FolderTotals)

\* A row created again under its id is at version 0, with a creation of its own.
Inserted(id, size) == [size |-> size, v |-> 0, inc |-> rows[id].inc + 1]
Removed(id) == [rows[id] EXCEPT !.size = 0]
Rewritten(id, size) == [rows[id] EXCEPT !.size = size, !.v = @ + 1]

\* Mutant: the pin is on the version alone.
PinHoldsByVersion(id, measure) == Exists(id) /\ rows[id].v = measure.v
\* versionPin
PinHolds(id, measure) == Exists(id) /\ rows[id].v = measure.v /\ rows[id].inc = measure.inc

-----------------------------------------------------------------------------
NoMeasure == [size |-> 0, v |-> 0, inc |-> 0]

\* todo: rows still to write; done: rows an import has inserted; resv: the
\* reservation; landed: what was written (actualBytes and actualRows).
NoOp == [pc |-> "idle", kind |-> "none", todo |-> {}, done |-> {}, size |-> 0,
         measure |-> NoMeasure, tries |-> 0, resv |-> Zero, landed |-> Zero,
         total |-> Zero]

NoRecount == [pc |-> "idle", total |-> Zero, unmoved |-> TRUE]

\* An account with the counters, one from before the row caps, one from before both.
Init ==
    /\ \E size \in Contents :
          rows = [id \in Ids |-> [size |-> size[id], v |-> 0, inc |-> 0]]
    /\ SizeOf(Ids) <= Quota /\ RowsIn(Items) <= ItemCap /\ RowsIn(Folders) <= FolderCap
    /\ absent \in {{}, {"item", "folder"}, Dims}
    /\ counter = [d \in Dims |-> IF d \in absent THEN 0 ELSE Stored[d]]
    /\ quiet = TRUE
    /\ op = [o \in Ops |-> NoOp]
    /\ recount = NoRecount
    /\ begun = 0 /\ faults = 0 /\ excused = {} /\ ever = {}

At(o, pc) == op[o].pc = pc
Holding(o) == op[o].pc \notin {"idle", "measure", "reserve", "count", "count2", "install"}
Goto(o, pc) == op' = [op EXCEPT ![o].pc = pc]
End(o) == op' = [op EXCEPT ![o] = NoOp]
Fault == faults < MaxFaults /\ faults' = faults + 1

\* Every counted write moves quotaEpoch and vaultBytesWrittenAt.
Touch ==
    /\ quiet' = FALSE
    /\ recount' = [recount EXCEPT !.unmoved = recount.pc = "idle"]

Excuse(S) == excused' = excused \cup S /\ ever' = ever \cup S

account == <<counter, absent, quiet, recount>>

-----------------------------------------------------------------------------
(* What the requests are.                                                  *)

\* What a request predicts it will add, and reserves before its first write. The
\* growth of an update is predicted from its measure; removals and the rotation
\* reserve nothing ("touch first").
\*   create     createCountedRow: an item, a folder, a restored row
\*   update     updateCountedRow: an edit, a rename, a reorder, an overwrite
\*   remove     permanentDelete, emptyTrash, the nightly purge, purgeUnreadable,
\*              deleteFolder
\*   import     the import, on a standalone server; importTxn with transactions
\*   rotate     the rotation of the vault key, on a standalone server
Predicted(r) ==
    IF r.kind \in {"create", "import", "importTxn"}
    THEN [bytes |-> r.size * Cardinality(r.ids), item |-> Cardinality(r.ids \cap Items),
          folder |-> Cardinality(r.ids \cap Folders)]
    ELSE Zero

\* The holders of the vault-key exclusion lock.
Exclusive == {"import", "importTxn", "rotate"}

\* An import is refused at once when an id it sends is stored.
Begin(o, r) ==
    /\ At(o, "idle") /\ begun < MaxOps
    /\ r.kind \in Exclusive => \A p \in Ops : op[p].kind \notin Exclusive
    /\ r.kind \in {"import", "importTxn"} => \A id \in r.ids : ~Exists(id)
    /\ begun' = begun + 1
    /\ op' = [op EXCEPT ![o] = [NoOp EXCEPT !.pc = IF r.kind = "update" THEN "measure" ELSE "reserve",
                 !.kind = r.kind, !.todo = r.ids, !.size = r.size, !.resv = Predicted(r)]]
    /\ UNCHANGED <<rows, account, faults, history>>

-----------------------------------------------------------------------------
(* reserveVaultWrite                                                       *)

\* counterRoom, for every counter: installed, and room when it grows.
Room(n) == absent = {} /\ \A d \in Dims : n[d] = 0 \/ counter[d] + n[d] <= Limit[d]

FirstWrite(kind) ==
    [create |-> "insert", update |-> "write", remove |-> "walk", withdraw |-> "walk",
     import |-> "insert", importTxn |-> "txn", rotate |-> "reseal"][kind]

\* Mutant: the row caps are left to a count the handler took earlier.
ReserveBytesOnly(o) ==
    /\ At(o, "reserve") /\ absent = {}
    /\ LET n == op[o].resv IN
         /\ n["bytes"] = 0 \/ counter["bytes"] + n["bytes"] <= Quota
         /\ counter' = Plus(counter, n)
    /\ Goto(o, FirstWrite(op[o].kind))
    /\ Touch
    /\ UNCHANGED <<rows, absent, begun, faults, history>>

Reserve(o) ==
    /\ At(o, "reserve") /\ Room(op[o].resv)
    /\ counter' = Plus(counter, op[o].resv)
    /\ Goto(o, FirstWrite(op[o].kind))
    /\ Touch
    /\ UNCHANGED <<rows, absent, begun, faults, history>>

\* VaultRowLimitError, VaultQuotaExceededError
ReserveRefused(o) ==
    /\ At(o, "reserve") /\ absent = {} /\ ~Room(op[o].resv)
    /\ End(o)
    /\ UNCHANGED <<rows, account, begun, faults, history>>

ReserveAbsent(o) ==
    /\ At(o, "reserve") /\ absent # {}
    /\ Goto(o, "count")
    /\ UNCHANGED <<rows, account, begun, faults, history>>

\* installVaultCounters: the two aggregates, then the conditional install.
CountItems(o) ==
    /\ At(o, "count")
    /\ op' = [op EXCEPT ![o].pc = "count2", ![o].total = ItemTotals]
    /\ UNCHANGED <<rows, account, begun, faults, history>>

CountFolders(o) ==
    /\ At(o, "count2")
    /\ op' = [op EXCEPT ![o].pc = "install", ![o].total = Plus(@, FolderTotals)]
    /\ UNCHANGED <<rows, account, begun, faults, history>>

\* Only while some counter is missing; one that is there is kept.
Install(o) ==
    /\ At(o, "install")
    /\ op' = [op EXCEPT ![o].pc = "reserve", ![o].total = Zero]
    /\ \/ /\ absent # {}
          /\ counter' = [d \in Dims |-> IF d \in absent THEN op[o].total[d] ELSE counter[d]]
          /\ absent' = {} /\ Touch
       \/ absent = {} /\ UNCHANGED account
    /\ UNCHANGED <<rows, begun, faults, history>>

-----------------------------------------------------------------------------
(* The writes of rows.                                                     *)

Adding(o, n) == Plus(op[o].landed, n)
Removal(id) == Minus(Zero, RowOf(id, rows[id].size))

\* One row of a create or of an import. A duplicate id is a definite failure:
\* a create hands its reservation back whole, an import measures what landed.
Insert(o, id) ==
    /\ At(o, "insert") /\ id \in op[o].todo
    /\ \/ /\ ~Exists(id)
          /\ rows' = [rows EXCEPT ![id] = Inserted(id, op[o].size)]
          /\ op' = [op EXCEPT ![o].todo = @ \ {id}, ![o].done = @ \cup {id},
                      ![o].landed = Adding(o, RowOf(id, op[o].size)),
                      ![o].measure = IF op[o].kind = "create" THEN Inserted(id, op[o].size) ELSE @,
                      ![o].pc = IF op[o].todo = {id} THEN "settle" ELSE "insert"]
       \/ /\ Exists(id)
          /\ rows' = rows
          /\ Goto(o, IF op[o].kind = "import" THEN "landed" ELSE "settle")
    /\ UNCHANGED <<account, begun, faults, history>>

\* The rows ahead of the refused one, as the database has them now.
LandedRows(o) == [bytes |-> SizeOf(op[o].done), item |-> RowsIn(op[o].done), folder |-> 0]
Mismeasured(o) == \E d \in Dims : LandedRows(o)[d] < op[o].landed[d]

LandedInserts(o) ==
    /\ At(o, "landed")
    /\ op' = [op EXCEPT ![o].pc = "settle", ![o].landed = LandedRows(o)]
    /\ Excuse(IF Mismeasured(o) THEN {"import"} ELSE {})
    /\ UNCHANGED <<rows, account, begun, faults>>

\* With transactions the import's rows commit together, or none does.
ImportCommit(o) ==
    /\ At(o, "txn")
    /\ LET S == op[o].todo IN
         \/ /\ \A id \in S : ~Exists(id)
            /\ rows' = [id \in Ids |-> IF id \in S THEN Inserted(id, op[o].size) ELSE rows[id]]
            /\ op' = [op EXCEPT ![o].pc = "settle", ![o].landed = op[o].resv]
         \/ /\ \E id \in S : Exists(id)
            /\ rows' = rows
            /\ Goto(o, "settle")
    /\ UNCHANGED <<account, begun, faults, history>>

\* updateCountedRow: measure the row, reserve the growth, write pinned on it. A
\* retry goes on only with the row it first measured.
Measure(o, id) ==
    /\ At(o, "measure") /\ id \in op[o].todo
    /\ IF Exists(id) /\ (op[o].tries = 0 \/ rows[id].inc = op[o].measure.inc)
       THEN op' = [op EXCEPT ![o].pc = "reserve", ![o].measure = rows[id],
                             ![o].resv = Growth(op[o].size - rows[id].size)]
       ELSE End(o)
    /\ UNCHANGED <<rows, account, begun, faults, history>>

WritePinned(o, id) ==
    /\ At(o, "write") /\ id \in op[o].todo
    /\ PinHolds(id, op[o].measure)
    /\ rows' = [rows EXCEPT ![id] = Rewritten(id, op[o].size)]
    /\ op' = [op EXCEPT ![o].pc = "settle",
                        ![o].landed = Bytes(op[o].size - op[o].measure.size)]
    /\ UNCHANGED <<account, begun, faults, history>>

\* The row was changed: the reservation goes back and the cycle runs again.
PinMissed(o, id) ==
    /\ At(o, "write") /\ id \in op[o].todo
    /\ ~PinHolds(id, op[o].measure)
    /\ Goto(o, "retry")
    /\ UNCHANGED <<rows, account, begun, faults, history>>

\* deleteCountedRow, row by row: measured as it is removed. A row that is gone,
\* restored or (withdrawn) created again is neither deleted nor counted.
Walk(o, id) ==
    /\ At(o, "walk") /\ id \in op[o].todo
    /\ op[o].kind = "withdraw" => rows[id].inc = op[o].measure.inc
    /\ Exists(id)
    /\ rows' = [rows EXCEPT ![id] = Removed(id)]
    /\ op' = [op EXCEPT ![o].todo = @ \ {id}, ![o].landed = Adding(o, Removal(id))]
    /\ UNCHANGED <<account, begun, faults, history>>

WalkEnds(o) ==
    /\ At(o, "walk")
    /\ Goto(o, "settle")
    /\ UNCHANGED <<rows, account, begun, faults, history>>

\* A rotation rewrites each row under the new key, pinned, at whatever size.
Reseal(o, id, size) ==
    /\ At(o, "reseal") /\ id \in op[o].todo /\ Exists(id)
    /\ rows' = [rows EXCEPT ![id] = Rewritten(id, size)]
    /\ op' = [op EXCEPT ![o].todo = @ \ {id},
                        ![o].landed = Adding(o, Bytes(size - rows[id].size))]
    /\ Excuse({"reseal"})
    /\ UNCHANGED <<account, begun, faults>>

ResealEnds(o) ==
    /\ At(o, "reseal")
    /\ Goto(o, "settle")
    /\ UNCHANGED <<rows, account, begun, faults, history>>

-----------------------------------------------------------------------------
(* settleVaultWrite                                                        *)

Correction(o) == Minus(op[o].landed, op[o].resv)

\* A zero correction writes nothing.
Corrected(o) ==
    /\ counter' = Plus(counter, Correction(o))
    /\ UNCHANGED absent
    /\ IF Correction(o) = Zero THEN UNCHANGED <<quiet, recount>> ELSE Touch

Settle(o) ==
    /\ At(o, "settle")
    /\ Corrected(o)
    /\ End(o)
    /\ UNCHANGED <<rows, begun, faults, history>>

\* confirmCreatedRow refused the row (the key moved): withdrawCountedRow takes
\* back that creation of it, touching first.
SettleThenWithdraw(o) ==
    /\ At(o, "settle") /\ op[o].kind = "create" /\ op[o].done # {}
    /\ Corrected(o)
    /\ \E id \in op[o].done :
          op' = [op EXCEPT ![o] = [NoOp EXCEPT !.pc = "reserve", !.kind = "withdraw",
                                     !.todo = {id}, !.measure = op[o].measure]]
    /\ UNCHANGED <<rows, begun, faults, history>>

ReleaseAndRetry(o) ==
    /\ At(o, "retry")
    /\ Corrected(o)
    /\ IF op[o].tries + 1 < Attempts
       THEN op' = [op EXCEPT ![o].pc = "measure", ![o].tries = @ + 1, ![o].resv = Zero]
       ELSE End(o)
    /\ UNCHANGED <<rows, begun, faults, history>>

-----------------------------------------------------------------------------
(* Faults.                                                                 *)

\* The process dies between a reservation and its settle, or the settle fails.
Crash(o) ==
    /\ Holding(o)
    /\ End(o)
    /\ Fault
    /\ UNCHANGED <<rows, account, begun, history>>

\* The outcome of a create's or an update's write is not known (a lost reply): it
\* may have landed, and the reservation is kept (isDefiniteWriteFailure).
OutcomeUnknown(o, id) ==
    /\ op[o].pc \in {"insert", "write"} /\ id \in op[o].todo /\ op[o].kind # "import"
    /\ \/ rows' = rows
       \/ At(o, "insert") /\ ~Exists(id)
             /\ rows' = [rows EXCEPT ![id] = Inserted(id, op[o].size)]
       \/ At(o, "write") /\ PinHolds(id, op[o].measure)
             /\ rows' = [rows EXCEPT ![id] = Rewritten(id, op[o].size)]
    /\ End(o)
    /\ Fault
    /\ UNCHANGED <<account, begun, history>>

\* An import's insert lost its reply: every id it sent is measured.
InsertUnknown(o) ==
    /\ At(o, "insert") /\ op[o].kind = "import"
    /\ op' = [op EXCEPT ![o].pc = "landed", ![o].done = @ \cup op[o].todo]
    /\ Fault
    /\ UNCHANGED <<rows, account, begun, history>>

\* UnknownTransactionCommitResult: kept.
CommitUnknown(o) ==
    /\ At(o, "txn")
    /\ LET S == op[o].todo IN
         \/ rows' = rows
         \/ /\ \A id \in S : ~Exists(id)
            /\ rows' = [id \in Ids |-> IF id \in S THEN Inserted(id, op[o].size) ELSE rows[id]]
    /\ End(o)
    /\ Fault
    /\ UNCHANGED <<account, begun, history>>

\* A delete landed and its reply was lost: what was tallied is still settled.
WalkUnknown(o, id) ==
    /\ At(o, "walk") /\ id \in op[o].todo /\ Exists(id) /\ op[o].kind = "remove"
    /\ rows' = [rows EXCEPT ![id] = Removed(id)]
    /\ Goto(o, "settle")
    /\ Fault
    /\ UNCHANGED <<account, begun, history>>

-----------------------------------------------------------------------------
(* recountVaultQuotas                                                      *)

recounting == <<rows, op, begun>>

\* Mutant: any account is a candidate, a busy one too.
RecountBusy ==
    /\ recount.pc = "idle"
    /\ recount' = [NoRecount EXCEPT !.pc = "folders", !.total = ItemTotals]
    /\ UNCHANGED <<recounting, counter, absent, quiet, faults, history>>

\* A candidate has had no counted write for the whole quiescence. Its epoch is
\* read, then the first aggregate runs.
RecountItems ==
    /\ recount.pc = "idle" /\ quiet
    /\ recount' = [NoRecount EXCEPT !.pc = "folders", !.total = ItemTotals]
    /\ UNCHANGED <<recounting, counter, absent, quiet, faults, history>>

RecountFolders ==
    /\ recount.pc = "folders"
    /\ recount' = [recount EXCEPT !.pc = "write", !.total = Plus(@, FolderTotals)]
    /\ UNCHANGED <<recounting, counter, absent, quiet, faults, history>>

\* Mutant: the recount corrects the bytes and leaves the row counts as they are.
RecountWriteBytes ==
    /\ recount.pc = "write"
    /\ IF recount.unmoved
       THEN /\ counter' = [counter EXCEPT !["bytes"] = recount.total["bytes"]]
            /\ absent' = absent \ {"bytes"} /\ excused' = {}
       ELSE UNCHANGED <<counter, absent, history>>
    /\ recount' = NoRecount
    /\ UNCHANGED <<recounting, quiet, faults, ever>>

\* Written only while the epoch and the time of the last write are as read.
RecountWrite ==
    /\ recount.pc = "write"
    /\ IF recount.unmoved
       THEN counter' = recount.total /\ absent' = {} /\ excused' = {}
       ELSE UNCHANGED <<counter, absent, history>>
    /\ recount' = NoRecount
    /\ UNCHANGED <<recounting, quiet, faults, ever>>

\* An aggregate ran out of time: the account goes to the back of the queue.
RecountFails ==
    /\ recount.pc = "folders"
    /\ recount' = NoRecount
    /\ Fault
    /\ UNCHANGED <<recounting, counter, absent, quiet, history>>

\* The quiescence passes. It is twice the longest time a request holds its
\* account between its reservation and its settle.
Quiesce ==
    /\ ~quiet
    /\ \A o \in Ops : ~Holding(o)
    /\ quiet' = TRUE
    /\ UNCHANGED <<rows, counter, absent, op, recount, begun, faults, history>>

-----------------------------------------------------------------------------
OpStep(o) ==
    \/ Reserve(o) \/ ReserveRefused(o) \/ ReserveAbsent(o)
    \/ CountItems(o) \/ CountFolders(o) \/ Install(o)
    \/ LandedInserts(o) \/ ImportCommit(o)
    \/ \E id \in Ids : Insert(o, id) \/ Measure(o, id) \/ WritePinned(o, id) \/ PinMissed(o, id)
                       \/ Walk(o, id) \/ \E size \in Sizes : Reseal(o, id, size)
    \/ WalkEnds(o) \/ ResealEnds(o)
    \/ Settle(o) \/ SettleThenWithdraw(o) \/ ReleaseAndRetry(o)

OpFails(o) ==
    \/ Crash(o) \/ InsertUnknown(o) \/ CommitUnknown(o)
    \/ \E id \in Ids : OutcomeUnknown(o, id) \/ WalkUnknown(o, id)

RecountStep == RecountItems \/ RecountFolders \/ RecountWrite

Next ==
    \/ \E o \in Ops : (\E r \in Requests : Begin(o, r)) \/ OpStep(o) \/ OpFails(o)
    \/ RecountStep \/ RecountFails
    \/ Quiesce

\* A request that runs goes on, time passes, and the maintenance job runs
\* every hour and takes a quiet account.
Fairness ==
    /\ \A o \in Ops : WF_vars(OpStep(o))
    /\ WF_vars(RecountStep)
    /\ WF_vars(Quiesce)

Spec == Init /\ [][Next]_vars /\ Fairness

-----------------------------------------------------------------------------
(* Properties.                                                             *)

Pcs == {"idle", "measure", "reserve", "count", "count2", "install", "insert", "landed", "txn",
        "write", "retry", "walk", "reseal", "settle"}
Kinds == {"none", "create", "update", "remove", "withdraw", "import", "importTxn", "rotate"}
Amounts == [Dims -> Int]
RowValues == [size : {0} \cup Sizes, v : Nat, inc : Nat]
OpValues ==
    [pc : Pcs, kind : Kinds, todo : SUBSET Ids, done : SUBSET Ids, size : {0} \cup Sizes,
     measure : RowValues, tries : 0..Attempts, resv : Amounts, landed : Amounts, total : Amounts]
RecountValues == [pc : {"idle", "folders", "write"}, total : Amounts, unmoved : BOOLEAN]

TypeOK ==
    /\ rows \in [Ids -> RowValues]
    /\ counter \in Amounts /\ absent \subseteq Dims /\ quiet \in BOOLEAN
    /\ op \in [Ops -> OpValues]
    /\ recount \in RecountValues
    /\ begun \in 0..MaxOps /\ faults \in 0..MaxFaults
    /\ excused \subseteq ever /\ ever \subseteq Excuses

-----------------------------------------------------------------------------
(* What the quota promises.                                                *)

\* A counter that is not installed counts as right; a request is owed what it
\* reserved and has not written.
LedgerCounter == [d \in Dims |-> IF d \in absent THEN Stored[d] ELSE counter[d]]
LedgerClaims == [o \in Ops |-> IF Holding(o) THEN Minus(op[o].resv, op[o].landed) ELSE Zero]

Ledger == INSTANCE VaultLedger WITH
    stored <- Stored, counter <- LedgerCounter, claims <- LedgerClaims

\* Every step of every request, crash, install and recount is a step of the
\* ledger, or none: rows grow only out of their writer's own reservation, and the
\* install and the recount write what is stored while nobody holds one. Except the
\* step of an import that measures landed rows another request has changed.
ImplementsLedger ==
    /\ Ledger!LedgerInit
    /\ [][Ledger!LedgerNext \/ \E o \in Ops : Mismeasured(o) /\ LandedInserts(o)]_(Ledger!ledger)

\* The counters never fall below what is stored and still promised: no sequence of
\* crashes, lost replies, pin misses, reused ids and recounts lets an account store
\* more than it is charged for. Until the next recount, a rotation (it reserves
\* nothing) excuses the bytes, and a mismeasured import all three counters.
NeverUndercounted ==
    /\ excused = {} => Ledger!Covered("bytes")
    /\ "import" \notin excused => Ledger!Covered("item") /\ Ledger!Covered("folder")

\* What is stored, with every promise, is within the quota and the caps.
WithinLimits ==
    /\ ever = {} => Ledger!Within("bytes")
    /\ "import" \notin ever => Ledger!Within("item") /\ Ledger!Within("folder")

\* However many creates, edits and imports race for the last byte or the last row, the
\* quota and the caps hold: no rotation, no mismeasured import, no row too many.
RowCapsHold ==
    /\ ever = {} => Stored["bytes"] <= Quota
    /\ "import" \notin ever => Stored["item"] <= ItemCap /\ Stored["folder"] <= FolderCap

\* Whatever was lost on the way, the counters end up exact: the recount reaches
\* every account that goes quiet.
Converges == <>[](absent = {} /\ counter = Stored)

-----------------------------------------------------------------------------
(* The inductive invariant.                                                *)

\* What the request x has still to write, by its own prediction.
Due(x) ==
    IF x.kind = "update" THEN Growth(x.size - x.measure.size)
    ELSE Predicted([kind |-> x.kind, ids |-> x.todo, size |-> x.size])

\* The kinds of request that come to a step.
KindsAt(pc) ==
    CASE pc \in {"reserve", "count", "count2", "install"} -> Kinds \ {"none"}
      [] pc \in {"measure", "write", "retry"} -> {"update"}
      [] pc = "insert" -> {"create", "import"}
      [] pc = "landed" -> {"import"}
      [] pc = "txn" -> {"importTxn"}
      [] OTHER -> Kinds

\* The books of a request: until it has written its last row it holds exactly what
\* it has still to write.
Balanced(x) ==
    /\ x.kind \in KindsAt(x.pc)
    /\ x.kind \in {"create", "update", "import", "importTxn"} => x.size \in Sizes
    /\ x.kind = "update" => \A id, other \in x.todo : id = other
    /\ x.pc \notin {"insert", "landed", "walk", "reseal", "settle"} => x.landed = Zero
    /\ x.pc \in {"reserve", "count", "count2", "install", "write", "insert", "txn"}
         => Minus(x.resv, x.landed) = Due(x)

\* A pin that holds is on the row that was measured: versions and creations of a
\* row only grow.
Pinned(x) ==
    x.kind = "update" /\ x.pc \in {"reserve", "count", "count2", "install", "write"} =>
        \A id \in x.todo :
            /\ x.measure.inc <= rows[id].inc
            /\ x.measure.inc = rows[id].inc => x.measure.v <= rows[id].v
            /\ PinHolds(id, x.measure) => x.measure.size = rows[id].size

Nobody == \A o \in Ops : ~Holding(o)

\* Until the counters are installed nobody writes, so the aggregates are exact.
InstallIsExact ==
    absent # {} =>
        /\ Nobody
        /\ \A o \in Ops : /\ At(o, "count2") => op[o].total = ItemTotals
                          /\ At(o, "install") => op[o].total = Stored

\* A quiet account has no writer, and neither has one whose recount saw no move.
RecountIsExact ==
    /\ quiet => Nobody
    /\ recount.pc # "idle" /\ recount.unmoved =>
        /\ Nobody
        /\ recount.pc = "folders" => recount.total = ItemTotals
        /\ recount.pc = "write" => recount.total = Stored

\* The counters cover what is stored and promised, with what makes that inductive.
CountersCover ==
    /\ TypeOK
    /\ \A o \in Ops : Balanced(op[o]) /\ Pinned(op[o])
    /\ InstallIsExact /\ RecountIsExact
    /\ NeverUndercounted /\ WithinLimits
=============================================================================
