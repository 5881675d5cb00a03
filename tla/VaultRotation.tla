---------------------------- MODULE VaultRotation ----------------------------
(***************************************************************************)
(* Replacing an account's vault key while other sessions keep writing.     *)
(*                                                                         *)
(* bulkReEncrypt (server/src/controllers/vaultController.ts) stores a set  *)
(* of rows that ONE page enumerated and re-sealed, then the new key's      *)
(* wrapper.  Every other write of ciphertext either re-checks the fence    *)
(* (rotationInProgress) and the generation (vaultKeyVersion) next to its   *)
(* own write (createItem, updateItem, createFolder, updateFolder), or      *)
(* holds the vault-rotation lock across its span (importVault,             *)
(* restoreBackup, completeUpload, changePassword).  Login repairs what a   *)
(* crashed rotation left (server/src/controllers/authController.ts).       *)
(*                                                                         *)
(* A row is what it is sealed under, its __v, and the identity of its      *)
(* ciphertext and of its plaintext; both identities are the value __v had  *)
(* when they were written, which no other ciphertext of that row has, just *)
(* as no two carry the same IV.  A key wrapper is the key and the master   *)
(* password it is sealed under.  Items stands for items and folders, which *)
(* share one code path; Docs for documents, whose rows carry no __v pin.   *)
(***************************************************************************)
EXTENDS Integers, FiniteSets

CONSTANTS
    Items, Docs,    \* row ids
    Stored,         \* the rows the account starts with
    Rotators,       \* PUT /vault/re-encrypt requests
    Writers,        \* create and update requests of items and folders
    Holders,        \* import, restore and document completion requests
    Changers,       \* master password changes
    Modes,          \* what a rotation page may ask for (see RotHold)
    MaxKey,         \* bound: vault keys ever minted
    MaxVersion,     \* bound: no request starts once a row has this __v
    MaxCred,        \* bound: master passwords ever set
    Free, Dead      \* the rotation lock: nobody's, or a crashed holder's

Rows == Items \cup Docs

ASSUME RotationAssumption ==
    /\ IsFiniteSet(Rows) /\ Rows # {} /\ Items \cap Docs = {} /\ Stored \subseteq Rows
    /\ Modes \subseteq {"fresh", "finish", "discard", "reseal"}
    /\ MaxKey \in Nat /\ MaxVersion \in Nat /\ MaxCred \in Nat
    /\ Free # Dead
    /\ {Free, Dead} \cap (Rotators \cup Holders \cup Changers) = {}
    /\ Rotators \cap Holders = {} /\ Rotators \cap Changers = {} /\ Holders \cap Changers = {}

VARIABLES
    user,      \* the account: wrapper, ver, fence, pending wrapper, cred (authHash)
    row,       \* the rows
    lock,      \* vault-rotation:<userId>
    rot,       \* the rotations
    wr,        \* the create and update requests
    hold,      \* the requests that write under the lock
    pw,        \* the password changes
    login,     \* a login that has decided to lower the fence
    nextKey,   \* the next key a page mints
    lost       \* history: what the account gave up, or lost by a known accident

vars == <<user, row, lock, rot, wr, hold, pw, login, nextKey, lost>>

NoWrapper == [key |-> 0, cred |-> 0]
NoRow     == [key |-> 0, v |-> 0, at |-> 0, text |-> 0]
Live(x)   == row[x].key # 0

\* Keys whose pending wrapper was abandoned by name, was replaced by an older one that a
\* password change carried, or was stored under a password already replaced; the rows (with
\* their keys) whose withdrawal failed; did a login lower the fence of a running rotation.
NoLoss == [asked |-> {}, carried |-> {}, outdated |-> {}, rows |-> {}, fence |-> FALSE]

IdleRot ==
    [pc |-> "idle", mode |-> "fresh", new |-> NoWrapper, held |-> 0, ver |-> 0,
     cred |-> 0, seen |-> [x \in Rows |-> NoRow], snap |-> [x \in Rows |-> NoRow],
     done |-> [x \in Rows |-> 0]]
IdleWr   == [pc |-> "idle", row |-> CHOOSE x \in Rows : TRUE, key |-> 0, ver |-> 0, v |-> 0]
IdleHold == [pc |-> "idle", key |-> 0, ver |-> 0]
IdlePw   == [pc |-> "idle", key |-> 0, ver |-> 0, pending |-> 0]

RotPC  == {"idle", "held", "read", "lock", "guard", "snap", "fence", "cover", "write",
           "undo", "restore", "lower", "release", "raise", "txn", "commit"}
WrPC   == {"idle", "fence", "version", "insert", "confirm", "withdraw", "measure",
           "recheck", "write"}
HoldPC == {"idle", "fence", "import", "lock", "refence", "version", "write", "release"}
PwPC   == {"idle", "lock", "guard", "write", "release"}

Wrappers == [key : Nat, cred : Nat]
UserRec  == [wrapper : Wrappers, ver : Nat, fence : BOOLEAN, pending : Wrappers, cred : Nat]
RowRec   == [key : Nat, v : Nat, at : Nat, text : Nat]
RotRec   == [pc : RotPC, mode : {"fresh", "finish", "discard", "reseal"}, new : Wrappers,
             held : Nat, ver : Nat, cred : Nat, seen : [Rows -> RowRec],
             snap : [Rows -> RowRec], done : [Rows -> Nat]]
WrRec    == [pc : WrPC, row : Rows, key : Nat, ver : Nat, v : Nat]
HoldRec  == [pc : HoldPC, key : Nat, ver : Nat]
LossRec  == [asked : SUBSET Nat, carried : SUBSET Nat, outdated : SUBSET Nat,
             rows : SUBSET (Rows \X Nat), fence : BOOLEAN]
PwRec    == [pc : PwPC, key : Nat, ver : Nat, pending : Nat]

TypeOK ==
    /\ user \in UserRec
    /\ row \in [Rows -> RowRec]
    /\ lock \in {Free, Dead} \cup Rotators \cup Holders \cup Changers
    /\ rot \in [Rotators -> RotRec]
    /\ wr \in [Writers -> WrRec]
    /\ hold \in [Holders -> HoldRec]
    /\ pw \in [Changers -> PwRec]
    /\ login \in BOOLEAN
    /\ nextKey \in Nat
    /\ lost \in LossRec

Init ==
    /\ user = [wrapper |-> [key |-> 1, cred |-> 1], ver |-> 0, fence |-> FALSE,
               pending |-> NoWrapper, cred |-> 1]
    /\ row = [x \in Rows |-> IF x \in Stored
                             THEN [key |-> 1, v |-> 1, at |-> 1, text |-> 1] ELSE NoRow]
    /\ lock = Free
    /\ rot = [r \in Rotators |-> IdleRot]
    /\ wr = [w \in Writers |-> IdleWr]
    /\ hold = [h \in Holders |-> IdleHold]
    /\ pw = [c \in Changers |-> IdlePw]
    /\ login = FALSE
    /\ nextKey = 2
    /\ lost = NoLoss

\* The bound on the number of writes.
Room == \A x \in Rows : row[x].v < MaxVersion

\* judgeVaultKeyVersion: the generation a request names is the current one.
Current(ver) == ver = user.ver

\* A fresh ciphertext of new content, sealed under key.
Sealed(x, key) == [key |-> key, v |-> row[x].v + 1, at |-> row[x].v + 1, text |-> row[x].v + 1]

----------------------------------------------------------------------------
(* createItem, updateItem, createFolder, updateFolder *)

WrGoto(w, pc) == wr' = [wr EXCEPT ![w].pc = pc]

\* A page that holds the key of some generation seals a row and sends it.
WrHold(w) ==
    /\ wr[w].pc = "idle" /\ Room
    /\ \E x \in Items : wr' = [wr EXCEPT ![w] =
            [pc |-> "fence", row |-> x, key |-> user.wrapper.key, ver |-> user.ver, v |-> 0]]
    /\ UNCHANGED <<user, row, lock, rot, hold, pw, login, nextKey, lost>>

\* assertVaultNotRotating
WrFence(w) ==
    /\ wr[w].pc = "fence"
    /\ IF user.fence THEN wr' = [wr EXCEPT ![w] = IdleWr] ELSE WrGoto(w, "version")
    /\ UNCHANGED <<user, row, lock, rot, hold, pw, login, nextKey, lost>>

\* resolveVaultKeyVersion; an id the database has never seen is a create.
WrVersion(w) ==
    /\ wr[w].pc = "version"
    /\ IF Current(wr[w].ver)
       THEN WrGoto(w, IF row[wr[w].row].v = 0 THEN "insert" ELSE "measure")
       ELSE wr' = [wr EXCEPT ![w] = IdleWr]
    /\ UNCHANGED <<user, row, lock, rot, hold, pw, login, nextKey, lost>>

\* createCountedRow; a taken id is a conflict.
WrInsert(w) ==
    /\ wr[w].pc = "insert"
    /\ LET x == wr[w].row IN
       IF row[x].v = 0
       THEN row' = [row EXCEPT ![x] = Sealed(x, wr[w].key)] /\ WrGoto(w, "confirm")
       ELSE row' = row /\ wr' = [wr EXCEPT ![w] = IdleWr]
    /\ UNCHANGED <<user, lock, rot, hold, pw, login, nextKey, lost>>

\* Mutant: only the generation is looked at again.
ConfirmVersionOnly(w) ==
    /\ wr[w].pc = "confirm"
    /\ IF Current(wr[w].ver) THEN wr' = [wr EXCEPT ![w] = IdleWr] ELSE WrGoto(w, "withdraw")
    /\ UNCHANGED <<user, row, lock, rot, hold, pw, login, nextKey, lost>>

\* confirmCreatedRow: assertVaultWritable once more, after the insert.
WrConfirm(w) ==
    /\ wr[w].pc = "confirm"
    /\ IF ~user.fence /\ Current(wr[w].ver)
       THEN wr' = [wr EXCEPT ![w] = IdleWr] ELSE WrGoto(w, "withdraw")
    /\ UNCHANGED <<user, row, lock, rot, hold, pw, login, nextKey, lost>>

\* withdrawCountedRow
WrWithdraw(w) ==
    /\ wr[w].pc = "withdraw"
    /\ row' = [row EXCEPT ![wr[w].row].key = 0]
    /\ wr' = [wr EXCEPT ![w] = IdleWr]
    /\ UNCHANGED <<user, lock, rot, hold, pw, login, nextKey, lost>>

\* A withdrawal that fails is logged and the row stays, under whatever key it has.
WrWithdrawFails(w) ==
    /\ wr[w].pc = "withdraw"
    /\ wr' = [wr EXCEPT ![w] = IdleWr]
    /\ lost' = [lost EXCEPT !.rows = @ \cup {<<wr[w].row, wr[w].key>>}]
    /\ UNCHANGED <<user, row, lock, rot, hold, pw, login, nextKey>>

\* updateCountedRow: the row is measured, then the fence and the generation
\* are read together, then the write is pinned on the measured __v.
WrMeasure(w) ==
    /\ wr[w].pc = "measure"
    /\ wr' = IF Live(wr[w].row)
             THEN [wr EXCEPT ![w].pc = "recheck", ![w].v = row[wr[w].row].v]
             ELSE [wr EXCEPT ![w] = IdleWr]
    /\ UNCHANGED <<user, row, lock, rot, hold, pw, login, nextKey, lost>>

WrRecheck(w) ==
    /\ wr[w].pc = "recheck"
    /\ IF ~user.fence /\ Current(wr[w].ver)
       THEN WrGoto(w, "write") ELSE wr' = [wr EXCEPT ![w] = IdleWr]
    /\ UNCHANGED <<user, row, lock, rot, hold, pw, login, nextKey, lost>>

\* A missed pin measures again, or gives up after the last attempt.
WrWrite(w) ==
    /\ wr[w].pc = "write"
    /\ LET x == wr[w].row IN
       IF Live(x) /\ row[x].v = wr[w].v
       THEN /\ row' = [row EXCEPT ![x] = Sealed(x, wr[w].key)]
            /\ wr' = [wr EXCEPT ![w] = IdleWr]
       ELSE /\ row' = row
            /\ WrGoto(w, "measure") \/ wr' = [wr EXCEPT ![w] = IdleWr]
    /\ UNCHANGED <<user, lock, rot, hold, pw, login, nextKey, lost>>

\* permanentDelete, emptyTrash, deleteFolder, the trash jobs and the document
\* purges: no ciphertext, so neither the fence nor the lock is asked.
RowDelete(x) ==
    /\ Live(x)
    /\ row' = [row EXCEPT ![x].key = 0]
    /\ UNCHANGED <<user, lock, rot, wr, hold, pw, login, nextKey, lost>>

----------------------------------------------------------------------------
(* importVault, restoreBackup and completeUpload, under the rotation lock *)

HoldGoto(h, pc) == hold' = [hold EXCEPT ![h].pc = pc]

\* importVault reads the fence before it takes the lock, the others after.
HoldBegin(h) ==
    /\ hold[h].pc = "idle" /\ Room
    /\ \E pc \in {"fence", "lock"} :
        hold' = [hold EXCEPT ![h] = [pc |-> pc, key |-> user.wrapper.key, ver |-> user.ver]]
    /\ UNCHANGED <<user, row, lock, rot, wr, pw, login, nextKey, lost>>

HoldFenceFirst(h) ==
    /\ hold[h].pc = "fence"
    /\ IF user.fence THEN hold' = [hold EXCEPT ![h] = IdleHold] ELSE HoldGoto(h, "import")
    /\ UNCHANGED <<user, row, lock, rot, wr, pw, login, nextKey, lost>>

\* acquireVaultRotationLock, non-blocking: a held lock is a 409.
HoldLock(h) ==
    /\ hold[h].pc \in {"import", "lock"}
    /\ IF lock = Free
       THEN lock' = h /\ HoldGoto(h, IF hold[h].pc = "import" THEN "version" ELSE "refence")
       ELSE lock' = lock /\ hold' = [hold EXCEPT ![h] = IdleHold]
    /\ UNCHANGED <<user, row, rot, wr, pw, login, nextKey, lost>>

HoldFence(h) ==
    /\ hold[h].pc = "refence"
    /\ HoldGoto(h, IF user.fence THEN "release" ELSE "version")
    /\ UNCHANGED <<user, row, lock, rot, wr, pw, login, nextKey, lost>>

\* assertVaultKeyVersion, under the lock.
HoldVersion(h) ==
    /\ hold[h].pc = "version"
    /\ HoldGoto(h, IF Current(hold[h].ver) THEN "write" ELSE "release")
    /\ UNCHANGED <<user, row, lock, rot, wr, pw, login, nextKey, lost>>

\* Any number of rows: a new one, or an item overwritten on its measured __v.
HoldWrite(h) ==
    /\ hold[h].pc = "write" /\ Room
    /\ \E x \in Rows :
        /\ row[x].v = 0 \/ (x \in Items /\ Live(x))
        /\ row' = [row EXCEPT ![x] = Sealed(x, hold[h].key)]
    /\ UNCHANGED <<user, lock, rot, wr, hold, pw, login, nextKey, lost>>

HoldRelease(h) ==
    /\ hold[h].pc \in {"write", "release"}
    /\ lock' = IF lock = h THEN Free ELSE lock
    /\ hold' = [hold EXCEPT ![h] = IdleHold]
    /\ UNCHANGED <<user, row, rot, wr, pw, login, nextKey, lost>>

----------------------------------------------------------------------------
(* changePassword *)

PwGoto(c, pc) == pw' = [pw EXCEPT ![c].pc = pc]

\* The page re-wraps the key it holds and any pending key the profile showed
\* it, which its password must open (rewrapPendingVaultKey); the current
\* password is proved against the authHash read here.
PwHold(c) ==
    /\ pw[c].pc = "idle" /\ user.cred < MaxCred
    /\ user.pending \in {NoWrapper, [key |-> user.pending.key, cred |-> user.cred]}
    /\ pw' = [pw EXCEPT ![c] = [pc |-> "lock", key |-> user.wrapper.key, ver |-> user.ver,
                                pending |-> user.pending.key]]
    /\ UNCHANGED <<user, row, lock, rot, wr, hold, login, nextKey, lost>>

PwLock(c) ==
    /\ pw[c].pc = "lock"
    /\ IF lock = Free
       THEN lock' = c /\ PwGoto(c, "guard")
       ELSE lock' = lock /\ pw' = [pw EXCEPT ![c] = IdlePw]
    /\ UNCHANGED <<user, row, rot, wr, hold, login, nextKey, lost>>

\* The fence, the generation, and an interrupted rotation the request must
\* carry: three reads of fields that only a holder of the lock writes, apart
\* from login's lowering of the fence.
PwGuard(c) ==
    /\ pw[c].pc = "guard"
    /\ PwGoto(c, IF /\ ~user.fence /\ Current(pw[c].ver)
                    /\ user.pending = NoWrapper \/ pw[c].pending # 0
                 THEN "write" ELSE "release")
    /\ UNCHANGED <<user, row, lock, rot, wr, hold, login, nextKey, lost>>

\* One update filtered on the generation: the hash and both wrappers move
\* together, and a pending wrapper nobody stored is not invented.
PwWrite(c) ==
    /\ pw[c].pc = "write"
    /\ LET cred == user.cred + 1 IN
       user' = IF Current(pw[c].ver)
               THEN [user EXCEPT !.cred = cred,
                                 !.wrapper = [key |-> pw[c].key, cred |-> cred],
                                 !.pending = IF @ = NoWrapper THEN @
                                             ELSE [key |-> pw[c].pending, cred |-> cred]]
               ELSE user
    /\ lost' = IF user'.pending.key = user.pending.key THEN lost
               ELSE [lost EXCEPT !.carried = @ \cup {user.pending.key}]
    /\ PwGoto(c, "release")
    /\ UNCHANGED <<row, lock, rot, wr, hold, login, nextKey>>

PwRelease(c) ==
    /\ pw[c].pc = "release"
    /\ lock' = IF lock = c THEN Free ELSE lock
    /\ pw' = [pw EXCEPT ![c] = IdlePw]
    /\ UNCHANGED <<user, row, rot, wr, hold, login, nextKey, lost>>

----------------------------------------------------------------------------
(* bulkReEncrypt *)

\* On its way out a request no longer uses what it read.
RotGoto(r, pc) ==
    rot' = [rot EXCEPT ![r] = IF pc \in {"lower", "release"}
                              THEN [IdleRot EXCEPT !.pc = pc] ELSE [@ EXCEPT !.pc = pc]]

\* The page decides what it will send, with the key and generation it holds:
\* a rotation to a key it mints, the end of an interrupted one, a rotation
\* that abandons an interrupted one, or a re-seal under the key it has.  It
\* can only finish with a pending wrapper that its password opens.
RotHold(r) ==
    /\ rot[r].pc = "idle" /\ Room
    /\ \E m \in Modes :
        /\ m \in {"fresh", "discard"} => nextKey <= MaxKey
        /\ m = "finish" => user.pending # NoWrapper /\ user.pending.cred = user.cred
        /\ nextKey' = IF m \in {"fresh", "discard"} THEN nextKey + 1 ELSE nextKey
        /\ rot' = [rot EXCEPT ![r] = [IdleRot EXCEPT
                !.pc = "held", !.mode = m, !.held = user.wrapper.key, !.ver = user.ver,
                !.cred = user.cred,
                !.new = CASE m = "reseal" -> user.wrapper
                          [] m = "finish" -> user.pending
                          [] OTHER -> [key |-> nextKey, cred |-> user.cred]]]
    /\ UNCHANGED <<user, row, lock, wr, hold, pw, login, lost>>

\* Every row, trash included, is read and sealed again.
RotEnumerate(r) ==
    /\ rot[r].pc = "held"
    /\ rot' = [rot EXCEPT ![r].pc = "read",
                          ![r].seen = [x \in Rows |-> IF Live(x) THEN row[x] ELSE NoRow]]
    /\ UNCHANGED <<user, row, lock, wr, hold, pw, login, nextKey, lost>>

\* The rows the payload names, those of them the page could open, and what it
\* sends for one: sealed under the new key, or the ciphertext as it was read.
Payload(r)  == {x \in Rows : rot[r].seen[x].key # 0}
Opened(r)   == {x \in Payload(r) : rot[r].seen[x].key \in {rot[r].held, rot[r].new.key}}
Resealed(r, x) ==
    IF x \in Opened(r)
    THEN [key |-> rot[r].new.key, v |-> row[x].v + 1, at |-> row[x].v + 1,
          text |-> rot[r].seen[x].text]
    ELSE [rot[r].seen[x] EXCEPT !.v = row[x].v + 1]

\* Mutant: a page that names the ids it read and not their IVs.
NoReadPin(r, x, stored) == stored.key # 0

\* itemReadPin and folderReadPin: the stored ciphertext is the one that was
\* read.  A document carries no pin.
ReadPin(r, x, stored) ==
    stored.key # 0 /\ (x \in Items => stored.at = rot[r].seen[x].at)

\* The bcrypt compare against the authHash as it is now, before any lock.
RotAuth(r) ==
    /\ rot[r].pc = "read"
    /\ rot' = [rot EXCEPT ![r] = IF user.cred = @.cred THEN [@ EXCEPT !.pc = "lock"] ELSE IdleRot]
    /\ UNCHANGED <<user, row, lock, wr, hold, pw, login, nextKey, lost>>

RotLock(r) ==
    /\ rot[r].pc = "lock"
    /\ IF lock = Free
       THEN lock' = r /\ RotGoto(r, "guard")
       ELSE lock' = lock /\ rot' = [rot EXCEPT ![r] = IdleRot]
    /\ UNCHANGED <<user, row, wr, hold, pw, login, nextKey, lost>>

\* Mutant: an interrupted rotation does not stop another.
GuardIgnoresPending(r) ==
    /\ rot[r].pc = "guard"
    /\ \E path \in {"raise", "snap"} :
        RotGoto(r, IF /\ Current(rot[r].ver)
                      /\ rot[r].mode = "reseal" => user.wrapper = rot[r].new
                   THEN path ELSE "release")
    /\ UNCHANGED <<user, row, lock, wr, hold, pw, login, nextKey, lost>>

\* A re-seal needs the stored wrapper to be its own; everyone the current
\* generation; and an outstanding rotation is finished or abandoned by name.
\* supportsTransactions asks the connection at this instant (a replica set, and
\* connected), so a request may find itself on either path.
RotGuard(r) ==
    /\ rot[r].pc = "guard"
    /\ \E path \in {"raise", "snap"} :
        RotGoto(r, IF /\ Current(rot[r].ver)
                      /\ rot[r].mode = "reseal" => user.wrapper = rot[r].new
                      /\ user.pending \in {NoWrapper, rot[r].new} \/ rot[r].mode = "discard"
                   THEN path ELSE "release")
    /\ UNCHANGED <<user, row, lock, wr, hold, pw, login, nextKey, lost>>

Count(S) == Cardinality(S)

\* assertRotationCoversEveryRow: as many distinct ids as rows, per collection.
Covers(r, stored) ==
    /\ Count(Payload(r) \cap Items) = Count({x \in Items : stored[x].key # 0})
    /\ Count(Payload(r) \cap Docs)  = Count({x \in Docs : stored[x].key # 0})

\* The commit of a rotation, filtered on the authHash this request proved; a
\* re-seal's, filtered on the wrapper and the generation.
CommitMatches(r) ==
    IF rot[r].mode = "reseal"
    THEN user.wrapper = rot[r].new /\ Current(rot[r].ver)
    ELSE user.cred = rot[r].cred

Committed(r, fence) ==
    IF rot[r].mode = "reseal"
    THEN [user EXCEPT !.fence = fence]
    ELSE [user EXCEPT !.wrapper = rot[r].new, !.ver = @ + 1, !.pending = NoWrapper,
                      !.fence = fence]

\* A rotation asked to abandon an interrupted one gives its key up.
Abandoning(r) ==
    IF rot[r].mode = "discard" /\ user.pending # NoWrapper
    THEN [lost EXCEPT !.asked = @ \cup {user.pending.key}] ELSE lost

(* The sequential path: no transactions *)

\* The snapshots, the missing ids and the read pins: before the fence.
RotSnapshot(r) ==
    /\ rot[r].pc = "snap"
    /\ IF \A x \in Payload(r) : ReadPin(r, x, row[x])
       THEN rot' = [rot EXCEPT ![r].pc = "fence", ![r].snap = row]
       ELSE RotGoto(r, "release")
    /\ UNCHANGED <<user, row, lock, wr, hold, pw, login, nextKey, lost>>

\* The fence and the pending wrapper, in one write filtered on _id alone.
RotFence(r) ==
    /\ rot[r].pc = "fence"
    /\ user' = IF rot[r].mode = "reseal" THEN [user EXCEPT !.fence = TRUE]
               ELSE [user EXCEPT !.fence = TRUE, !.pending = rot[r].new]
    /\ lost' = [Abandoning(r) EXCEPT
           !.outdated = IF rot[r].mode # "reseal" /\ rot[r].new.cred # user.cred
                        THEN @ \cup {rot[r].new.key} ELSE @]
    /\ RotGoto(r, "cover")
    /\ UNCHANGED <<row, lock, wr, hold, pw, login, nextKey>>

RotCover(r) ==
    /\ rot[r].pc = "cover"
    /\ RotGoto(r, IF Covers(r, row) THEN "write" ELSE "lower")
    /\ UNCHANGED <<user, row, lock, wr, hold, pw, login, nextKey, lost>>

\* Items and folders first, documents last; what is still to be written.
Pending(r) == {x \in Payload(r) : rot[r].done[x] = 0}
Turn(r)    == IF Pending(r) \cap Items # {} THEN Pending(r) \cap Items ELSE Pending(r)

\* writePinnedRow, or the unpinned write of a document.  The row is stored,
\* or a missing row, a missed pin or an error stops the loop.
RotWrite(r) ==
    /\ rot[r].pc = "write"
    /\ \E x \in Turn(r) :
        \/ /\ ReadPin(r, x, row[x])
           /\ row' = [row EXCEPT ![x] = Resealed(r, x)]
           /\ rot' = [rot EXCEPT ![r].done[x] = Resealed(r, x).at]
        \/ row' = row /\ RotGoto(r, "undo")
        \/ /\ ReadPin(r, x, row[x])    \* applied, and the reply lost
           /\ row' = [row EXCEPT ![x] = Resealed(r, x)]
           /\ RotGoto(r, "undo")
    /\ UNCHANGED <<user, lock, wr, hold, pw, login, nextKey, lost>>

\* Mutant: the key is replaced whatever password it was sealed under.
KeyWriteUnfiltered(r) ==
    /\ rot[r].pc = "write" /\ Pending(r) = {}
    /\ user' = Committed(r, FALSE)
    /\ RotGoto(r, "release")
    /\ UNCHANGED <<row, lock, wr, hold, pw, login, nextKey, lost>>

\* The wrapper, the generation, the fence and the pending wrapper in one
\* write; a missed filter or an error, after it applied or not, undoes.
RotKeyWrite(r) ==
    /\ rot[r].pc = "write" /\ Pending(r) = {}
    /\ \/ CommitMatches(r) /\ user' = Committed(r, FALSE) /\ RotGoto(r, "release")
       \/ CommitMatches(r) /\ user' = Committed(r, FALSE) /\ RotGoto(r, "undo")
       \/ user' = user /\ RotGoto(r, "undo")
    /\ UNCHANGED <<row, lock, wr, hold, pw, login, nextKey, lost>>

\* rollbackPartialWrites: never for a re-seal, and never once the account
\* holds the new wrapper or will not say (rollbackWouldDestroyACommittedRotation).
RotUndo(r) ==
    /\ rot[r].pc = "undo"
    /\ \/ RotGoto(r, "lower")
       \/ /\ rot[r].mode # "reseal" /\ user.wrapper # rot[r].new
          /\ RotGoto(r, "restore")
    /\ UNCHANGED <<user, row, lock, wr, hold, pw, login, nextKey, lost>>

\* One row put back, if it still carries this rotation's ciphertext (a
\* document whatever it carries); a failure leaves it and goes on.
RotRestore(r) ==
    /\ rot[r].pc = "restore"
    /\ \E x \in Rows :
        /\ rot[r].done[x] # 0
        /\ rot' = [rot EXCEPT ![r].done[x] = 0]
        /\ \/ /\ Live(x) /\ (x \in Items => row[x].at = rot[r].done[x])
              /\ row' = [row EXCEPT ![x] = [rot[r].snap[x] EXCEPT !.v = row[x].v + 1]]
           \/ row' = row
    /\ UNCHANGED <<user, lock, wr, hold, pw, login, nextKey, lost>>

RotRestored(r) ==
    /\ rot[r].pc = "restore" /\ \A x \in Rows : rot[r].done[x] = 0
    /\ RotGoto(r, "lower")
    /\ UNCHANGED <<user, row, lock, wr, hold, pw, login, nextKey, lost>>

\* lowerRotationFence: the fence and nothing else; it may fail.
RotLower(r) ==
    /\ rot[r].pc = "lower"
    /\ user' \in {user, [user EXCEPT !.fence = FALSE]}
    /\ RotGoto(r, "release")
    /\ UNCHANGED <<row, lock, wr, hold, pw, login, nextKey, lost>>

RotRelease(r) ==
    /\ rot[r].pc = "release"
    /\ lock' = IF lock = r THEN Free ELSE lock
    /\ rot' = [rot EXCEPT ![r] = IdleRot]
    /\ UNCHANGED <<user, row, wr, hold, pw, login, nextKey, lost>>

(* The transactional path *)

\* The fence goes up OUTSIDE the transaction, so that others see it.
RotRaise(r) ==
    /\ rot[r].pc = "raise"
    /\ user' = [user EXCEPT !.fence = TRUE]
    /\ RotGoto(r, "txn")
    /\ UNCHANGED <<row, lock, wr, hold, pw, login, nextKey, lost>>

\* The transaction reads the state it starts from.
RotTxnBegin(r) ==
    /\ rot[r].pc = "txn"
    /\ rot' = [rot EXCEPT ![r].pc = "commit", ![r].snap = row]
    /\ UNCHANGED <<user, row, lock, wr, hold, pw, login, nextKey, lost>>

\* Everything it checks, it checks in that state.  A row it writes that has
\* moved since is a write conflict, and the transaction starts over; a row
\* inserted since is neither counted nor in conflict.
TxnAccepts(r) ==
    /\ \A x \in Payload(r) : ReadPin(r, x, rot[r].snap[x])
    /\ Covers(r, rot[r].snap)
    /\ CommitMatches(r)

RotTxnCommit(r) ==
    /\ rot[r].pc = "commit"
    /\ IF \E x \in Payload(r) : row[x] # rot[r].snap[x]
       THEN RotGoto(r, "txn") /\ UNCHANGED <<user, row, lost>>
       ELSE /\ RotGoto(r, "lower")
            /\ \/ /\ TxnAccepts(r)
                  /\ row' = [x \in Rows |-> IF x \in Payload(r) THEN Resealed(r, x) ELSE row[x]]
                  /\ user' = Committed(r, user.fence)
                  /\ lost' = Abandoning(r)
               \/ UNCHANGED <<user, row, lost>>
    /\ UNCHANGED <<lock, wr, hold, pw, login, nextKey>>

----------------------------------------------------------------------------
(* Login, crashes, the lease *)

\* login: the fence is up and no unexpired lock row exists.
LoginDecide ==
    /\ ~login
    /\ user.fence /\ lock = Free
    /\ login' = TRUE
    /\ UNCHANGED <<user, row, lock, rot, wr, hold, pw, nextKey, lost>>

\* Mutant: login lowers any fence it finds.
LoginUnlocked ==
    /\ user.fence
    /\ user' = [user EXCEPT !.fence = FALSE]
    /\ login' = FALSE
    /\ UNCHANGED <<row, lock, rot, wr, hold, pw, nextKey, lost>>

\* A rotation whose fence keeps others out.
Fenced(r) == rot[r].pc \in {"cover", "write", "undo", "restore", "txn", "commit"}

\* The write that follows the check, filtered on _id alone; a rotation may have
\* taken the lock in between.
LoginLower ==
    /\ login
    /\ user' = [user EXCEPT !.fence = FALSE]
    /\ login' = FALSE
    /\ lost' = [lost EXCEPT !.fence = @ \/ \E r \in Rotators : Fenced(r)]
    /\ UNCHANGED <<row, lock, rot, wr, hold, pw, nextKey>>

\* Login gives up: it failed.
LoginEnds ==
    /\ login
    /\ login' = FALSE
    /\ UNCHANGED <<user, row, lock, rot, wr, hold, pw, nextKey, lost>>

Orphaned(r) == IF lock = r THEN Dead ELSE lock

CrashRot(r) ==
    /\ rot[r].pc # "idle"
    /\ rot' = [rot EXCEPT ![r] = IdleRot]
    /\ lock' = Orphaned(r)
    /\ UNCHANGED <<user, row, wr, hold, pw, login, nextKey, lost>>

CrashHold(h) ==
    /\ hold[h].pc # "idle"
    /\ hold' = [hold EXCEPT ![h] = IdleHold]
    /\ lock' = Orphaned(h)
    /\ UNCHANGED <<user, row, rot, wr, pw, login, nextKey, lost>>

CrashPw(c) ==
    /\ pw[c].pc # "idle"
    /\ pw' = [pw EXCEPT ![c] = IdlePw]
    /\ lock' = Orphaned(c)
    /\ UNCHANGED <<user, row, rot, wr, hold, login, nextKey, lost>>

\* VAULT_ROTATION_LOCK_TTL_MS after a crash.
LockLapses ==
    /\ lock = Dead
    /\ lock' = Free
    /\ UNCHANGED <<user, row, rot, wr, hold, pw, login, nextKey, lost>>

----------------------------------------------------------------------------
WrStep(w) ==
    \/ WrHold(w) \/ WrFence(w) \/ WrVersion(w) \/ WrInsert(w) \/ WrConfirm(w)
    \/ WrWithdraw(w) \/ WrWithdrawFails(w) \/ WrMeasure(w) \/ WrRecheck(w) \/ WrWrite(w)

HoldStep(h) ==
    \/ HoldBegin(h) \/ HoldFenceFirst(h) \/ HoldLock(h) \/ HoldFence(h) \/ HoldVersion(h)
    \/ HoldWrite(h) \/ HoldRelease(h) \/ CrashHold(h)

PwStep(c) ==
    \/ PwHold(c) \/ PwLock(c) \/ PwGuard(c) \/ PwWrite(c) \/ PwRelease(c) \/ CrashPw(c)

RotSequential(r) ==
    \/ RotSnapshot(r) \/ RotFence(r) \/ RotCover(r) \/ RotWrite(r) \/ RotKeyWrite(r)
    \/ RotUndo(r) \/ RotRestore(r) \/ RotRestored(r)

RotTransactional(r) == RotRaise(r) \/ RotTxnBegin(r) \/ RotTxnCommit(r)

RotStep(r) ==
    \/ RotHold(r) \/ RotEnumerate(r) \/ RotAuth(r) \/ RotLock(r) \/ RotGuard(r)
    \/ RotSequential(r) \/ RotTransactional(r) \/ RotLower(r) \/ RotRelease(r) \/ CrashRot(r)

Next ==
    \/ \E w \in Writers : WrStep(w)
    \/ \E x \in Rows : RowDelete(x)
    \/ \E h \in Holders : HoldStep(h)
    \/ \E c \in Changers : PwStep(c)
    \/ \E r \in Rotators : RotStep(r)
    \/ LoginDecide \/ LoginLower \/ LoginEnds \/ LockLapses

Spec == Init /\ [][Next]_vars

----------------------------------------------------------------------------
(* What a rotation promises *)

\* Row x opens with what the account stores and the password that signs in.
Opens(x) ==
    \/ row[x].key = user.wrapper.key
    \/ row[x].key = user.pending.key /\ user.pending.cred = user.cred

\* A create that has yet to read the fence and the generation again, and to take its
\* row back unless its key is current (controllerHelpers.ts:812-836).
Confirming(x, k) ==
    \E w \in Writers :
        wr[w].row = x /\ wr[w].key = k /\ wr[w].pc \in {"confirm", "withdraw"}

\* Row x opens, or is being taken back, or a request asked to give its key up.
Spoken(x) == Opens(x) \/ Confirming(x, row[x].key) \/ row[x].key \in lost.asked

\* Every stored row opens with the current key or with the pending one an interrupted
\* rotation left, except for what the account is known to have lost: a row whose
\* withdrawal failed (controllerHelpers.ts:984-987); a pending key whose wrapper was
\* stored under a replaced password (vaultController.ts:1499), or replaced by an older
\* one that a password change carried (userController.ts:726); and whatever a
\* rotation whose fence a login lowered left behind (authController.ts:891).
EveryRowOpens ==
    \A x \in Rows : Live(x) =>
        \/ Spoken(x)
        \/ <<x, row[x].key>> \in lost.rows
        \/ row[x].key \in lost.carried \cup lost.outdated
        \/ lost.fence

\* Login strands no row: the fence it lowers is never a running rotation's
\* (authController.ts:876-877).
LoginStrandsNoRow ==
    \A x \in Rows : Live(x) => Spoken(x) \/ <<x, row[x].key>> \in lost.rows

\* The stored wrapper is always sealed under the password that signs in: a
\* rotation that proved an older password never replaces it
\* (vaultController.ts:988-1012).
WrapperOpens == user.wrapper.cred = user.cred

\* A rotation or its rollback never replaces the plaintext of a row by an
\* older one: an edit saved after the page read the vault survives
\* (vaultController.ts:179-190).
EditsSurvive ==
    [][\A x \in Rows : Live(x) /\ row'[x].key # 0 => row'[x].text >= row[x].text]_vars

----------------------------------------------------------------------------
(* The exclusion the promises rest on *)

\* The rotation lock excludes: whoever is inside is named by its row, for as
\* long as it lives (a lease that ends under a living holder is not modelled).
LockNamesHolder ==
    /\ \A r \in Rotators : rot[r].pc \notin {"idle", "held", "read", "lock"} => lock = r
    /\ \A h \in Holders :
        hold[h].pc \in {"refence", "version", "write", "release"} => lock = h
    /\ \A c \in Changers : pw[c].pc \in {"guard", "write", "release"} => lock = c

\* The fence is up from before the first row of a rotation is rewritten until
\* its key is stored or its last row put back: a failed request that may still
\* put rows back has its fence, unless the account holds the new wrapper.
FenceCoversRotation ==
    \A r \in Rotators :
        /\ rot[r].pc \in {"cover", "write", "restore", "txn", "commit"} => user.fence
        /\ rot[r].pc = "undo" =>
            user.fence \/ rot[r].mode = "reseal" \/ user.wrapper = rot[r].new

\* Nobody but the rotation itself lowers its fence: a login lowers one that it saw
\* without a lock (authController.ts:849-891), unless a rotation came in between.
ExclusionInv ==
    /\ TypeOK
    /\ LockNamesHolder
    /\ ~lost.fence => FenceCoversRotation

----------------------------------------------------------------------------
(* Why no edit is undone *)

\* Every ciphertext of a row that somebody still has: the stored one, the one
\* a page read, the one a rotation would put back.
Copies(x) == {row[x]} \cup {rot[r].seen[x] : r \in Rotators} \cup {rot[r].snap[x] : r \in Rotators}

\* A copy is no younger than the row, and its plaintext no younger than it; a
\* document is only ever uploaded once.
Dated ==
    \A x \in Rows : \A c \in Copies(x) :
        /\ c.text <= c.at /\ c.at <= row[x].v
        /\ c.key # 0 => 1 <= c.at
        /\ c.key # 0 /\ x \in Docs => c.text = 1

\* An IV names one ciphertext.
CopiesAgree ==
    \A x \in Rows : \A a, b \in Copies(x) :
        a.at = b.at /\ a.key # 0 /\ b.key # 0 => a.key = b.key /\ a.text = b.text

\* Only a completed upload writes a document.
WritersWriteItems == \A w \in Writers : wr[w].pc # "idle" => wr[w].row \in Items

\* What a sequential rotation would put back is what its page had read, and
\* as long as a row carries the rotation's ciphertext nobody edited it since.
PutsBackWhatWasRead(r) ==
    /\ rot[r].pc \in {"fence", "cover", "write"} =>
        \A x \in Payload(r) : ReadPin(r, x, rot[r].snap[x])
    /\ \A x \in Rows : rot[r].done[x] # 0 =>
        /\ rot[r].pc \in {"write", "undo", "restore"}
        /\ rot[r].done[x] <= row[x].v
        /\ row[x].at = rot[r].done[x] /\ Live(x) /\ rot[r].snap[x].key # 0 =>
            row[x].text = rot[r].snap[x].text

EditInv == Dated /\ CopiesAgree /\ \A r \in Rotators : PutsBackWhatWasRead(r)

----------------------------------------------------------------------------
(* Why every row opens *)

\* A key the account stores, or gave up: a copy under it is accounted for, and so is a
\* row that its create is taking back, or could not.
Known(k) == k \in {0, user.wrapper.key, user.pending.key} \cup lost.asked \cup lost.carried
Unconfirmed(x, k) == Confirming(x, k) \/ <<x, k>> \in lost.rows
Kept(x, k) == Known(k) \/ Unconfirmed(x, k)

\* A pending wrapper opens with the password that signs in, or is known not to.
PendingOpens ==
    user.pending # NoWrapper => user.pending.cred = user.cred \/ user.pending.key \in lost.outdated

\* No update that has passed its checks will still match the stored __v of x.
NoWriterAt(x) == \A w \in Writers : wr[w].pc = "write" /\ wr[w].row = x => wr[w].v < row[x].v

\* Whoever still holds the generation holds its key, and whoever may write has
\* the generation: an update if its pin can match, the others under the lock.
WriterIsCurrent(w) ==
    /\ wr[w].ver <= user.ver /\ wr[w].v <= row[wr[w].row].v
    /\ wr[w].pc # "idle" /\ Current(wr[w].ver) => wr[w].key = user.wrapper.key
    /\ wr[w].pc \in {"recheck", "write"} => 1 <= wr[w].v
    /\ wr[w].pc = "write" /\ Live(wr[w].row) /\ row[wr[w].row].v = wr[w].v => Current(wr[w].ver)

HolderIsCurrent(h) ==
    /\ hold[h].ver <= user.ver
    /\ hold[h].pc # "idle" /\ Current(hold[h].ver) => hold[h].key = user.wrapper.key
    /\ hold[h].pc = "write" => Current(hold[h].ver)

\* A password change of this generation carries its key, and a pending one if one is stored.
ChangerIsCurrent(c) ==
    /\ pw[c].ver <= user.ver
    /\ pw[c].pc # "idle" /\ Current(pw[c].ver) => pw[c].key = user.wrapper.key
    /\ pw[c].pc = "write" => user.pending = NoWrapper \/ pw[c].pending # 0

RotatorIsCurrent(r) ==
    /\ rot[r].ver <= user.ver
    /\ rot[r].pc \notin {"idle", "lower", "release"} /\ Current(rot[r].ver) =>
        rot[r].held = user.wrapper.key
    /\ rot[r].mode \in Modes \cup {"fresh"}

\* What a rotation checked under the lock stays so until it commits, and its
\* pending wrapper is stored before its first row.
GuardStands(r) ==
    /\ rot[r].pc \in {"raise", "txn", "commit", "snap", "fence", "cover", "write"} =>
        /\ Current(rot[r].ver)
        /\ rot[r].mode = "reseal" => user.wrapper = rot[r].new
        /\ rot[r].mode # "discard" => user.pending \in {NoWrapper, rot[r].new}
    /\ rot[r].pc \in {"cover", "write"} /\ rot[r].mode # "reseal" => user.pending = rot[r].new
    /\ rot[r].pc = "undo" =>
        rot[r].mode = "reseal" \/ user.wrapper = rot[r].new \/ Current(rot[r].ver)
    /\ rot[r].pc = "restore" => Current(rot[r].ver)

\* No key is forgotten while a row, or a copy of a row that may still be
\* stored, is sealed under it.
KeysKept(x) ==
    Live(x) =>
        /\ Kept(x, row[x].key)
        /\ \A r \in Rotators : Current(rot[r].ver) =>
            Kept(x, rot[r].seen[x].key) /\ Kept(x, rot[r].snap[x].key)

\* When a rotation comes to store its key, the rows it has not rewritten were
\* created behind its back, by requests that have yet to confirm them or failed to
\* take them back.
Unfinished(x) == Unconfirmed(x, row[x].key) /\ NoWriterAt(x)

Rewritten(r, x) ==
    /\ row[x].key = IF x \in Opened(r) THEN rot[r].new.key ELSE rot[r].seen[x].key
    /\ NoWriterAt(x)

CoversRows(r) ==
    /\ rot[r].pc = "write" =>
        /\ \A x \in Rows : rot[r].done[x] # 0 /\ Live(x) => Rewritten(r, x)
        /\ \/ \E x \in Pending(r) : ~Live(x)
           \/ \A x \in Rows \ Payload(r) : Live(x) => Unfinished(x)
    /\ rot[r].pc = "commit" =>
        \A x \in Rows : Live(x) /\ rot[r].snap[x].key = 0 => Unfinished(x)

KeyInv ==
    /\ \A w \in Writers : WriterIsCurrent(w)
    /\ \A h \in Holders : HolderIsCurrent(h)
    /\ \A c \in Changers : ChangerIsCurrent(c)
    /\ \A r \in Rotators : RotatorIsCurrent(r) /\ GuardStands(r) /\ CoversRows(r)
    /\ \A x \in Rows : KeysKept(x)

\* The whole: exclusion, why no edit is undone, and why every row opens.
RotationInv ==
    /\ ExclusionInv
    /\ WritersWriteItems
    /\ EditInv
    /\ PendingOpens
    /\ ~lost.fence => KeyInv

=============================================================================
