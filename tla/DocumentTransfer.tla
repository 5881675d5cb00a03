-------------------------- MODULE DocumentTransfer --------------------------
(***************************************************************************)
(* The life of ONE stored document, from its open transfer to its last     *)
(* byte: the part, cancel and complete handlers, the trash and the purge   *)
(* (server/src/controllers/documentController.ts), the hourly collector    *)
(* (server/src/jobs/documentCleanup.ts) and the erasure of the account     *)
(* that owns it (server/src/utils/cascadeDelete.ts), over three stores     *)
(* that share no transaction: the document_uploads row, the documents row  *)
(* and the object storage engine.                                          *)
(*                                                                         *)
(* Every handler is cut at its awaits, one step per database or storage    *)
(* call.  Ids are never reused, so one upload id is the whole story.  A    *)
(* part that is accepted has exactly the size its number demands           *)
(* (expectedPartSize), so the ledger of a transfer is a set of part        *)
(* numbers.  Time is the three intervals the code distinguishes: before    *)
(* expiresAt, after it, and past the collector's extra grace hour.         *)
(***************************************************************************)
EXTENDS Integers

CONSTANTS
    Segments,    \* the part numbers of a transfer of several segments
    Uploaders,   \* PUT /documents/uploads/:id/parts/:n requests
    Completers,  \* POST /documents/uploads/:id/complete requests
    Cancellers,  \* DELETE /documents/uploads/:id requests
    Purgers,     \* DELETE /documents/:id/permanent and DELETE /documents/trash
    Free, Dead   \* the completion lock: nobody's, or a crashed holder's

ASSUME TransferAssumption ==
    /\ 1 \in Segments
    /\ Free # Dead
    /\ {Free, Dead} \cap (Uploaders \cup Completers) = {}
    /\ Uploaders \cap Completers = {}

VARIABLES
    multi,    \* declaredChunkCount > 1: a multipart upload, else one PutObject
    row,      \* the document_uploads row: does it exist, and its parts ledger
    age,      \* "open", "expired" (>= expiresAt), "abandoned" (TTL + 1h ago)
    mpu,      \* the engine's multipart upload: open?, and the parts it holds
    object,   \* the object at objectKey: "absent", or last modified recently or not
    doc,      \* the documents row: "none", "active", "trashed", "purging"
    lock,     \* document-complete:<userId>:<uploadId>
    account,  \* "live", "marked" (deletionPending), "docless", "rowless", "erased"
    part,     \* the part requests
    comp,     \* the complete requests
    abrt,     \* the cancel requests
    purge,    \* the purge requests
    job,      \* the collector's run
    cancelled \* a cancel answered "Upload cancelled"

vars == <<multi, row, age, mpu, object, doc, lock, account, part, comp, abrt, purge,
          job, cancelled>>

\* The part numbers the transfer was declared with.
PartNumbers == IF multi THEN Segments ELSE {1}

NoRow     == [exists |-> FALSE, parts |-> {}]
OpenRow   == [exists |-> TRUE, parts |-> {}]
ClosedMpu == [open |-> FALSE, parts |-> {}]
IdlePart  == [pc |-> "idle", number |-> 1]
IdleComp  == [pc |-> "idle", mode |-> "object", ledger |-> {}]
IdleJob   == [pc |-> "idle", docs |-> FALSE, uploads |-> FALSE]

PartPC  == {"idle", "store", "ledger", "relock", "owned", "redelete", "reunlock"}
CompPC  == {"idle", "find", "row", "engine", "judge", "free1", "free2", "assemble",
            "claim", "insert", "discard", "verify", "withdraw", "unlock", "dead"}
AbrtPC  == {"idle", "abort", "drop", "claim", "delete"}
PurgePC == {"idle", "delete", "drop"}
JobPC   == {"idle", "abort", "purges", "purged", "sweep", "reads", "delete"}

TypeOK ==
    /\ multi \in BOOLEAN
    /\ row \in [exists : BOOLEAN, parts : SUBSET Segments]
    /\ age \in {"open", "expired", "abandoned"}
    /\ mpu \in [open : BOOLEAN, parts : SUBSET Segments]
    /\ object \in {"absent", "young", "old"}
    /\ doc \in {"none", "active", "trashed", "purging"}
    /\ lock \in {Free, Dead} \cup Uploaders \cup Completers
    /\ account \in {"live", "marked", "docless", "rowless", "erased"}
    /\ part \in [Uploaders -> [pc : PartPC, number : Segments]]
    /\ comp \in [Completers -> [pc : CompPC, mode : {"object", "multipart"},
                                ledger : SUBSET Segments]]
    /\ abrt \in [Cancellers -> AbrtPC]
    /\ purge \in [Purgers -> PurgePC]
    /\ job \in [pc : JobPC, docs : BOOLEAN, uploads : BOOLEAN]
    /\ cancelled \in BOOLEAN

\* openTransferUnderLock has just answered: a staging row with an empty
\* ledger and, for several segments, an open multipart upload.
Init ==
    /\ multi \in BOOLEAN
    /\ row = OpenRow
    /\ age = "open"
    /\ mpu = [open |-> multi, parts |-> {}]
    /\ object = "absent"
    /\ doc = "none"
    /\ lock = Free
    /\ account = "live"
    /\ part = [u \in Uploaders |-> IdlePart]
    /\ comp = [c \in Completers |-> IdleComp]
    /\ abrt = [a \in Cancellers |-> "idle"]
    /\ purge = [p \in Purgers |-> "idle"]
    /\ job = IdleJob
    /\ cancelled = FALSE

----------------------------------------------------------------------------
(* uploadPart *)

PartGoto(u, pc) == part' = [part EXCEPT ![u].pc = pc]

\* The row lookup and every refusal before the storage write: no row, past
\* expiresAt, a number outside the transfer, a wrong size or digest.
PartLookup(u) ==
    /\ part[u].pc = "idle"
    /\ row.exists /\ age = "open"
    /\ \E n \in PartNumbers : part' = [part EXCEPT ![u] = [pc |-> "store", number |-> n]]
    /\ UNCHANGED <<multi, row, age, mpu, object, doc, lock, account, comp, abrt, purge, job, cancelled>>

\* putObject to the FINAL key, or uploadPart while the engine knows the upload.
PartStore(u) ==
    /\ part[u].pc = "store"
    /\ IF multi
       THEN /\ mpu.open
            /\ mpu' = [mpu EXCEPT !.parts = @ \cup {part[u].number}]
            /\ object' = object
       ELSE /\ object' = "young"
            /\ mpu' = mpu
    /\ PartGoto(u, "ledger")
    /\ UNCHANGED <<multi, row, age, doc, lock, account, comp, abrt, purge, job, cancelled>>

\* The engine failed, or answers NoSuchUpload: the request fails.
PartStoreFails(u) ==
    /\ part[u].pc = "store"
    /\ PartGoto(u, "idle")
    /\ UNCHANGED <<multi, row, age, mpu, object, doc, lock, account, comp, abrt, purge, job, cancelled>>

\* The atomic ledger update.  A row that has gone is a 404, after a
\* single-segment part has tried to take back what it stored.
PartLedger(u) ==
    /\ part[u].pc = "ledger"
    /\ IF row.exists
       THEN /\ row' = [row EXCEPT !.parts = @ \cup {part[u].number}]
            /\ PartGoto(u, "idle")
       ELSE /\ row' = row
            /\ PartGoto(u, IF multi THEN "idle" ELSE "relock")
    /\ UNCHANGED <<multi, age, mpu, object, doc, lock, account, comp, abrt, purge, job, cancelled>>

(* reclaimUnownedPartObject *)

\* Mutant: the lock is not consulted before the object is judged unowned.
ReclaimWithoutLock(u) ==
    /\ part[u].pc = "relock"
    /\ PartGoto(u, "owned")
    /\ UNCHANGED <<multi, row, age, mpu, object, doc, lock, account, comp, abrt, purge, job, cancelled>>

\* The completion lock, non-blocking: somebody else's means leave the object.
ReclaimLock(u) ==
    /\ part[u].pc = "relock"
    /\ IF lock = Free
       THEN lock' = u /\ PartGoto(u, "owned")
       ELSE lock' = lock /\ PartGoto(u, "idle")
    /\ UNCHANGED <<multi, row, age, mpu, object, doc, account, comp, abrt, purge, job, cancelled>>

\* Document.exists({ objectKey }), in any state, from the primary.
ReclaimOwned(u) ==
    /\ part[u].pc = "owned"
    /\ PartGoto(u, IF doc # "none" THEN "reunlock" ELSE "redelete")
    /\ UNCHANGED <<multi, row, age, mpu, object, doc, lock, account, comp, abrt, purge, job, cancelled>>

\* deleteObject, best effort: a failure is logged and changes nothing.
ReclaimDelete(u) ==
    /\ part[u].pc = "redelete"
    /\ object' \in {object, "absent"}
    /\ PartGoto(u, "reunlock")
    /\ UNCHANGED <<multi, row, age, mpu, doc, lock, account, comp, abrt, purge, job, cancelled>>

ReclaimUnlock(u) ==
    /\ part[u].pc = "reunlock"
    /\ lock' = IF lock = u THEN Free ELSE lock
    /\ PartGoto(u, "idle")
    /\ UNCHANGED <<multi, row, age, mpu, object, doc, account, comp, abrt, purge, job, cancelled>>

----------------------------------------------------------------------------
(* completeUpload *)

CompGoto(c, pc) == comp' = [comp EXCEPT ![c].pc = pc]

\* The lock is taken or the request answers the committed row or a 409,
\* which changes nothing.
CompLock(c) ==
    /\ comp[c].pc = "idle"
    /\ lock = Free
    /\ lock' = c
    /\ CompGoto(c, "find")
    /\ UNCHANGED <<multi, row, age, mpu, object, doc, account, part, abrt, purge, job, cancelled>>

\* completeUnderLock: a committed document is the answer.
CompFindDocument(c) ==
    /\ comp[c].pc = "find"
    /\ CompGoto(c, IF doc # "none" THEN "unlock" ELSE "row")
    /\ UNCHANGED <<multi, row, age, mpu, object, doc, lock, account, part, abrt, purge, job, cancelled>>

\* The staging row, its expiry and its ledger are read ONCE, here.
CompFindRow(c) ==
    /\ comp[c].pc = "row"
    /\ IF row.exists /\ age = "open" /\ row.parts # {}
       THEN comp' = [comp EXCEPT ![c].pc = "engine", ![c].ledger = row.parts]
       ELSE CompGoto(c, "unlock")
    /\ UNCHANGED <<multi, row, age, mpu, object, doc, lock, account, part, abrt, purge, job, cancelled>>

\* readEngineLedger: HEAD of the one object, or ListParts, or (the engine has
\* forgotten the upload) the object an earlier completion assembled, when its
\* length is the ledger's.  An assembled object always holds every part.
EngineLedger(c) ==
    IF ~multi
    THEN {m \in {"object"} : object # "absent"}
    ELSE IF mpu.open
    THEN {m \in {"multipart"} : mpu.parts = comp[c].ledger}
    ELSE {m \in {"object"} : object # "absent" /\ comp[c].ledger = PartNumbers}

\* Mutant: the ledger is compared with the engine and not with the declared count.
CountUnchecked(c) ==
    /\ comp[c].pc = "engine"
    /\ \/ \E m \in EngineLedger(c) : comp' = [comp EXCEPT ![c].pc = "judge", ![c].mode = m]
       \/ CompGoto(c, "unlock")
    /\ UNCHANGED <<multi, row, age, mpu, object, doc, lock, account, part, abrt, purge, job, cancelled>>

\* The engine is asked, the ledger compared with it and with the declared
\* count; any disagreement, and any storage failure, refuses.
CompReadEngine(c) ==
    /\ comp[c].pc = "engine"
    /\ \/ \E m \in EngineLedger(c) :
            /\ comp[c].ledger = PartNumbers
            /\ comp' = [comp EXCEPT ![c].pc = "judge", ![c].mode = m]
       \/ CompGoto(c, "unlock")
    /\ UNCHANGED <<multi, row, age, mpu, object, doc, lock, account, part, abrt, purge, job, cancelled>>

\* The size cap, the rotation lock, the quota, the rotation fence and the key
\* generation: a budget refusal releases the transfer, the others leave it.
CompJudge(c) ==
    /\ comp[c].pc = "judge"
    /\ \/ CompGoto(c, IF comp[c].mode = "multipart" THEN "assemble" ELSE "claim")
       \/ CompGoto(c, "free1")
       \/ CompGoto(c, "unlock")
    /\ UNCHANGED <<multi, row, age, mpu, object, doc, lock, account, part, abrt, purge, job, cancelled>>

\* releaseTransfer: the storage first, best effort, then the row.
ReleaseStorage(c) ==
    /\ comp[c].pc = "free1"
    /\ \/ UNCHANGED <<mpu, object>>
       \/ comp[c].mode = "object" /\ object' = "absent" /\ mpu' = mpu
       \/ comp[c].mode = "multipart" /\ mpu' = ClosedMpu /\ object' = object
    /\ CompGoto(c, "free2")
    /\ UNCHANGED <<multi, row, age, doc, lock, account, part, abrt, purge, job, cancelled>>

ReleaseRow(c) ==
    /\ comp[c].pc = "free2"
    /\ row' = NoRow
    /\ CompGoto(c, "unlock")
    /\ UNCHANGED <<multi, age, mpu, object, doc, lock, account, part, abrt, purge, job, cancelled>>

\* completeMultipartUpload: the engine assembles the object and forgets the
\* upload; it refuses an upload it no longer knows.
CompAssemble(c) ==
    /\ comp[c].pc = "assemble"
    /\ \/ /\ mpu.open
          /\ mpu' = ClosedMpu
          /\ object' = "young"
          /\ CompGoto(c, "claim")
       \/ /\ CompGoto(c, "unlock")
          /\ UNCHANGED <<mpu, object>>
    /\ UNCHANGED <<multi, row, age, doc, lock, account, part, abrt, purge, job, cancelled>>

\* Mutant: a claim nobody checks, in either mode.
UncheckedClaim(c) ==
    /\ comp[c].pc = "claim"
    /\ row' = NoRow
    /\ CompGoto(c, "insert")
    /\ UNCHANGED <<multi, age, mpu, object, doc, lock, account, part, abrt, purge, job, cancelled>>

\* Object mode claims the row with a findOneAndDelete that must match;
\* multipart mode deletes it whether or not it is still there.
CompClaim(c) ==
    /\ comp[c].pc = "claim"
    /\ IF comp[c].mode = "object" /\ ~(row.exists /\ row.parts = PartNumbers)
       THEN row' = row /\ CompGoto(c, "unlock")
       ELSE row' = NoRow /\ CompGoto(c, "insert")
    /\ UNCHANGED <<multi, age, mpu, object, doc, lock, account, part, abrt, purge, job, cancelled>>

\* Document.create: committed, a duplicate (the committed row is the answer),
\* or refused, which leaves an object nothing names.
CompInsert(c) ==
    /\ comp[c].pc = "insert"
    /\ \/ doc = "none" /\ doc' = "active" /\ CompGoto(c, "verify")
       \/ doc # "none" /\ doc' = doc /\ CompGoto(c, "unlock")
       \/ doc = "none" /\ doc' = doc /\ CompGoto(c, "discard")
    /\ UNCHANGED <<multi, row, age, mpu, object, lock, account, part, abrt, purge, job, cancelled>>

\* discardUnnamedObject, best effort.
CompDiscard(c) ==
    /\ comp[c].pc = "discard"
    /\ object' \in {object, "absent"}
    /\ CompGoto(c, "unlock")
    /\ UNCHANGED <<multi, row, age, mpu, doc, lock, account, part, abrt, purge, job, cancelled>>

\* Mutant: the account is not read again once the row is in.
NoVerify(c) ==
    /\ comp[c].pc = "verify"
    /\ CompGoto(c, "unlock")
    /\ UNCHANGED <<multi, row, age, mpu, object, doc, lock, account, part, abrt, purge, job, cancelled>>

\* The account re-read AFTER the insert: gone or deletionPending withdraws.
CompVerify(c) ==
    /\ comp[c].pc = "verify"
    /\ CompGoto(c, IF account = "live" THEN "unlock" ELSE "withdraw")
    /\ UNCHANGED <<multi, row, age, mpu, object, doc, lock, account, part, abrt, purge, job, cancelled>>

CompWithdraw(c) ==
    /\ comp[c].pc = "withdraw"
    /\ doc' = "none"
    /\ CompGoto(c, "discard")
    /\ UNCHANGED <<multi, row, age, mpu, object, lock, account, part, abrt, purge, job, cancelled>>

CompUnlock(c) ==
    /\ comp[c].pc = "unlock"
    /\ lock' = IF lock = c THEN Free ELSE lock
    /\ comp' = [comp EXCEPT ![c] = IdleComp]
    /\ UNCHANGED <<multi, row, age, mpu, object, doc, account, part, abrt, purge, job, cancelled>>

----------------------------------------------------------------------------
(* abortUpload *)

AbrtGoto(a, pc) == abrt' = [abrt EXCEPT ![a] = pc]

AbortLookup(a) ==
    /\ abrt[a] = "idle"
    /\ row.exists
    /\ AbrtGoto(a, IF multi THEN "abort" ELSE "claim")
    /\ UNCHANGED <<multi, row, age, mpu, object, doc, lock, account, part, comp, purge, job, cancelled>>

\* One segment: the row is claimed before its object is touched.
AbortClaim(a) ==
    /\ abrt[a] = "claim"
    /\ row' = NoRow
    /\ AbrtGoto(a, IF row.exists THEN "delete" ELSE "idle")
    /\ UNCHANGED <<multi, age, mpu, object, doc, lock, account, part, comp, purge, job, cancelled>>

\* deleteObject, best effort, and the answer.
AbortDelete(a) ==
    /\ abrt[a] = "delete"
    /\ object' \in {object, "absent"}
    /\ cancelled' = TRUE
    /\ AbrtGoto(a, "idle")
    /\ UNCHANGED <<multi, row, age, mpu, doc, lock, account, part, comp, purge, job>>

\* Several segments: abortMultipartUpload.  NoSuchUpload is swallowed; any
\* other failure is a 503 that keeps the row.
AbortEngine(a) ==
    /\ abrt[a] = "abort"
    /\ \/ mpu' = ClosedMpu /\ AbrtGoto(a, "drop")
       \/ mpu' = mpu /\ AbrtGoto(a, "idle")
    /\ UNCHANGED <<multi, row, age, object, doc, lock, account, part, comp, purge, job, cancelled>>

\* deleteOne, and the answer.
AbortDrop(a) ==
    /\ abrt[a] = "drop"
    /\ row' = NoRow
    /\ cancelled' = TRUE
    /\ AbrtGoto(a, "idle")
    /\ UNCHANGED <<multi, age, mpu, object, doc, lock, account, part, comp, purge, job>>

----------------------------------------------------------------------------
(* The trash, and the purge that ends it *)

deleteDocument ==
    /\ doc = "active"
    /\ doc' = "trashed"
    /\ UNCHANGED <<multi, row, age, mpu, object, lock, account, part, comp, abrt, purge, job, cancelled>>

\* Mutant: a restore that does not look at purgePending.
RestoreAnything ==
    /\ doc \in {"trashed", "purging"}
    /\ doc' = "active"
    /\ UNCHANGED <<multi, row, age, mpu, object, lock, account, part, comp, abrt, purge, job, cancelled>>

restoreDocument ==
    /\ doc = "trashed"
    /\ doc' = "active"
    /\ UNCHANGED <<multi, row, age, mpu, object, lock, account, part, comp, abrt, purge, job, cancelled>>

\* purgeDocument and one row of emptyDocumentTrash: the row is marked
\* purgePending, its object deleted, then the row.
PurgeMark(p) ==
    /\ purge[p] = "idle"
    /\ doc \in {"trashed", "purging"}
    /\ doc' = "purging"
    /\ purge' = [purge EXCEPT ![p] = "delete"]
    /\ UNCHANGED <<multi, row, age, mpu, object, lock, account, part, comp, abrt, job, cancelled>>

\* A storage failure stops here; the mark stays for the collector.
PurgeDelete(p) ==
    /\ purge[p] = "delete"
    /\ \/ object' = "absent" /\ purge' = [purge EXCEPT ![p] = "drop"]
       \/ object' = object /\ purge' = [purge EXCEPT ![p] = "idle"]
    /\ UNCHANGED <<multi, row, age, mpu, doc, lock, account, part, comp, abrt, job, cancelled>>

PurgeDrop(p) ==
    /\ purge[p] = "drop"
    /\ doc' = "none"
    /\ purge' = [purge EXCEPT ![p] = "idle"]
    /\ UNCHANGED <<multi, row, age, mpu, object, lock, account, part, comp, abrt, job, cancelled>>

----------------------------------------------------------------------------
(* runDocumentCleanup: three passes, under the document-cleanup lock *)

\* Mutant: the collector aborts only uploads whose row it found.
JobClaimedOnly ==
    /\ job.pc = "idle"
    /\ job' = [job EXCEPT !.pc =
                IF mpu.open /\ age = "abandoned" /\ row.exists THEN "abort" ELSE "purges"]
    /\ UNCHANGED <<multi, row, age, mpu, object, doc, lock, account, part, comp, abrt, purge, cancelled>>

\* abortAbandonedUploads: an upload initiated before TTL + 1h ago that no
\* staging row claims.
JobAbandoned ==
    /\ job.pc = "idle"
    /\ job' = [job EXCEPT !.pc =
                IF mpu.open /\ age = "abandoned" /\ ~row.exists THEN "abort" ELSE "purges"]
    /\ UNCHANGED <<multi, row, age, mpu, object, doc, lock, account, part, comp, abrt, purge, cancelled>>

JobAbort ==
    /\ job.pc = "abort"
    /\ mpu' = ClosedMpu
    /\ job' = [job EXCEPT !.pc = "purges"]
    /\ UNCHANGED <<multi, row, age, object, doc, lock, account, part, comp, abrt, purge, cancelled>>

\* finishPendingPurges: the row is read, its object deleted, the row deleted.
JobPendingPurge ==
    /\ job.pc = "purges"
    /\ \/ /\ doc = "purging"
          /\ object' = "absent"
          /\ job' = [job EXCEPT !.pc = "purged"]
       \/ /\ doc # "purging"
          /\ object' = object
          /\ job' = [job EXCEPT !.pc = "sweep"]
    /\ UNCHANGED <<multi, row, age, mpu, doc, lock, account, part, comp, abrt, purge, cancelled>>

\* Mutant: the object goes and the row that names it stays.
PurgedRowKept ==
    /\ job.pc = "purged"
    /\ job' = [job EXCEPT !.pc = "sweep"]
    /\ UNCHANGED <<multi, row, age, mpu, object, doc, lock, account, part, comp, abrt, purge, cancelled>>

JobPurged ==
    /\ job.pc = "purged"
    /\ doc' = "none"
    /\ job' = [job EXCEPT !.pc = "sweep"]
    /\ UNCHANGED <<multi, row, age, mpu, object, lock, account, part, comp, abrt, purge, cancelled>>

\* Mutant: the lastModified comparison the wrong way round.
YoungObject == object = "young" /\ age = "abandoned"

\* The two age tests of sweepOrphanedObjects: lastModified over 24 h ago, and
\* an id minted longer ago than a transfer may take to complete.
Sweepable == object = "old" /\ age = "abandoned"

JobList ==
    /\ job.pc = "sweep"
    /\ job' = IF Sweepable THEN [pc |-> "reads", docs |-> FALSE, uploads |-> FALSE]
                           ELSE IdleJob
    /\ UNCHANGED <<multi, row, age, mpu, object, doc, lock, account, part, comp, abrt, purge, cancelled>>

\* Promise.all of the two reads: they land in either order.  A row found in
\* either collection spares the object.
JobReadDocuments ==
    /\ job.pc = "reads" /\ ~job.docs
    /\ job' = IF doc # "none" THEN IdleJob
              ELSE [job EXCEPT !.docs = TRUE, !.pc = IF job.uploads THEN "delete" ELSE @]
    /\ UNCHANGED <<multi, row, age, mpu, object, doc, lock, account, part, comp, abrt, purge, cancelled>>

JobReadUploads ==
    /\ job.pc = "reads" /\ ~job.uploads
    /\ job' = IF row.exists THEN IdleJob
              ELSE [job EXCEPT !.uploads = TRUE, !.pc = IF job.docs THEN "delete" ELSE @]
    /\ UNCHANGED <<multi, row, age, mpu, object, doc, lock, account, part, comp, abrt, purge, cancelled>>

JobDelete ==
    /\ job.pc = "delete"
    /\ object' = "absent"
    /\ job' = IdleJob
    /\ UNCHANGED <<multi, row, age, mpu, doc, lock, account, part, comp, abrt, purge, cancelled>>

\* A storage call of the collector fails: that key is given up and the walk
\* goes on, except that a listing that fails ends the run.
JobStorageFails ==
    /\ \/ job.pc = "abort" /\ job' = [job EXCEPT !.pc = "purges"]
       \/ job.pc = "purges" /\ doc = "purging" /\ job' = [job EXCEPT !.pc = "sweep"]
       \/ job.pc \in {"sweep", "delete"} /\ job' = IdleJob
    /\ UNCHANGED <<multi, row, age, mpu, object, doc, lock, account, part, comp, abrt, purge, cancelled>>

----------------------------------------------------------------------------
(* cascadeDeleteUser: mark, rows, account row, objects *)

EraseMark ==
    /\ account = "live"
    /\ account' = "marked"
    /\ UNCHANGED <<multi, row, age, mpu, object, doc, lock, part, comp, abrt, purge, job, cancelled>>

\* eraseInBatches, then sweepRemainingRows: documents before document_uploads
\* in each.  A run that fails starts over, so the two may repeat.
EraseDocuments ==
    /\ account \in {"marked", "docless"}
    /\ doc' = "none"
    /\ account' = "docless"
    /\ UNCHANGED <<multi, row, age, mpu, object, lock, part, comp, abrt, purge, job, cancelled>>

\* The staging rows, then the account row: reached only past EraseDocuments.
EraseUploads ==
    /\ account = "docless"
    /\ row' = NoRow
    /\ account' = "rowless"
    /\ UNCHANGED <<multi, age, mpu, object, doc, lock, part, comp, abrt, purge, job, cancelled>>

\* eraseUserObjects, best effort, once the rows and the account row are gone.
EraseObjects ==
    /\ account = "rowless"
    /\ object' \in {object, "absent"}
    /\ account' = "erased"
    /\ UNCHANGED <<multi, row, age, mpu, doc, lock, part, comp, abrt, purge, job, cancelled>>

----------------------------------------------------------------------------
(* Time, the TTL monitor, crashes *)

\* A completion that has read a live staging row and not finished with it.
PastRowCheck(c) == comp[c].pc \notin {"idle", "find", "row", "unlock", "dead"}

\* A request does not outlive the grace hour (ABANDONED_UPLOAD_GRACE_MS).
Age ==
    /\ \/ age = "open" /\ age' = "expired"
       \/ /\ age = "expired" /\ age' = "abandoned"
          /\ \A c \in Completers : ~PastRowCheck(c)
    /\ UNCHANGED <<multi, row, mpu, object, doc, lock, account, part, comp, abrt, purge, job, cancelled>>

ObjectAges ==
    /\ object = "young"
    /\ object' = "old"
    /\ UNCHANGED <<multi, row, age, mpu, doc, lock, account, part, comp, abrt, purge, job, cancelled>>

\* The TTL index of document_uploads on expiresAt.
RowExpires ==
    /\ row.exists /\ age # "open"
    /\ row' = NoRow
    /\ UNCHANGED <<multi, age, mpu, object, doc, lock, account, part, comp, abrt, purge, job, cancelled>>

Orphaned(r) == IF lock = r THEN Dead ELSE lock

CrashPart(u) ==
    /\ part[u].pc # "idle"
    /\ part' = [part EXCEPT ![u] = IdlePart]
    /\ lock' = Orphaned(u)
    /\ UNCHANGED <<multi, row, age, mpu, object, doc, account, comp, abrt, purge, job, cancelled>>

\* A completion that dies between its insert and its check of the account is
\* told apart from the ones that die having left no document behind.
CrashComp(c) ==
    /\ comp[c].pc \notin {"idle", "dead"}
    /\ comp' = [comp EXCEPT ![c] =
                 [IdleComp EXCEPT !.pc = IF comp[c].pc \in {"verify", "withdraw"}
                                        THEN "dead" ELSE "idle"]]
    /\ lock' = Orphaned(c)
    /\ UNCHANGED <<multi, row, age, mpu, object, doc, account, part, abrt, purge, job, cancelled>>

CrashAbort(a) ==
    /\ abrt[a] # "idle"
    /\ AbrtGoto(a, "idle")
    /\ UNCHANGED <<multi, row, age, mpu, object, doc, lock, account, part, comp, purge, job, cancelled>>

CrashPurge(p) ==
    /\ purge[p] # "idle"
    /\ purge' = [purge EXCEPT ![p] = "idle"]
    /\ UNCHANGED <<multi, row, age, mpu, object, doc, lock, account, part, comp, abrt, job, cancelled>>

\* A dead holder's lease ends (COMPLETE_LOCK_TTL_MS).
LockLapses ==
    /\ lock = Dead
    /\ lock' = Free
    /\ UNCHANGED <<multi, row, age, mpu, object, doc, account, part, comp, abrt, purge, job, cancelled>>

----------------------------------------------------------------------------
PartStep(u) ==
    \/ PartLookup(u) \/ PartStore(u) \/ PartStoreFails(u) \/ PartLedger(u)
    \/ ReclaimLock(u) \/ ReclaimOwned(u) \/ ReclaimDelete(u) \/ ReclaimUnlock(u)

CompStep(c) ==
    \/ CompLock(c) \/ CompFindDocument(c) \/ CompFindRow(c) \/ CompReadEngine(c)
    \/ CompJudge(c) \/ ReleaseStorage(c) \/ ReleaseRow(c) \/ CompAssemble(c)
    \/ CompClaim(c) \/ CompInsert(c) \/ CompDiscard(c) \/ CompVerify(c)
    \/ CompWithdraw(c) \/ CompUnlock(c)

AbortStep(a) ==
    \/ AbortLookup(a) \/ AbortClaim(a) \/ AbortDelete(a) \/ AbortEngine(a) \/ AbortDrop(a)

PurgeStep(p) == PurgeMark(p) \/ PurgeDelete(p) \/ PurgeDrop(p)

JobStep ==
    \/ JobAbandoned \/ JobAbort \/ JobPendingPurge \/ JobPurged \/ JobList
    \/ JobReadDocuments \/ JobReadUploads \/ JobDelete

EraseStep == EraseMark \/ EraseDocuments \/ EraseUploads \/ EraseObjects

CrashStep ==
    \/ \E u \in Uploaders : CrashPart(u)
    \/ \E c \in Completers : CrashComp(c)
    \/ \E a \in Cancellers : CrashAbort(a)
    \/ \E p \in Purgers : CrashPurge(p)

Next ==
    \/ \E u \in Uploaders : PartStep(u)
    \/ \E c \in Completers : CompStep(c)
    \/ \E a \in Cancellers : AbortStep(a)
    \/ \E p \in Purgers : PurgeStep(p)
    \/ deleteDocument \/ restoreDocument
    \/ JobStep \/ JobStorageFails
    \/ EraseStep
    \/ Age \/ ObjectAges \/ RowExpires \/ LockLapses
    \/ CrashStep

Spec == Init /\ [][Next]_vars

\* What a running deployment keeps doing: a request that has started goes on,
\* the hourly collector runs and its storage calls succeed infinitely often,
\* clocks advance, the TTL monitor sweeps and leases end.
Fairness ==
    /\ \A u \in Uploaders : WF_vars(PartStep(u) /\ part[u].pc # "idle")
    /\ \A c \in Completers : WF_vars(CompStep(c) /\ comp[c].pc # "idle")
    /\ \A a \in Cancellers : WF_vars(AbortStep(a) /\ abrt[a] # "idle")
    /\ WF_vars(JobStep) /\ SF_vars(JobAbort) /\ SF_vars(JobPendingPurge /\ doc = "purging")
    /\ SF_vars(JobList) /\ SF_vars(JobDelete)
    /\ SF_vars(Age) /\ WF_vars(ObjectAges) /\ WF_vars(RowExpires) /\ WF_vars(LockLapses)

FairSpec == Spec /\ Fairness

----------------------------------------------------------------------------
(* What makes the transfer correct *)

\* A document the account can list or restore always has its bytes: no cancel,
\* late part, refused completion, purge or collector pass ever deletes an
\* object that a completion has committed or is about to commit
\* (documentController.ts:901-915 and documentCleanup.ts:346-419).
ServedDocumentHasItsObject ==
    account = "live" /\ doc \in {"active", "trashed"} => object # "absent"

\* A transfer whose cancel was answered "Upload cancelled" never becomes a
\* document (documentController.ts:882-927).
CancelIsFinal == cancelled => doc = "none"

\* The same of a transfer of one segment, whose cancel and completion claim
\* the staging row from each other before either touches the object
\* (documentController.ts:901-915 and 1806-1836).
SingleCancelIsFinal == ~multi /\ cancelled => doc = "none"

\* Once the account's rows are erased, a document row exists only while the
\* completion that inserted it is still about to take it back, or died about
\* to (documentController.ts:1868-1877).
ErasedAccountOwnsNothing ==
    account \in {"rowless", "erased"} /\ doc # "none" =>
        \E c \in Completers : comp[c].pc \in {"verify", "withdraw", "dead"}

\* A completion that died between assembling the object and deleting the
\* staging row can be retried: the ledger still describes the whole object,
\* so readAssembledLedger accepts it (documentController.ts:350-385).
AssembledTransferIsCompletable ==
    multi /\ row.exists /\ object # "absent" => row.parts = PartNumbers

----------------------------------------------------------------------------
(* The inductive invariant behind the two safety claims *)

\* The completion lock excludes: whoever is inside is named by the row, for as
\* long as it lives (a lease that ends under a living holder is not modelled).
LockNamesHolder ==
    /\ \A c \in Completers : comp[c].pc \notin {"idle", "dead"} => lock = c
    /\ \A u \in Uploaders : part[u].pc \in {"owned", "redelete", "reunlock"} => lock = u

\* A document may still come out of this transfer.
Fertile(c) == comp[c].pc \in {"engine", "judge", "free1", "free2", "assemble", "claim", "insert"}
Spent == ~row.exists /\ \A c \in Completers : ~Fertile(c)

\* A document is the end of its transfer, and so is every state in which
\* somebody has decided to delete its object for good.
EndsAreFinal ==
    /\ doc # "none" => Spent
    /\ \A p \in Purgers : purge[p] # "idle" => Spent /\ doc \in {"purging", "none"}
    /\ job.pc = "purged" => Spent /\ doc \in {"purging", "none"}
    /\ \A u \in Uploaders :
        /\ part[u].pc \in {"relock", "owned", "redelete"} => ~multi /\ ~row.exists
        /\ part[u].pc = "redelete" => doc = "none"
    /\ \A c \in Completers :
        /\ comp[c].pc \in {"insert", "discard", "verify", "withdraw"} => ~row.exists
        /\ comp[c].pc = "discard" => doc = "none"
        /\ comp[c].pc = "withdraw" => account # "live"
        /\ comp[c].mode = "multipart" => multi

\* Past the grace hour nothing is being completed, so what the collector has
\* read of the documents collection stays true.
CollectorIsLate ==
    /\ age = "abandoned" => \A c \in Completers : ~PastRowCheck(c)
    /\ job.pc \in {"reads", "delete"} => age = "abandoned"
    /\ job.pc \in {"reads", "delete"} /\ job.docs => doc = "none"
    /\ job.pc = "delete" => job.docs

\* A cancelled single-segment transfer cannot be committed any more.
CancelWins ==
    ~multi /\ (cancelled \/ \E a \in Cancellers : abrt[a] = "delete") =>
        /\ ~row.exists /\ doc = "none"
        /\ \A c \in Completers : comp[c].pc \notin {"insert", "verify", "withdraw"}

\* The two ways to cancel do not mix: several segments never delete an object.
CancelKeepsObject ==
    \A a \in Cancellers :
        /\ abrt[a] \in {"claim", "delete"} => ~multi
        /\ abrt[a] \in {"abort", "drop"} => multi

\* A completion on its way to the insert has its object in storage.
CompletionHasObject ==
    account = "live" =>
        \A c \in Completers :
            /\ comp[c].pc \in {"judge", "claim"} /\ comp[c].mode = "object" /\ row.exists
                    => object # "absent"
            /\ comp[c].pc = "claim" /\ comp[c].mode = "multipart" => object # "absent"
            /\ comp[c].pc = "insert" => object # "absent"

\* No document comes back into a swept collection, except by an insert that has
\* still to look at the account.
SweptStaysSwept ==
    account \in {"docless", "rowless", "erased"} /\ doc # "none" =>
        \E c \in Completers : comp[c].pc \in {"verify", "withdraw", "dead"}

\* The parts a transfer has recorded are parts it was declared with, and a
\* completion past its row check knows no part that the row has not.
LedgerIsWhole ==
    /\ row.parts \subseteq PartNumbers
    /\ \A u \in Uploaders : part[u].pc \in {"store", "ledger"} => part[u].number \in PartNumbers
    /\ \A c \in Completers :
        /\ Fertile(c) /\ row.exists => comp[c].ledger \subseteq row.parts
        /\ comp[c].pc \in {"judge", "assemble"} => comp[c].ledger = PartNumbers
    /\ AssembledTransferIsCompletable

TransferInv ==
    /\ TypeOK
    /\ LockNamesHolder
    /\ EndsAreFinal
    /\ CollectorIsLate
    /\ CancelWins
    /\ CancelKeepsObject
    /\ CompletionHasObject
    /\ ServedDocumentHasItsObject

----------------------------------------------------------------------------
(* What must eventually happen *)

\* Bytes that no row names are reclaimed: by the request that stranded them or
\* by a later run of the collector (documentCleanup.ts:346-516).
OrphanIsReclaimed ==
    (object # "absent" /\ doc = "none" /\ ~row.exists) ~> (object = "absent" \/ doc # "none")

\* A multipart upload that no staging row claims is aborted, so the engine
\* does not keep its parts for ever (documentCleanup.ts:207-261).
UnclaimedUploadIsAborted == (mpu.open /\ ~row.exists) ~> ~mpu.open

\* A purge that was interrupted after its mark is finished, row and bytes
\* (documentCleanup.ts:283-344).
PurgeIsFinished == (doc = "purging") ~> (doc = "none")

=============================================================================
