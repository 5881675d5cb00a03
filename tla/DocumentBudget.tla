--------------------------- MODULE DocumentBudget ---------------------------
(***************************************************************************)
(* The per-account budgets of the document store: how many documents, how  *)
(* many transfers at once, how many bytes.  initUpload decides all three   *)
(* with reads followed by a write, under the account's document-init lock; *)
(* completeUpload, under OTHER locks (its upload's own and the account's   *)
(* vault-rotation lock), turns a staging row into a document in two        *)
(* writes, the row first (server/src/controllers/documentController.ts).   *)
(*                                                                         *)
(* Many transfers of one account; what one transfer does with its bytes    *)
(* is DocumentTransfer's subject.  Accepted parts have exactly the         *)
(* declared sizes, so a document's plaintextBytes are the declared ones.   *)
(***************************************************************************)
EXTENDS Integers, FiniteSets

LOCAL INSTANCE FiniteSetsExt

CONSTANTS
    Transfers,    \* bound: the transfers the account ever opens
    Openers,      \* POST /documents/uploads requests
    Sizes,        \* the declaredPlaintextBytes a request may carry
    MaxDocs,      \* MAX_DOCUMENTS_PER_USER
    MaxConc,      \* MAX_CONCURRENT_DOCUMENT_UPLOADS_PER_USER
    Quota,        \* storageQuotaBytes()
    Free          \* a lock nobody holds

ASSUME BudgetAssumption ==
    /\ IsFiniteSet(Transfers)
    /\ Sizes \subseteq Nat
    /\ MaxDocs \in Nat \ {0} /\ MaxConc \in Nat \ {0} /\ Quota \in Nat
    /\ Free \notin Transfers \cup Openers

VARIABLES
    st,         \* each transfer: its staging row, then its document
    size,       \* declaredPlaintextBytes
    stage,      \* the completion request of each transfer
    seen,       \* committedBytesFor as that completion read it
    late,       \* history: transfers claimed when their row had expired or gone
    committed,  \* the sum of plaintextBytes over the documents
    rotLock,    \* vault-rotation:<userId>, as completions hold it
    initLock,   \* document-init:<userId>
    open,       \* the open requests
    ask,        \* the bytes each of them declares
    inflight    \* inFlightBytesFor as each of them read it

vars == <<st, size, stage, seen, late, committed, rotLock, initLock, open, ask, inflight>>

\* "unused" no row yet; "live" a row before expiresAt; "lapsed" past it;
\* "claimed" the row deleted and the document not yet inserted; "gone" at rest.
States == {"unused", "live", "lapsed", "claimed", "document", "gone"}
Stages == {"idle", "checked", "locked", "fits"}
OpenPC == {"idle", "live", "docs", "inflight", "bytes", "create", "unlock"}

Live      == {t \in Transfers : st[t] = "live"}
Documents == {t \in Transfers : st[t] = "document"}
Claimed   == {t \in Transfers : st[t] = "claimed"}

\* The documents there are and may still be, but for the late ones.
Held == {t \in Transfers \ late : st[t] \in {"live", "claimed", "document"}}

\* inFlightBytesFor: the declared bytes of the rows that have not expired.
InFlightBytes == MapThenSumSet(LAMBDA t : size[t], Live)

TypeOK ==
    /\ st \in [Transfers -> States]
    /\ size \in [Transfers -> Nat]
    /\ stage \in [Transfers -> Stages]
    /\ seen \in [Transfers -> Int]
    /\ late \in SUBSET Transfers
    /\ committed \in Int
    /\ rotLock \in Transfers \cup {Free}
    /\ initLock \in Openers \cup {Free}
    /\ open \in [Openers -> OpenPC]
    /\ ask \in [Openers -> Nat]

Init ==
    /\ st = [t \in Transfers |-> "unused"]
    /\ size = [t \in Transfers |-> 0]
    /\ stage = [t \in Transfers |-> "idle"]
    /\ seen = [t \in Transfers |-> 0]
    /\ late = {}
    /\ committed = 0
    /\ rotLock = Free /\ initLock = Free
    /\ open = [o \in Openers |-> "idle"]
    /\ ask = [o \in Openers |-> 0]
    /\ inflight = [o \in Openers |-> 0]

----------------------------------------------------------------------------
(* initUpload and openTransferUnderLock *)

OpenGoto(o, pc) == open' = [open EXCEPT ![o] = pc]

\* Mutant: two opens decide their budgets side by side.
OpenUnlocked(o) ==
    /\ open[o] = "idle"
    /\ \E b \in Sizes : ask' = [ask EXCEPT ![o] = b]
    /\ OpenGoto(o, "live")
    /\ UNCHANGED <<st, size, stage, seen, late, committed, rotLock, initLock, inflight>>

\* The document-init lock, non-blocking: a held lock is a 409.
OpenLock(o) ==
    /\ open[o] = "idle"
    /\ initLock = Free
    /\ initLock' = o
    /\ \E b \in Sizes : ask' = [ask EXCEPT ![o] = b]
    /\ OpenGoto(o, "live")
    /\ UNCHANGED <<st, size, stage, seen, late, committed, rotLock, inflight>>

\* The live transfers are counted first.
OpenCountLive(o) ==
    /\ open[o] = "live"
    /\ OpenGoto(o, IF Cardinality(Live) >= MaxConc THEN "unlock" ELSE "docs")
    /\ UNCHANGED <<st, size, stage, seen, late, committed, rotLock, initLock, ask, inflight>>

\* Mutant: the document cap is one too generous.
OpenCountLoose(o) ==
    /\ open[o] = "docs"
    /\ OpenGoto(o, IF Cardinality(Documents) > MaxDocs THEN "unlock" ELSE "inflight")
    /\ UNCHANGED <<st, size, stage, seen, late, committed, rotLock, initLock, ask, inflight>>

\* Then the documents, in any state.
OpenCountDocuments(o) ==
    /\ open[o] = "docs"
    /\ OpenGoto(o, IF Cardinality(Documents) >= MaxDocs THEN "unlock" ELSE "inflight")
    /\ UNCHANGED <<st, size, stage, seen, late, committed, rotLock, initLock, ask, inflight>>

\* The bytes in the same order: in flight first, committed second.
OpenReadInFlight(o) ==
    /\ open[o] = "inflight"
    /\ inflight' = [inflight EXCEPT ![o] = InFlightBytes]
    /\ OpenGoto(o, "bytes")
    /\ UNCHANGED <<st, size, stage, seen, late, committed, rotLock, initLock, ask>>

OpenReadCommitted(o) ==
    /\ open[o] = "bytes"
    /\ OpenGoto(o, IF committed + inflight[o] + ask[o] > Quota
                   THEN "unlock" ELSE "create")
    /\ UNCHANGED <<st, size, stage, seen, late, committed, rotLock, initLock, ask, inflight>>

\* DocumentUpload.create, under a fresh id; or the folder, the engine or the
\* insert refuses and nothing is left behind.
OpenCreate(o) ==
    /\ open[o] = "create"
    /\ \/ \E t \in Transfers :
            /\ st[t] = "unused"
            /\ st' = [st EXCEPT ![t] = "live"]
            /\ size' = [size EXCEPT ![t] = ask[o]]
       \/ UNCHANGED <<st, size>>
    /\ OpenGoto(o, "unlock")
    /\ UNCHANGED <<stage, seen, late, committed, rotLock, initLock, ask, inflight>>

OpenUnlock(o) ==
    /\ open[o] = "unlock"
    /\ initLock' = IF initLock = o THEN Free ELSE initLock
    /\ ask' = [ask EXCEPT ![o] = 0]
    /\ inflight' = [inflight EXCEPT ![o] = 0]
    /\ OpenGoto(o, "idle")
    /\ UNCHANGED <<st, size, stage, seen, late, committed, rotLock>>

----------------------------------------------------------------------------
(* completeUnderLock, as far as the budgets see it *)

\* The staging row is read and its expiry checked, once.
CompleteCheck(t) ==
    /\ stage[t] = "idle" /\ st[t] = "live"
    /\ stage' = [stage EXCEPT ![t] = "checked"]
    /\ UNCHANGED <<st, size, seen, late, committed, rotLock, initLock, open, ask, inflight>>

\* Mutant: the quota is measured without the account's rotation lock.
CompleteUnlocked(t) ==
    /\ stage[t] = "checked"
    /\ stage' = [stage EXCEPT ![t] = "locked"]
    /\ UNCHANGED <<st, size, seen, late, committed, rotLock, initLock, open, ask, inflight>>

\* acquireVaultRotationLock, non-blocking.
CompleteLock(t) ==
    /\ stage[t] = "checked"
    /\ rotLock = Free
    /\ rotLock' = t
    /\ stage' = [stage EXCEPT ![t] = "locked"]
    /\ UNCHANGED <<st, size, seen, late, committed, initLock, open, ask, inflight>>

\* committedBytesFor under the lock; over quota, the transfer is released.
CompleteQuota(t) ==
    /\ stage[t] = "locked"
    /\ IF committed + size[t] > Quota
       THEN /\ st' = [st EXCEPT ![t] = "gone"]
            /\ stage' = [stage EXCEPT ![t] = "idle"]
            /\ rotLock' = IF rotLock = t THEN Free ELSE rotLock
            /\ seen' = seen
       ELSE /\ seen' = [seen EXCEPT ![t] = committed]
            /\ stage' = [stage EXCEPT ![t] = "fits"]
            /\ UNCHANGED <<st, rotLock>>
    /\ UNCHANGED <<size, late, committed, initLock, open, ask, inflight>>

\* The claim: the row goes first.  Two rows are claimed though the counts no
\* longer see them: one that expired after this completion checked it, and a
\* multipart one that was cancelled once its object was assembled (its claim
\* is an unconditional deleteOne; DocumentTransfer has the whole story).
CompleteClaim(t) ==
    /\ stage[t] = "fits"
    /\ st[t] \in {"live", "lapsed", "gone"}
    /\ st' = [st EXCEPT ![t] = "claimed"]
    /\ late' = IF st[t] = "live" THEN late ELSE late \cup {t}
    /\ UNCHANGED <<size, stage, seen, committed, rotLock, initLock, open, ask, inflight>>

\* Document.create, then the rotation lock is released.
CompleteInsert(t) ==
    /\ stage[t] = "fits" /\ st[t] = "claimed"
    /\ st' = [st EXCEPT ![t] = "document"]
    /\ committed' = committed + size[t]
    /\ stage' = [stage EXCEPT ![t] = "idle"]
    /\ seen' = [seen EXCEPT ![t] = 0]
    /\ rotLock' = IF rotLock = t THEN Free ELSE rotLock
    /\ UNCHANGED <<size, late, initLock, open, ask, inflight>>

\* A refusal, a failed insert or a crash whose lease has since ended: a
\* claimed transfer is lost, any other can be completed again.
CompleteFails(t) ==
    /\ stage[t] # "idle"
    /\ st' = IF st[t] = "claimed" THEN [st EXCEPT ![t] = "gone"] ELSE st
    /\ stage' = [stage EXCEPT ![t] = "idle"]
    /\ seen' = [seen EXCEPT ![t] = 0]
    /\ rotLock' = IF rotLock = t THEN Free ELSE rotLock
    /\ UNCHANGED <<size, late, committed, initLock, open, ask, inflight>>

----------------------------------------------------------------------------
\* abortUpload, or the TTL monitor on a row past expiresAt.
RowGone(t) ==
    /\ st[t] \in {"live", "lapsed"}
    /\ st' = [st EXCEPT ![t] = "gone"]
    /\ UNCHANGED <<size, stage, seen, late, committed, rotLock, initLock, open, ask, inflight>>

\* expiresAt passes.
Lapse(t) ==
    /\ st[t] = "live"
    /\ st' = [st EXCEPT ![t] = "lapsed"]
    /\ UNCHANGED <<size, stage, seen, late, committed, rotLock, initLock, open, ask, inflight>>

\* purgeDocument, emptyDocumentTrash or finishPendingPurges removes the row.
Purge(t) ==
    /\ st[t] = "document"
    /\ st' = [st EXCEPT ![t] = "gone"]
    /\ committed' = committed - size[t]
    /\ UNCHANGED <<size, stage, seen, late, rotLock, initLock, open, ask, inflight>>

OpenStep(o) ==
    \/ OpenLock(o) \/ OpenCountLive(o) \/ OpenCountDocuments(o) \/ OpenReadInFlight(o)
    \/ OpenReadCommitted(o) \/ OpenCreate(o) \/ OpenUnlock(o)

TransferStep(t) ==
    \/ CompleteCheck(t) \/ CompleteLock(t) \/ CompleteQuota(t) \/ CompleteClaim(t)
    \/ CompleteInsert(t) \/ CompleteFails(t) \/ RowGone(t) \/ Lapse(t) \/ Purge(t)

Next ==
    \/ \E o \in Openers : OpenStep(o)
    \/ \E t \in Transfers : TransferStep(t)

Spec == Init /\ [][Next]_vars

----------------------------------------------------------------------------
(* What the budgets promise *)

\* The documents of an account never exceed its quota: the last reading and
\* the insert are inside one hold of the rotation lock, so nothing another
\* completion commits comes between them (documentController.ts:1636-1706).
CommittedWithinQuota == committed <= Quota

\* An account never comes to hold more documents than one rotation payload
\* may name (MAX_DOCUMENTS_PER_ROTATION = MaxDocs + MaxConc), counting the
\* transfers that can still commit and leaving out the ones whose completion
\* outlived its staging row: past that, its vault key could never be rotated
\* again (shared/src/constants/index.ts:563-609).
RotationCanNameEveryDocument == Cardinality(Held) <= MaxDocs + MaxConc

----------------------------------------------------------------------------
(* The inductive invariant *)

\* Each lock names the one request inside its critical section.
LocksNameHolders ==
    /\ \A o \in Openers : open[o] # "idle" => initLock = o
    /\ \A t \in Transfers :
        /\ stage[t] \in {"locked", "fits"} => rotLock = t
        /\ st[t] = "claimed" => stage[t] = "fits"
        /\ st[t] \in {"unused", "document"} => stage[t] = "idle"

\* Under the lock a completion's reading can only be too high, since purges
\* alone move the total.
ReadingIsSafe ==
    \A t \in Transfers :
        stage[t] = "fits" => committed <= seen[t] /\ seen[t] + size[t] <= Quota

\* Between the first count and the insert of the row, the opener has proved
\* room for one more.
OpenerHasRoom ==
    \A o \in Openers :
        /\ open[o] = "docs" => Cardinality(Live) <= MaxConc - 1
        /\ open[o] \in {"inflight", "bytes", "create"}
                => Cardinality(Held) <= MaxDocs + MaxConc - 1

BudgetInv ==
    /\ TypeOK
    /\ LocksNameHolders
    /\ ReadingIsSafe
    /\ CommittedWithinQuota
    /\ OpenerHasRoom
    /\ RotationCanNameEveryDocument

=============================================================================
