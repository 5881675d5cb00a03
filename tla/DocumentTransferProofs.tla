----------------------- MODULE DocumentTransferProofs -----------------------
(***************************************************************************)
(* TransferInv is an inductive invariant of DocumentTransfer, for any      *)
(* number of requests of each kind, of segments and of crashes.  The two   *)
(* safety claims follow from it.                                           *)
(***************************************************************************)
EXTENDS DocumentTransfer, TLAPS

\* The parts of the invariant and the finite types are small; the actions
\* are opened one at a time.
USE DEF LockNamesHolder, EndsAreFinal, CollectorIsLate, CancelWins, CancelKeepsObject,
        CompletionHasObject, ServedDocumentHasItsObject, Spent, Fertile, PastRowCheck,
        IdlePart, IdleComp, IdleJob, NoRow, OpenRow, ClosedMpu,
        PartPC, CompPC, AbrtPC, PurgePC, JobPC

\* The constants the actions assign have the types of their variables.
LEMMA ConstantTypes ==
    /\ NoRow \in [exists : BOOLEAN, parts : SUBSET Segments]
    /\ ClosedMpu \in [open : BOOLEAN, parts : SUBSET Segments]
    /\ 1 \in Segments
BY TransferAssumption

\* The state a transfer is opened in satisfies the invariant.
LEMMA InitEstablishesInv == Init => TransferInv
<1> SUFFICES ASSUME Init PROVE TransferInv
  OBVIOUS
<1>1. TypeOK
  <2>1. /\ row \in [exists : BOOLEAN, parts : SUBSET Segments]
        /\ mpu \in [open : BOOLEAN, parts : SUBSET Segments]
    BY TransferAssumption DEF Init
  <2>2. part \in [Uploaders -> [pc : PartPC, number : Segments]]
    BY ConstantTypes DEF Init
  <2>3. comp \in [Completers -> [pc : CompPC, mode : {"object", "multipart"},
                                 ledger : SUBSET Segments]]
    BY DEF Init
  <2>4. job \in [pc : JobPC, docs : BOOLEAN, uploads : BOOLEAN]
    BY DEF Init
  <2> QED
    BY <2>1, <2>2, <2>3, <2>4 DEF TypeOK, Init
<1>2. /\ LockNamesHolder /\ EndsAreFinal /\ CollectorIsLate
      /\ CancelKeepsObject /\ CompletionHasObject /\ ServedDocumentHasItsObject
  BY DEF Init
<1>3. CancelWins
  BY DEF Init
<1> QED
  BY <1>1, <1>2, <1>3 DEF TransferInv

\* Every step of uploadPart and reclaimUnownedPartObject preserves the invariant.
LEMMA PartPreserves ==
    ASSUME TransferInv, NEW u \in Uploaders, PartStep(u)
    PROVE  TransferInv'
<1>0. TypeOK
  BY DEF TransferInv
<1>1. CASE PartLookup(u)
  <2>1. TypeOK'
    BY <1>1, <1>0, TransferAssumption DEF TypeOK, PartLookup, PartGoto, PartNumbers
  <2> QED
    BY <1>1, <2>1, TransferAssumption DEF TransferInv, TypeOK, PartLookup, PartGoto
<1>2. CASE PartStore(u)
  <2>1. TypeOK'
    BY <1>2, <1>0 DEF TypeOK, PartStore, PartGoto
  <2> QED
    BY <1>2, <2>1, TransferAssumption DEF TransferInv, TypeOK, PartStore, PartGoto
<1>3. CASE PartStoreFails(u)
  <2>1. TypeOK'
    BY <1>3, <1>0 DEF TypeOK, PartStoreFails, PartGoto
  <2> QED
    BY <1>3, <2>1, TransferAssumption DEF TransferInv, TypeOK, PartStoreFails, PartGoto
<1>4. CASE PartLedger(u)
  <2>1. TypeOK'
    BY <1>4, <1>0 DEF TypeOK, PartLedger, PartGoto
  <2>2. LockNamesHolder'
    BY <1>4, <2>1, TransferAssumption DEF TransferInv, TypeOK, PartLedger, PartGoto
  <2>3. EndsAreFinal'
    BY <1>4, <2>1, TransferAssumption DEF TransferInv, TypeOK, PartLedger, PartGoto
  <2>4. CollectorIsLate'
    BY <1>4, <2>1, TransferAssumption DEF TransferInv, TypeOK, PartLedger, PartGoto
  <2>5. CancelWins'
    BY <1>4, <2>1, TransferAssumption DEF TransferInv, TypeOK, PartLedger, PartGoto
  <2>6. CancelKeepsObject'
    BY <1>4, <2>1, TransferAssumption DEF TransferInv, TypeOK, PartLedger, PartGoto
  <2>7. CompletionHasObject'
    BY <1>4, <2>1, TransferAssumption DEF TransferInv, TypeOK, PartLedger, PartGoto
  <2>8. ServedDocumentHasItsObject'
    BY <1>4, <2>1, TransferAssumption DEF TransferInv, TypeOK, PartLedger, PartGoto
  <2> QED
    BY <2>1, <2>2, <2>3, <2>4, <2>5, <2>6, <2>7, <2>8 DEF TransferInv
<1>5. CASE ReclaimLock(u)
  <2>1. TypeOK'
    BY <1>5, <1>0 DEF TypeOK, ReclaimLock, PartGoto
  <2>2. LockNamesHolder'
    BY <1>5, <2>1, TransferAssumption DEF TransferInv, TypeOK, ReclaimLock, PartGoto
  <2>3. EndsAreFinal'
    BY <1>5, <2>1, TransferAssumption DEF TransferInv, TypeOK, ReclaimLock, PartGoto
  <2>4. CollectorIsLate'
    BY <1>5, <2>1, TransferAssumption DEF TransferInv, TypeOK, ReclaimLock, PartGoto
  <2>5. CancelWins'
    BY <1>5, <2>1, TransferAssumption DEF TransferInv, TypeOK, ReclaimLock, PartGoto
  <2>6. CancelKeepsObject'
    BY <1>5, <2>1, TransferAssumption DEF TransferInv, TypeOK, ReclaimLock, PartGoto
  <2>7. CompletionHasObject'
    BY <1>5, <2>1, TransferAssumption DEF TransferInv, TypeOK, ReclaimLock, PartGoto
  <2>8. ServedDocumentHasItsObject'
    BY <1>5, <2>1, TransferAssumption DEF TransferInv, TypeOK, ReclaimLock, PartGoto
  <2> QED
    BY <2>1, <2>2, <2>3, <2>4, <2>5, <2>6, <2>7, <2>8 DEF TransferInv
<1>6. CASE ReclaimOwned(u)
  <2>1. TypeOK'
    BY <1>6, <1>0 DEF TypeOK, ReclaimOwned, PartGoto
  <2> QED
    BY <1>6, <2>1, TransferAssumption DEF TransferInv, TypeOK, ReclaimOwned, PartGoto
<1>7. CASE ReclaimDelete(u)
  <2>1. TypeOK'
    BY <1>7, <1>0 DEF TypeOK, ReclaimDelete, PartGoto
  <2> QED
    BY <1>7, <2>1, TransferAssumption DEF TransferInv, TypeOK, ReclaimDelete, PartGoto
<1>8. CASE ReclaimUnlock(u)
  <2>1. TypeOK'
    BY <1>8, <1>0 DEF TypeOK, ReclaimUnlock, PartGoto
  <2> QED
    BY <1>8, <2>1, TransferAssumption DEF TransferInv, TypeOK, ReclaimUnlock, PartGoto
<1> QED
  BY <1>1, <1>2, <1>3, <1>4, <1>5, <1>6, <1>7, <1>8 DEF PartStep

\* Every step of completeUpload preserves the invariant.
LEMMA CompPreserves ==
    ASSUME TransferInv, NEW c \in Completers, CompStep(c)
    PROVE  TransferInv'
<1>0. TypeOK
  BY DEF TransferInv
<1>1. CASE CompLock(c)
  <2>1. TypeOK'
    BY <1>1, <1>0 DEF TypeOK, CompLock, CompGoto
  <2> QED
    BY <1>1, <2>1, TransferAssumption DEF TransferInv, TypeOK, CompLock, CompGoto
<1>2. CASE CompFindDocument(c)
  <2>1. TypeOK'
    BY <1>2, <1>0 DEF TypeOK, CompFindDocument, CompGoto
  <2> QED
    BY <1>2, <2>1, TransferAssumption DEF TransferInv, TypeOK, CompFindDocument, CompGoto
<1>3. CASE CompFindRow(c)
  <2>1. TypeOK'
    BY <1>3, <1>0 DEF TypeOK, CompFindRow, CompGoto
  <2>2. LockNamesHolder'
    BY <1>3, <2>1, TransferAssumption DEF TransferInv, TypeOK, CompFindRow, CompGoto
  <2>3. EndsAreFinal'
    <3>1. CASE row.exists
      <4>1. doc = "none" /\ doc' = doc /\ ~Spent /\ row' = row
        BY <1>3, <3>1 DEF TransferInv, CompFindRow
      <4>2. comp'[c].mode = comp[c].mode /\ \A d \in Completers : d # c => comp'[d] = comp[d]
        BY <1>3, <1>0 DEF TypeOK, CompFindRow, CompGoto
      <4>3. comp'[c].pc \in {"engine", "unlock"}
        BY <1>3, <1>0 DEF TypeOK, CompFindRow, CompGoto
      <4> QED
        BY <1>3, <1>0, <4>1, <4>2, <4>3 DEF TransferInv, CompFindRow
    <3>2. CASE ~row.exists
      BY <1>3, <1>0, <3>2, SMTT(30) DEF TransferInv, TypeOK, CompFindRow, CompGoto
    <3> QED
      BY <3>1, <3>2
  <2>4. CollectorIsLate'
    BY <1>3, <2>1, TransferAssumption DEF TransferInv, TypeOK, CompFindRow, CompGoto
  <2>5. CancelWins'
    BY <1>3, <2>1, TransferAssumption, SMTT(30) DEF TransferInv, TypeOK, CompFindRow, CompGoto
  <2>6. CancelKeepsObject'
    BY <1>3, <2>1, TransferAssumption DEF TransferInv, TypeOK, CompFindRow, CompGoto
  <2>7. CompletionHasObject'
    BY <1>3, <2>1, TransferAssumption DEF TransferInv, TypeOK, CompFindRow, CompGoto
  <2>8. ServedDocumentHasItsObject'
    BY <1>3, <2>1, TransferAssumption DEF TransferInv, TypeOK, CompFindRow, CompGoto
  <2> QED
    BY <2>1, <2>2, <2>3, <2>4, <2>5, <2>6, <2>7, <2>8 DEF TransferInv
<1>4. CASE CompReadEngine(c)
  <2>1. TypeOK'
    BY <1>4, <1>0, SMTT(30) DEF TypeOK, CompReadEngine, CompGoto, EngineLedger
  <2>2. LockNamesHolder'
    BY <1>4, <2>1, TransferAssumption DEF TransferInv, TypeOK, CompReadEngine, CompGoto, EngineLedger
  <2>3. EndsAreFinal'
    BY <1>4, <2>1, TransferAssumption DEF TransferInv, TypeOK, CompReadEngine, CompGoto, EngineLedger
  <2>4. CollectorIsLate'
    BY <1>4, <2>1, TransferAssumption DEF TransferInv, TypeOK, CompReadEngine, CompGoto, EngineLedger
  <2>5. CancelWins'
    BY <1>4, <2>1, TransferAssumption DEF TransferInv, TypeOK, CompReadEngine, CompGoto, EngineLedger
  <2>6. CancelKeepsObject'
    BY <1>4, <2>1, TransferAssumption DEF TransferInv, TypeOK, CompReadEngine, CompGoto, EngineLedger
  <2>7. CompletionHasObject'
    BY <1>4, <2>1, TransferAssumption DEF TransferInv, TypeOK, CompReadEngine, CompGoto, EngineLedger
  <2>8. ServedDocumentHasItsObject'
    BY <1>4, <2>1, TransferAssumption DEF TransferInv, TypeOK, CompReadEngine, CompGoto, EngineLedger
  <2> QED
    BY <2>1, <2>2, <2>3, <2>4, <2>5, <2>6, <2>7, <2>8 DEF TransferInv
<1>5. CASE CompJudge(c)
  <2>1. TypeOK'
    <3>1. \/ CompGoto(c, "assemble") \/ CompGoto(c, "claim") \/ CompGoto(c, "free1")
          \/ CompGoto(c, "unlock")
      BY <1>5 DEF CompJudge
    <3>2. comp' \in [Completers -> [pc : CompPC, mode : {"object", "multipart"},
                                  ledger : SUBSET Segments]]
      BY <3>1, <1>0, SMTT(30) DEF TypeOK, CompGoto
    <3> QED
      BY <1>5, <1>0, <3>2 DEF TypeOK, CompJudge
  <2>2. LockNamesHolder'
    BY <1>5, <2>1, TransferAssumption DEF TransferInv, TypeOK, CompJudge, CompGoto
  <2>3. EndsAreFinal'
    BY <1>5, <2>1, TransferAssumption DEF TransferInv, TypeOK, CompJudge, CompGoto
  <2>4. CollectorIsLate'
    BY <1>5, <2>1, TransferAssumption DEF TransferInv, TypeOK, CompJudge, CompGoto
  <2>5. CancelWins'
    BY <1>5, <2>1, TransferAssumption DEF TransferInv, TypeOK, CompJudge, CompGoto
  <2>6. CancelKeepsObject'
    BY <1>5, <2>1, TransferAssumption DEF TransferInv, TypeOK, CompJudge, CompGoto
  <2>7. CompletionHasObject'
    BY <1>5, <2>1, TransferAssumption DEF TransferInv, TypeOK, CompJudge, CompGoto
  <2>8. ServedDocumentHasItsObject'
    BY <1>5, <2>1, TransferAssumption DEF TransferInv, TypeOK, CompJudge, CompGoto
  <2> QED
    BY <2>1, <2>2, <2>3, <2>4, <2>5, <2>6, <2>7, <2>8 DEF TransferInv
<1>6. CASE ReleaseStorage(c)
  <2>1. TypeOK'
    <3>1. mpu' \in [open : BOOLEAN, parts : SUBSET Segments]
      <4>1. mpu' = mpu \/ mpu' = ClosedMpu
        BY <1>6 DEF ReleaseStorage
      <4> QED
        BY <4>1, <1>0, ConstantTypes DEF TypeOK
    <3>2. comp' \in [Completers -> [pc : CompPC, mode : {"object", "multipart"},
                                  ledger : SUBSET Segments]]
      BY <1>6, <1>0 DEF TypeOK, ReleaseStorage, CompGoto
    <3> QED
      BY <1>6, <1>0, <3>1, <3>2 DEF TypeOK, ReleaseStorage
  <2> QED
    BY <1>6, <2>1, TransferAssumption DEF TransferInv, TypeOK, ReleaseStorage, CompGoto
<1>7. CASE ReleaseRow(c)
  <2>1. TypeOK'
    <3>1. row' \in [exists : BOOLEAN, parts : SUBSET Segments]
      BY <1>7, ConstantTypes DEF ReleaseRow
    <3>2. comp' \in [Completers -> [pc : CompPC, mode : {"object", "multipart"},
                                  ledger : SUBSET Segments]]
      BY <1>7, <1>0 DEF TypeOK, ReleaseRow, CompGoto
    <3> QED
      BY <1>7, <1>0, <3>1, <3>2 DEF TypeOK, ReleaseRow
  <2> QED
    BY <1>7, <2>1, TransferAssumption DEF TransferInv, TypeOK, ReleaseRow, CompGoto
<1>8. CASE CompAssemble(c)
  <2>1. TypeOK'
    <3>1. mpu' \in [open : BOOLEAN, parts : SUBSET Segments]
      <4>1. mpu' = mpu \/ mpu' = ClosedMpu
        BY <1>8 DEF CompAssemble
      <4> QED
        BY <4>1, <1>0, ConstantTypes DEF TypeOK
    <3>2. comp' \in [Completers -> [pc : CompPC, mode : {"object", "multipart"},
                                  ledger : SUBSET Segments]]
      BY <1>8, <1>0, SMTT(30) DEF TypeOK, CompAssemble, CompGoto
    <3> QED
      BY <1>8, <1>0, <3>1, <3>2 DEF TypeOK, CompAssemble
  <2>2. LockNamesHolder'
    BY <1>8, <2>1, TransferAssumption DEF TransferInv, TypeOK, CompAssemble, CompGoto
  <2>3. EndsAreFinal'
    BY <1>8, <2>1, TransferAssumption DEF TransferInv, TypeOK, CompAssemble, CompGoto
  <2>4. CollectorIsLate'
    BY <1>8, <2>1, TransferAssumption DEF TransferInv, TypeOK, CompAssemble, CompGoto
  <2>5. CancelWins'
    BY <1>8, <2>1, TransferAssumption DEF TransferInv, TypeOK, CompAssemble, CompGoto
  <2>6. CancelKeepsObject'
    BY <1>8, <2>1, TransferAssumption DEF TransferInv, TypeOK, CompAssemble, CompGoto
  <2>7. CompletionHasObject'
    BY <1>8, <2>1, TransferAssumption DEF TransferInv, TypeOK, CompAssemble, CompGoto
  <2>8. ServedDocumentHasItsObject'
    BY <1>8, <2>1, TransferAssumption DEF TransferInv, TypeOK, CompAssemble, CompGoto
  <2> QED
    BY <2>1, <2>2, <2>3, <2>4, <2>5, <2>6, <2>7, <2>8 DEF TransferInv
<1>9. CASE CompClaim(c)
  <2>1. TypeOK'
    <3>1. row' \in [exists : BOOLEAN, parts : SUBSET Segments]
      <4>1. row' = row \/ row' = NoRow
        BY <1>9 DEF CompClaim
      <4> QED
        BY <4>1, <1>0, ConstantTypes DEF TypeOK
    <3>2. comp' \in [Completers -> [pc : CompPC, mode : {"object", "multipart"},
                                  ledger : SUBSET Segments]]
      <4>1. CompGoto(c, "unlock") \/ CompGoto(c, "insert")
        BY <1>9 DEF CompClaim
      <4> QED
        BY <4>1, <1>0 DEF TypeOK, CompGoto
    <3> QED
      BY <1>9, <1>0, <3>1, <3>2 DEF TypeOK, CompClaim
  <2>2. LockNamesHolder'
    BY <1>9, <2>1, TransferAssumption DEF TransferInv, TypeOK, CompClaim, CompGoto
  <2>3. EndsAreFinal'
    <3>1. \A d \in Completers : d # c => comp[d].pc \in {"idle", "dead"}
      BY <1>9, <1>0, TransferAssumption DEF TransferInv, TypeOK, CompClaim, CompGoto
    <3>2. doc = "none" /\ doc' = doc /\ ~Spent
      BY <1>9 DEF TransferInv, CompClaim
    <3>3. \/ row' = row /\ comp'[c].pc = "unlock"
          \/ ~row'.exists /\ comp'[c].pc = "insert"
      BY <1>9, <1>0 DEF TypeOK, CompClaim, CompGoto
    <3>4. comp'[c].mode = comp[c].mode /\ \A d \in Completers : d # c => comp'[d] = comp[d]
      BY <1>9, <1>0 DEF TypeOK, CompClaim, CompGoto
    <3> QED
      BY <1>9, <1>0, <3>1, <3>2, <3>3, <3>4 DEF TransferInv, CompClaim
  <2>4. CollectorIsLate'
    BY <1>9, <2>1, TransferAssumption DEF TransferInv, TypeOK, CompClaim, CompGoto
  <2>5. CancelWins'
    BY <1>9, <2>1, TransferAssumption DEF TransferInv, TypeOK, CompClaim, CompGoto
  <2>6. CancelKeepsObject'
    BY <1>9, <2>1, TransferAssumption DEF TransferInv, TypeOK, CompClaim, CompGoto
  <2>7. CompletionHasObject'
    BY <1>9, <2>1, TransferAssumption DEF TransferInv, TypeOK, CompClaim, CompGoto
  <2>8. ServedDocumentHasItsObject'
    BY <1>9, <2>1, TransferAssumption DEF TransferInv, TypeOK, CompClaim, CompGoto
  <2> QED
    BY <2>1, <2>2, <2>3, <2>4, <2>5, <2>6, <2>7, <2>8 DEF TransferInv
<1>10. CASE CompInsert(c)
  <2>1. TypeOK'
    BY <1>10, <1>0, SMTT(30) DEF TypeOK, CompInsert, CompGoto
  <2>2. LockNamesHolder'
    BY <1>10, <2>1, TransferAssumption DEF TransferInv, TypeOK, CompInsert, CompGoto
  <2>3. EndsAreFinal'
    <3>1. /\ doc = "none" /\ ~Spent /\ ~row.exists /\ lock = c
          /\ \A p \in Purgers : purge[p] = "idle"
          /\ job.pc # "purged"
      BY <1>10 DEF TransferInv, CompInsert
    <3>2. \A u \in Uploaders : part[u].pc # "redelete"
      BY <3>1, TransferAssumption DEF TransferInv
    <3>3. \A d \in Completers : d # c => comp'[d] = comp[d] /\ comp[d].pc \in {"idle", "dead"}
      BY <1>10, <1>0, <3>1 DEF TransferInv, TypeOK, CompInsert, CompGoto
    <3>4. /\ comp'[c].mode = comp[c].mode
          /\ \/ comp'[c].pc = "verify"
             \/ comp'[c].pc \in {"unlock", "discard"} /\ doc' = "none"
      BY <1>10, <1>0, <3>1 DEF TypeOK, CompInsert, CompGoto
    <3> QED
      BY <1>10, <1>0, <3>1, <3>2, <3>3, <3>4 DEF TransferInv, CompInsert
  <2>4. CollectorIsLate'
    BY <1>10, <2>1, TransferAssumption DEF TransferInv, TypeOK, CompInsert, CompGoto
  <2>5. CancelWins'
    BY <1>10, <2>1, TransferAssumption DEF TransferInv, TypeOK, CompInsert, CompGoto
  <2>6. CancelKeepsObject'
    BY <1>10, <2>1, TransferAssumption DEF TransferInv, TypeOK, CompInsert, CompGoto
  <2>7. CompletionHasObject'
    BY <1>10, <2>1, TransferAssumption DEF TransferInv, TypeOK, CompInsert, CompGoto
  <2>8. ServedDocumentHasItsObject'
    BY <1>10, <2>1, TransferAssumption DEF TransferInv, TypeOK, CompInsert, CompGoto
  <2> QED
    BY <2>1, <2>2, <2>3, <2>4, <2>5, <2>6, <2>7, <2>8 DEF TransferInv
<1>11. CASE CompDiscard(c)
  <2>1. TypeOK'
    BY <1>11, <1>0 DEF TypeOK, CompDiscard, CompGoto
  <2> QED
    BY <1>11, <2>1, TransferAssumption DEF TransferInv, TypeOK, CompDiscard, CompGoto
<1>12. CASE CompVerify(c)
  <2>1. TypeOK'
    BY <1>12, <1>0 DEF TypeOK, CompVerify, CompGoto
  <2> QED
    BY <1>12, <2>1, TransferAssumption DEF TransferInv, TypeOK, CompVerify, CompGoto
<1>13. CASE CompWithdraw(c)
  <2>1. TypeOK'
    BY <1>13, <1>0 DEF TypeOK, CompWithdraw, CompGoto
  <2> QED
    BY <1>13, <2>1, TransferAssumption DEF TransferInv, TypeOK, CompWithdraw, CompGoto
<1>14. CASE CompUnlock(c)
  <2>1. TypeOK'
    BY <1>14, <1>0 DEF TypeOK, CompUnlock, CompGoto
  <2> QED
    BY <1>14, <2>1, TransferAssumption DEF TransferInv, TypeOK, CompUnlock, CompGoto
<1> QED
  BY <1>1, <1>2, <1>3, <1>4, <1>5, <1>6, <1>7, <1>8, <1>9, <1>10, <1>11, <1>12, <1>13, <1>14 DEF CompStep

\* Every step of abortUpload preserves the invariant.
LEMMA AbortPreserves ==
    ASSUME TransferInv, NEW a \in Cancellers, AbortStep(a)
    PROVE  TransferInv'
<1>0. TypeOK
  BY DEF TransferInv
<1>1. CASE AbortLookup(a)
  <2>1. TypeOK'
    BY <1>1, <1>0 DEF TypeOK, AbortLookup, AbrtGoto
  <2> QED
    BY <1>1, <2>1, TransferAssumption DEF TransferInv, TypeOK, AbortLookup, AbrtGoto
<1>2. CASE AbortClaim(a)
  <2>1. TypeOK'
    BY <1>2, <1>0 DEF TypeOK, AbortClaim, AbrtGoto
  <2> QED
    BY <1>2, <2>1, TransferAssumption DEF TransferInv, TypeOK, AbortClaim, AbrtGoto
<1>3. CASE AbortDelete(a)
  <2>1. TypeOK'
    BY <1>3, <1>0 DEF TypeOK, AbortDelete, AbrtGoto
  <2> QED
    BY <1>3, <2>1, TransferAssumption DEF TransferInv, TypeOK, AbortDelete, AbrtGoto
<1>4. CASE AbortEngine(a)
  <2>1. TypeOK'
    <3>1. mpu' \in [open : BOOLEAN, parts : SUBSET Segments]
      <4>1. mpu' = mpu \/ mpu' = ClosedMpu
        BY <1>4 DEF AbortEngine
      <4> QED
        BY <4>1, <1>0, ConstantTypes DEF TypeOK
    <3>2. abrt' \in [Cancellers -> AbrtPC]
      BY <1>4, <1>0 DEF TypeOK, AbortEngine, AbrtGoto
    <3> QED
      BY <1>4, <1>0, <3>1, <3>2 DEF TypeOK, AbortEngine
  <2> QED
    BY <1>4, <2>1, TransferAssumption DEF TransferInv, TypeOK, AbortEngine, AbrtGoto
<1>5. CASE AbortDrop(a)
  <2>1. TypeOK'
    BY <1>5, <1>0 DEF TypeOK, AbortDrop, AbrtGoto
  <2> QED
    BY <1>5, <2>1, TransferAssumption DEF TransferInv, TypeOK, AbortDrop, AbrtGoto
<1> QED
  BY <1>1, <1>2, <1>3, <1>4, <1>5 DEF AbortStep

\* Every step of purgeDocument and emptyDocumentTrash preserves the invariant.
LEMMA PurgePreserves ==
    ASSUME TransferInv, NEW p \in Purgers, PurgeStep(p)
    PROVE  TransferInv'
<1>0. TypeOK
  BY DEF TransferInv
<1>1. CASE PurgeMark(p)
  <2>1. TypeOK'
    BY <1>1, <1>0 DEF TypeOK, PurgeMark
  <2> QED
    BY <1>1, <2>1, TransferAssumption DEF TransferInv, TypeOK, PurgeMark
<1>2. CASE PurgeDelete(p)
  <2>1. TypeOK'
    BY <1>2, <1>0 DEF TypeOK, PurgeDelete
  <2> QED
    BY <1>2, <2>1, TransferAssumption DEF TransferInv, TypeOK, PurgeDelete
<1>3. CASE PurgeDrop(p)
  <2>1. TypeOK'
    BY <1>3, <1>0 DEF TypeOK, PurgeDrop
  <2> QED
    BY <1>3, <2>1, TransferAssumption DEF TransferInv, TypeOK, PurgeDrop
<1> QED
  BY <1>1, <1>2, <1>3 DEF PurgeStep

\* Every step of the collector preserves the invariant.
LEMMA JobPreserves ==
    ASSUME TransferInv, JobStep
    PROVE  TransferInv'
<1>0. TypeOK
  BY DEF TransferInv
<1>1. CASE JobAbandoned
  <2>1. TypeOK'
    BY <1>1, <1>0 DEF TypeOK, JobAbandoned
  <2> QED
    BY <1>1, <2>1, TransferAssumption DEF TransferInv, TypeOK, JobAbandoned
<1>2. CASE JobAbort
  <2>1. TypeOK'
    BY <1>2, <1>0 DEF TypeOK, JobAbort
  <2> QED
    BY <1>2, <2>1, TransferAssumption DEF TransferInv, TypeOK, JobAbort
<1>3. CASE JobPendingPurge
  <2>1. TypeOK'
    BY <1>3, <1>0 DEF TypeOK, JobPendingPurge
  <2> QED
    BY <1>3, <2>1, TransferAssumption DEF TransferInv, TypeOK, JobPendingPurge
<1>4. CASE JobPurged
  <2>1. TypeOK'
    BY <1>4, <1>0 DEF TypeOK, JobPurged
  <2> QED
    BY <1>4, <2>1, TransferAssumption DEF TransferInv, TypeOK, JobPurged
<1>5. CASE JobList
  <2>1. TypeOK'
    BY <1>5, <1>0 DEF TypeOK, JobList, Sweepable
  <2> QED
    BY <1>5, <2>1, TransferAssumption DEF TransferInv, TypeOK, JobList, Sweepable
<1>6. CASE JobReadDocuments
  <2>1. TypeOK'
    <3>1. job' \in [pc : JobPC, docs : BOOLEAN, uploads : BOOLEAN]
      BY <1>6, <1>0 DEF TypeOK, JobReadDocuments
    <3> QED
      BY <1>6, <1>0, <3>1 DEF TypeOK, JobReadDocuments
  <2> QED
    BY <1>6, <2>1, TransferAssumption DEF TransferInv, TypeOK, JobReadDocuments
<1>7. CASE JobReadUploads
  <2>1. TypeOK'
    <3>1. job' \in [pc : JobPC, docs : BOOLEAN, uploads : BOOLEAN]
      BY <1>7, <1>0 DEF TypeOK, JobReadUploads
    <3> QED
      BY <1>7, <1>0, <3>1 DEF TypeOK, JobReadUploads
  <2> QED
    BY <1>7, <2>1, TransferAssumption DEF TransferInv, TypeOK, JobReadUploads
<1>8. CASE JobDelete
  <2>1. TypeOK'
    BY <1>8, <1>0 DEF TypeOK, JobDelete
  <2> QED
    BY <1>8, <2>1, TransferAssumption DEF TransferInv, TypeOK, JobDelete
<1> QED
  BY <1>1, <1>2, <1>3, <1>4, <1>5, <1>6, <1>7, <1>8 DEF JobStep

\* Every step of the account erasure preserves the invariant.
LEMMA ErasePreserves ==
    ASSUME TransferInv, EraseStep
    PROVE  TransferInv'
<1>0. TypeOK
  BY DEF TransferInv
<1>1. CASE EraseMark
  <2>1. TypeOK'
    BY <1>1, <1>0 DEF TypeOK, EraseMark
  <2> QED
    BY <1>1, <2>1, TransferAssumption DEF TransferInv, TypeOK, EraseMark
<1>2. CASE EraseDocuments
  <2>1. TypeOK'
    BY <1>2, <1>0 DEF TypeOK, EraseDocuments
  <2> QED
    BY <1>2, <2>1, TransferAssumption DEF TransferInv, TypeOK, EraseDocuments
<1>3. CASE EraseUploads
  <2>1. TypeOK'
    BY <1>3, <1>0 DEF TypeOK, EraseUploads
  <2> QED
    BY <1>3, <2>1, TransferAssumption DEF TransferInv, TypeOK, EraseUploads
<1>4. CASE EraseObjects
  <2>1. TypeOK'
    BY <1>4, <1>0 DEF TypeOK, EraseObjects
  <2> QED
    BY <1>4, <2>1, TransferAssumption DEF TransferInv, TypeOK, EraseObjects
<1> QED
  BY <1>1, <1>2, <1>3, <1>4 DEF EraseStep

\* Every step of a crash preserves the invariant.
LEMMA CrashPreserves ==
    ASSUME TransferInv, CrashStep
    PROVE  TransferInv'
<1>0. TypeOK
  BY DEF TransferInv
<1>1. ASSUME NEW u \in Uploaders, CrashPart(u)
      PROVE  TransferInv'
  <2>1. TypeOK'
    <3>1. part' \in [Uploaders -> [pc : PartPC, number : Segments]]
      BY <1>1, <1>0, ConstantTypes DEF TypeOK, CrashPart, Orphaned
    <3> QED
      BY <1>1, <1>0, <3>1 DEF TypeOK, CrashPart, Orphaned
  <2> QED
    BY <1>1, <2>1, TransferAssumption DEF TransferInv, TypeOK, CrashPart, Orphaned
<1>2. ASSUME NEW c \in Completers, CrashComp(c)
      PROVE  TransferInv'
  <2>1. TypeOK'
    BY <1>2, <1>0 DEF TypeOK, CrashComp, Orphaned
  <2> QED
    BY <1>2, <2>1, TransferAssumption DEF TransferInv, TypeOK, CrashComp, Orphaned
<1>3. ASSUME NEW a \in Cancellers, CrashAbort(a)
      PROVE  TransferInv'
  <2>1. TypeOK'
    BY <1>3, <1>0 DEF TypeOK, CrashAbort, AbrtGoto
  <2> QED
    BY <1>3, <2>1, TransferAssumption DEF TransferInv, TypeOK, CrashAbort, AbrtGoto
<1>4. ASSUME NEW p \in Purgers, CrashPurge(p)
      PROVE  TransferInv'
  <2>1. TypeOK'
    BY <1>4, <1>0 DEF TypeOK, CrashPurge
  <2> QED
    BY <1>4, <2>1, TransferAssumption DEF TransferInv, TypeOK, CrashPurge
<1> QED
  BY <1>1, <1>2, <1>3, <1>4 DEF CrashStep

\* Every step of the trash, of time and of a storage failure preserves the invariant.
LEMMA RestPreserves ==
    ASSUME TransferInv,
           deleteDocument \/ restoreDocument \/ JobStorageFails \/ Age \/ ObjectAges
             \/ RowExpires \/ LockLapses
    PROVE  TransferInv'
<1>0. TypeOK
  BY DEF TransferInv
<1>1. CASE deleteDocument
  <2>1. TypeOK'
    BY <1>1, <1>0 DEF TypeOK, deleteDocument
  <2> QED
    BY <1>1, <2>1, TransferAssumption DEF TransferInv, TypeOK, deleteDocument
<1>2. CASE restoreDocument
  <2>1. TypeOK'
    BY <1>2, <1>0 DEF TypeOK, restoreDocument
  <2> QED
    BY <1>2, <2>1, TransferAssumption DEF TransferInv, TypeOK, restoreDocument
<1>3. CASE JobStorageFails
  <2>1. TypeOK'
    <3>1. job' \in [pc : JobPC, docs : BOOLEAN, uploads : BOOLEAN]
      <4>1. CASE job' = IdleJob
        BY <4>1
      <4>2. CASE job' = [job EXCEPT !.pc = "purges"]
        BY <4>2, <1>0 DEF TypeOK
      <4>3. CASE job' = [job EXCEPT !.pc = "sweep"]
        BY <4>3, <1>0 DEF TypeOK
      <4> QED
        BY <1>3, <4>1, <4>2, <4>3 DEF JobStorageFails
    <3> QED
      BY <1>3, <1>0, <3>1 DEF TypeOK, JobStorageFails
  <2> QED
    BY <1>3, <2>1, TransferAssumption DEF TransferInv, TypeOK, JobStorageFails
<1>4. CASE Age
  <2>1. TypeOK'
    BY <1>4, <1>0 DEF TypeOK, Age
  <2> QED
    BY <1>4, <2>1, TransferAssumption DEF TransferInv, TypeOK, Age
<1>5. CASE ObjectAges
  <2>1. TypeOK'
    BY <1>5, <1>0 DEF TypeOK, ObjectAges
  <2> QED
    BY <1>5, <2>1, TransferAssumption DEF TransferInv, TypeOK, ObjectAges
<1>6. CASE RowExpires
  <2>1. TypeOK'
    BY <1>6, <1>0 DEF TypeOK, RowExpires
  <2> QED
    BY <1>6, <2>1, TransferAssumption DEF TransferInv, TypeOK, RowExpires
<1>7. CASE LockLapses
  <2>1. TypeOK'
    BY <1>7, <1>0 DEF TypeOK, LockLapses
  <2> QED
    BY <1>7, <2>1, TransferAssumption DEF TransferInv, TypeOK, LockLapses
<1> QED
  BY <1>1, <1>2, <1>3, <1>4, <1>5, <1>6, <1>7

\* TransferInv holds in every reachable state.
THEOREM TransferInvHolds == Spec => []TransferInv
<1>1. TransferInv /\ [Next]_vars => TransferInv'
  <2> SUFFICES ASSUME TransferInv, [Next]_vars PROVE TransferInv'
    OBVIOUS
  <2>1. CASE Next
    BY <2>1, PartPreserves, CompPreserves, AbortPreserves, PurgePreserves, JobPreserves,
       ErasePreserves, CrashPreserves, RestPreserves DEF Next
  <2>2. CASE UNCHANGED vars
    BY <2>2 DEF vars, TransferInv, TypeOK
  <2> QED
    BY <2>1, <2>2
<1> QED
  BY InitEstablishesInv, <1>1, PTL DEF Spec

\* No interleaving of parts, completions, cancels, purges, the collector and
\* the account's erasure leaves a served document without its bytes.
THEOREM ServedDocumentHasItsObjectHolds == Spec => []ServedDocumentHasItsObject
<1>1. TransferInv => ServedDocumentHasItsObject
  BY DEF TransferInv
<1> QED
  BY TransferInvHolds, <1>1, PTL

\* A single-segment transfer whose cancel was answered never becomes a document.
THEOREM SingleCancelIsFinalHolds == Spec => []SingleCancelIsFinal
<1>1. TransferInv => SingleCancelIsFinal
  BY DEF TransferInv, SingleCancelIsFinal
<1> QED
  BY TransferInvHolds, <1>1, PTL

\* Whatever a step does, a document in a swept account is one its completion has
\* still to verify.
LEMMA SweptPreserved ==
    ASSUME TypeOK, SweptStaysSwept, [Next]_vars
    PROVE  SweptStaysSwept'
<1> USE DEF TypeOK, SweptStaysSwept
<1> HIDE DEF NoRow, ClosedMpu, PartPC, AbrtPC, PurgePC, JobPC
<1>1. ASSUME NEW u \in Uploaders, PartStep(u) PROVE SweptStaysSwept'
  BY <1>1 DEF PartStep, PartLookup, PartStore, PartStoreFails, PartLedger, ReclaimLock,
     ReclaimOwned, ReclaimDelete, ReclaimUnlock
<1>2. ASSUME NEW c \in Completers, CompStep(c) PROVE SweptStaysSwept'
  BY <1>2 DEF CompStep, CompLock, CompFindDocument, CompFindRow, CompReadEngine, CompJudge,
     ReleaseStorage, ReleaseRow, CompAssemble, CompClaim, CompInsert, CompDiscard, CompVerify,
     CompWithdraw, CompUnlock, CompGoto, IdleComp
<1>3. ASSUME NEW a \in Cancellers, AbortStep(a) PROVE SweptStaysSwept'
  BY <1>3 DEF AbortStep, AbortLookup, AbortClaim, AbortDelete, AbortEngine, AbortDrop
<1>4. ASSUME NEW p \in Purgers, PurgeStep(p) PROVE SweptStaysSwept'
  BY <1>4 DEF PurgeStep, PurgeMark, PurgeDelete, PurgeDrop
<1>5. CASE JobStep \/ JobStorageFails
  BY <1>5 DEF JobStep, JobAbandoned, JobAbort, JobPendingPurge, JobPurged, JobList,
     JobReadDocuments, JobReadUploads, JobDelete, JobStorageFails
<1>6. CASE EraseStep
  BY <1>6 DEF EraseStep, EraseMark, EraseDocuments, EraseUploads, EraseObjects
<1>7. CASE CrashStep
  BY <1>7 DEF CrashStep, CrashPart, CrashComp, CrashAbort, CrashPurge, IdleComp
<1>8. CASE \/ deleteDocument \/ restoreDocument \/ Age \/ ObjectAges \/ RowExpires \/ LockLapses
           \/ UNCHANGED vars
  BY <1>8 DEF deleteDocument, restoreDocument, Age, ObjectAges, RowExpires, LockLapses, vars
<1> QED
  BY <1>1, <1>2, <1>3, <1>4, <1>5, <1>6, <1>7, <1>8 DEF Next

\* Whatever a step does, the recorded parts stay the declared ones, and the ledger of
\* an assembled transfer stays whole.
LEMMA LedgerPreserved ==
    ASSUME TypeOK, LedgerIsWhole, [Next]_vars
    PROVE  LedgerIsWhole'
<1> USE TransferAssumption DEF TypeOK, LedgerIsWhole, AssembledTransferIsCompletable, Fertile, PartNumbers,
        PartPC, CompPC, NoRow, ClosedMpu
<1>1. ASSUME NEW u \in Uploaders, PartStep(u) PROVE LedgerIsWhole'
  <2>1. CASE PartLookup(u)
    BY <2>1 DEF PartLookup, PartGoto
  <2>2. CASE PartStore(u)
    BY <2>2 DEF PartStore, PartGoto
  <2>3. CASE PartStoreFails(u)
    BY <2>3 DEF PartStoreFails, PartGoto
  <2>4. CASE PartLedger(u)
    <3>1. CASE row.exists
      <4>1. part[u].number \in PartNumbers /\ row.parts \cup {part[u].number} \subseteq PartNumbers
        BY <2>4 DEF PartLedger
      <4>2. /\ row'.exists /\ row'.parts = row.parts \cup {part[u].number}
            /\ UNCHANGED <<multi, object, comp>>
        BY <2>4, <3>1 DEF PartLedger
      <4>3. part' = [part EXCEPT ![u].pc = "idle"]
        BY <2>4, <3>1 DEF PartLedger, PartGoto
      <4>4. AssembledTransferIsCompletable'
        BY <4>1, <4>2, <3>1
      <4>5. \A v \in Uploaders : part'[v].pc \in {"store", "ledger"} => part'[v].number \in PartNumbers'
        BY <4>2, <4>3
      <4>6. \A c \in Completers :
              /\ Fertile(c)' /\ row'.exists => comp'[c].ledger \subseteq row'.parts
              /\ comp'[c].pc \in {"judge", "assemble"} => comp'[c].ledger = PartNumbers'
        BY <4>2, <3>1
      <4>7. row'.parts \subseteq PartNumbers'
        BY <4>1, <4>2
      <4> HIDE DEF PartNumbers, Fertile, AssembledTransferIsCompletable
      <4> QED
        BY <4>4, <4>5, <4>6, <4>7
    <3>2. CASE ~row.exists
      BY <2>4, <3>2 DEF PartLedger, PartGoto
    <3> QED
      BY <3>1, <3>2
  <2>5. CASE ReclaimLock(u)
    BY <2>5 DEF ReclaimLock, PartGoto
  <2>6. CASE ReclaimOwned(u)
    BY <2>6 DEF ReclaimOwned, PartGoto
  <2>7. CASE ReclaimDelete(u)
    BY <2>7 DEF ReclaimDelete, PartGoto
  <2>8. CASE ReclaimUnlock(u)
    BY <2>8 DEF ReclaimUnlock, PartGoto
  <2> QED
    BY <1>1, <2>1, <2>2, <2>3, <2>4, <2>5, <2>6, <2>7, <2>8 DEF PartStep
<1>2. ASSUME NEW c \in Completers, CompStep(c) PROVE LedgerIsWhole'
  <2>1. CASE CompLock(c)
    BY <2>1 DEF CompLock, CompGoto
  <2>2. CASE CompFindDocument(c)
    BY <2>2 DEF CompFindDocument, CompGoto
  <2>3. CASE CompFindRow(c)
    BY <2>3, SMTT(30) DEF CompFindRow, CompGoto
  <2>4. CASE CompReadEngine(c)
    BY <2>4, SMTT(30) DEF CompReadEngine, CompGoto
  <2>5. CASE CompJudge(c)
    BY <2>5, SMTT(30) DEF CompJudge, CompGoto
  <2>6. CASE ReleaseStorage(c)
    BY <2>6 DEF ReleaseStorage, CompGoto
  <2>7. CASE ReleaseRow(c)
    BY <2>7 DEF ReleaseRow, CompGoto
  <2>8. CASE CompAssemble(c)
    <3>1. row.exists => row.parts = PartNumbers
      <4>1. comp[c].ledger = PartNumbers /\ row.parts \subseteq PartNumbers
        BY <2>8 DEF CompAssemble
      <4>2. row.exists => comp[c].ledger \subseteq row.parts
        BY <2>8 DEF CompAssemble
      <4> HIDE DEF PartNumbers
      <4> QED
        BY <4>1, <4>2
    <3>2. /\ UNCHANGED <<multi, row, part>>
          /\ comp' \in {[comp EXCEPT ![c].pc = "claim"], [comp EXCEPT ![c].pc = "unlock"]}
      BY <2>8 DEF CompAssemble, CompGoto
    <3> QED
      BY <2>8, <3>1, <3>2 DEF CompAssemble
  <2>9. CASE CompClaim(c)
    BY <2>9 DEF CompClaim, CompGoto
  <2>10. CASE CompInsert(c)
    BY <2>10 DEF CompInsert, CompGoto
  <2>11. CASE CompDiscard(c)
    BY <2>11 DEF CompDiscard, CompGoto
  <2>12. CASE CompVerify(c)
    BY <2>12 DEF CompVerify, CompGoto
  <2>13. CASE CompWithdraw(c)
    BY <2>13 DEF CompWithdraw, CompGoto
  <2>14. CASE CompUnlock(c)
    BY <2>14 DEF CompUnlock, IdleComp
  <2> QED
    BY <1>2, <2>1, <2>2, <2>3, <2>4, <2>5, <2>6, <2>7, <2>8, <2>9, <2>10, <2>11, <2>12, <2>13, <2>14 DEF CompStep
<1>3. ASSUME NEW a \in Cancellers, AbortStep(a) PROVE LedgerIsWhole'
  BY <1>3 DEF AbortStep, AbortLookup, AbortClaim, AbortDelete, AbortEngine, AbortDrop
<1>4. ASSUME NEW p \in Purgers, PurgeStep(p) PROVE LedgerIsWhole'
  BY <1>4 DEF PurgeStep, PurgeMark, PurgeDelete, PurgeDrop
<1>5. CASE JobStep \/ JobStorageFails
  BY <1>5 DEF JobStep, JobAbandoned, JobAbort, JobPendingPurge, JobPurged, JobList,
     JobReadDocuments, JobReadUploads, JobDelete, JobStorageFails
<1>6. CASE EraseStep
  BY <1>6 DEF EraseStep, EraseMark, EraseDocuments, EraseUploads, EraseObjects
<1>7. CASE CrashStep
  BY <1>7 DEF CrashStep, CrashPart, CrashComp, CrashAbort, CrashPurge, IdleComp, IdlePart
<1>8. CASE \/ deleteDocument \/ restoreDocument \/ Age \/ ObjectAges \/ RowExpires \/ LockLapses
           \/ UNCHANGED vars
  BY <1>8 DEF deleteDocument, restoreDocument, Age, ObjectAges, RowExpires, LockLapses, vars
<1> QED
  BY <1>1, <1>2, <1>3, <1>4, <1>5, <1>6, <1>7, <1>8 DEF Next

\* Once the account's rows are erased, the only document left is one whose
\* completion has still to look at the account, or died before it did.
THEOREM ErasedAccountOwnsNothingHolds == Spec => []ErasedAccountOwnsNothing
<1>1. Init => SweptStaysSwept
  BY DEF Init, SweptStaysSwept
<1>2. TransferInv => TypeOK
  BY DEF TransferInv
<1>3. SweptStaysSwept => ErasedAccountOwnsNothing
  BY DEF SweptStaysSwept, ErasedAccountOwnsNothing
<1> QED
  BY <1>1, <1>2, <1>3, SweptPreserved, TransferInvHolds, PTL DEF Spec

\* An object that was assembled before a crash, of any number of segments, has a
\* staging row that names exactly its parts: the retry is accepted.
THEOREM AssembledTransferIsCompletableHolds == Spec => []AssembledTransferIsCompletable
<1>1. Init => LedgerIsWhole
  BY DEF Init, LedgerIsWhole, AssembledTransferIsCompletable
<1>2. TransferInv => TypeOK
  BY DEF TransferInv
<1>3. LedgerIsWhole => AssembledTransferIsCompletable
  BY DEF LedgerIsWhole
<1> QED
  BY <1>1, <1>2, <1>3, LedgerPreserved, TransferInvHolds, PTL DEF Spec
=============================================================================
