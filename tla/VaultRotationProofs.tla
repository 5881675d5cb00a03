------------------------ MODULE VaultRotationProofs ------------------------
(***************************************************************************)
(* A rotation of the vault key, for any rows and any number of requests of *)
(* each kind.  In the order of the proofs:                                 *)
(*                                                                         *)
(*   - exclusion: the rotation lock names whoever is inside it, and nobody *)
(*     lowers the fence of a rotation that is rewriting rows;              *)
(*   - the stored wrapper opens with the password that signs in;           *)
(*   - no edit is undone: every ciphertext that somebody still holds is    *)
(*     dated, and a rollback puts back only what nobody edited since;      *)
(*   - every row opens: no key is forgotten while a row, or a copy that    *)
(*     may still be stored, is sealed under it.                            *)
(*                                                                         *)
(* Each of the last two follows its inductive invariant (EditInv, KeyInv)  *)
(* through one lemma per kind of step.                                     *)
(***************************************************************************)
EXTENDS VaultRotation, FiniteSetTheorems, TLAPS

\* What a request forgets, it forgets to values of its type.
LEMMA IdleTypes ==
    /\ NoWrapper \in Wrappers /\ NoRow \in RowRec
    /\ IdleRot \in RotRec /\ IdleWr \in WrRec /\ IdleHold \in HoldRec /\ IdlePw \in PwRec
<1>1. NoWrapper \in Wrappers /\ NoRow \in RowRec
  BY DEF NoWrapper, Wrappers, NoRow, RowRec
<1>2. IdleRot \in RotRec
  BY <1>1 DEF IdleRot, RotRec, RotPC
<1>3. IdleWr \in WrRec
  BY RotationAssumption DEF IdleWr, WrRec, WrPC
<1>4. IdleHold \in HoldRec /\ IdlePw \in PwRec
  BY DEF IdleHold, HoldRec, HoldPC, IdlePw, PwRec, PwPC
<1> QED
  BY <1>1, <1>2, <1>3, <1>4

\* A request that moves on keeps its type.
LEMMA GotoTypes ==
    ASSUME TypeOK
    PROVE  /\ \A r \in Rotators, pc \in RotPC : RotGoto(r, pc) => rot' \in [Rotators -> RotRec]
           /\ \A w \in Writers, pc \in WrPC : WrGoto(w, pc) => wr' \in [Writers -> WrRec]
           /\ \A h \in Holders, pc \in HoldPC : HoldGoto(h, pc) => hold' \in [Holders -> HoldRec]
           /\ \A c \in Changers, pc \in PwPC : PwGoto(c, pc) => pw' \in [Changers -> PwRec]
<1>1. ASSUME NEW r \in Rotators, NEW pc \in RotPC, RotGoto(r, pc)
      PROVE  rot' \in [Rotators -> RotRec]
  <2>1. [IdleRot EXCEPT !.pc = pc] \in RotRec
    BY IdleTypes DEF RotRec
  <2>2. [rot[r] EXCEPT !.pc = pc] \in RotRec
    BY ZenonT(40) DEF TypeOK, RotRec
  <2> QED
    BY <1>1, <2>1, <2>2 DEF RotGoto, TypeOK
<1>2. ASSUME NEW w \in Writers, NEW pc \in WrPC, WrGoto(w, pc)
      PROVE  wr' \in [Writers -> WrRec]
  BY <1>2 DEF WrGoto, TypeOK, WrRec
<1>3. ASSUME NEW h \in Holders, NEW pc \in HoldPC, HoldGoto(h, pc)
      PROVE  hold' \in [Holders -> HoldRec]
  BY <1>3 DEF HoldGoto, TypeOK, HoldRec
<1>4. ASSUME NEW c \in Changers, NEW pc \in PwPC, PwGoto(c, pc)
      PROVE  pw' \in [Changers -> PwRec]
  BY <1>4 DEF PwGoto, TypeOK, PwRec
<1> QED
  BY <1>1, <1>2, <1>3, <1>4

\* The exclusion alone: what LockNamesHolder and FenceCoversRotation read of
\* a step is the lock, the fence, the wrapper and the program counters.
Exclusion == LockNamesHolder /\ (~lost.fence => FenceCoversRotation)

\* The fields of the records that a step reads.
LEMMA FieldTypes ==
    ASSUME TypeOK
    PROVE  /\ user.wrapper \in Wrappers /\ user.wrapper.key \in Nat
           /\ user.pending \in Wrappers /\ user.pending.key \in Nat
           /\ user.ver \in Nat /\ user.cred \in Nat /\ user.fence \in BOOLEAN
           /\ \A x \in Rows : row[x] \in RowRec /\ row[x].v \in Nat
           /\ \A w \in Writers : wr[w] \in WrRec /\ wr[w].row \in Rows /\ wr[w].key \in Nat
           /\ \A h \in Holders : hold[h].key \in Nat
           /\ \A c \in Changers : pw[c].key \in Nat /\ pw[c].pending \in Nat
           /\ \A r \in Rotators : /\ rot[r] \in RotRec /\ rot[r].new \in Wrappers
                                  /\ rot[r].seen \in [Rows -> RowRec]
                                  /\ rot[r].snap \in [Rows -> RowRec]
                                  /\ rot[r].done \in [Rows -> Nat]
<1>1. user \in UserRec
  BY DEF TypeOK
<1>2. user.wrapper \in Wrappers /\ user.pending \in Wrappers
      /\ user.ver \in Nat /\ user.cred \in Nat /\ user.fence \in BOOLEAN
  BY <1>1 DEF UserRec
<1>3. user.wrapper.key \in Nat /\ user.pending.key \in Nat
  BY <1>2 DEF Wrappers
<1>4. \A x \in Rows : row[x] \in RowRec /\ row[x].v \in Nat
  BY DEF TypeOK, RowRec
<1>5. \A w \in Writers : wr[w] \in WrRec /\ wr[w].row \in Rows /\ wr[w].key \in Nat
  BY DEF TypeOK, WrRec
<1>6. (\A h \in Holders : hold[h].key \in Nat)
      /\ (\A c \in Changers : pw[c].key \in Nat /\ pw[c].pending \in Nat)
  BY DEF TypeOK, HoldRec, PwRec
<1>7. ASSUME NEW r \in Rotators
      PROVE  /\ rot[r] \in RotRec /\ rot[r].new \in Wrappers
             /\ rot[r].seen \in [Rows -> RowRec] /\ rot[r].snap \in [Rows -> RowRec]
             /\ rot[r].done \in [Rows -> Nat]
  BY DEF TypeOK, RotRec
<1> QED
  BY <1>2, <1>3, <1>4, <1>5, <1>6, <1>7

\* What a failed withdrawal, an overtaken password change, a rotation that abandons
\* another and a login add to what the account is known to have lost.
LEMMA LossMoves ==
    ASSUME TypeOK
    PROVE  /\ \A w \in Writers : WrWithdrawFails(w) =>
                /\ lost' \in LossRec /\ lost'.rows = lost.rows \cup {<<wr[w].row, wr[w].key>>}
                /\ lost'.asked = lost.asked /\ lost'.carried = lost.carried
                /\ lost'.outdated = lost.outdated /\ lost'.fence = lost.fence
           /\ \A c \in Changers : PwWrite(c) =>
                /\ lost' \in LossRec /\ lost'.rows = lost.rows /\ lost'.asked = lost.asked
                /\ lost'.outdated = lost.outdated /\ lost'.fence = lost.fence
                /\ lost'.carried = IF user'.pending.key = user.pending.key THEN lost.carried
                                   ELSE lost.carried \cup {user.pending.key}
           /\ \A r \in Rotators :
                /\ Abandoning(r) \in LossRec /\ Abandoning(r).rows = lost.rows
                /\ Abandoning(r).carried = lost.carried
                /\ Abandoning(r).outdated = lost.outdated /\ Abandoning(r).fence = lost.fence
                /\ Abandoning(r).asked = IF rot[r].mode = "discard" /\ user.pending # NoWrapper
                                         THEN lost.asked \cup {user.pending.key} ELSE lost.asked
           /\ \A r \in Rotators : RotFence(r) =>
                /\ lost' \in LossRec /\ lost'.rows = lost.rows /\ lost'.fence = lost.fence
                /\ lost'.carried = lost.carried /\ lost'.asked = Abandoning(r).asked
                /\ lost'.outdated = IF rot[r].mode # "reseal" /\ rot[r].new.cred # user.cred
                                    THEN lost.outdated \cup {rot[r].new.key} ELSE lost.outdated
           /\ LoginLower =>
                /\ lost' \in LossRec /\ lost'.rows = lost.rows /\ lost'.asked = lost.asked
                /\ lost'.carried = lost.carried /\ lost'.outdated = lost.outdated
                /\ ~lost'.fence => ~lost.fence /\ \A r \in Rotators : ~Fenced(r)
<1>0. lost \in LossRec /\ user.pending.key \in Nat
  BY FieldTypes DEF TypeOK
<1>1. ASSUME NEW w \in Writers, WrWithdrawFails(w)
      PROVE  /\ lost' \in LossRec /\ lost'.rows = lost.rows \cup {<<wr[w].row, wr[w].key>>}
             /\ lost'.asked = lost.asked /\ lost'.carried = lost.carried
             /\ lost'.outdated = lost.outdated /\ lost'.fence = lost.fence
  <2>1. <<wr[w].row, wr[w].key>> \in Rows \X Nat
    BY FieldTypes
  <2> QED
    BY <1>0, <1>1, <2>1 DEF WrWithdrawFails, LossRec
<1>2. ASSUME NEW c \in Changers, PwWrite(c)
      PROVE  /\ lost' \in LossRec /\ lost'.rows = lost.rows /\ lost'.asked = lost.asked
             /\ lost'.outdated = lost.outdated /\ lost'.fence = lost.fence
             /\ lost'.carried = IF user'.pending.key = user.pending.key THEN lost.carried
                                ELSE lost.carried \cup {user.pending.key}
  <2>1. lost' = IF user'.pending.key = user.pending.key THEN lost
                ELSE [lost EXCEPT !.carried = @ \cup {user.pending.key}]
    BY <1>2 DEF PwWrite
  <2> QED
    BY <1>0, <2>1 DEF LossRec
<1>3. ASSUME NEW r \in Rotators
      PROVE  /\ Abandoning(r) \in LossRec /\ Abandoning(r).rows = lost.rows
             /\ Abandoning(r).carried = lost.carried
             /\ Abandoning(r).outdated = lost.outdated /\ Abandoning(r).fence = lost.fence
             /\ Abandoning(r).asked = IF rot[r].mode = "discard" /\ user.pending # NoWrapper
                                      THEN lost.asked \cup {user.pending.key} ELSE lost.asked
  BY <1>0 DEF Abandoning, LossRec
<1>4. ASSUME NEW r \in Rotators, RotFence(r)
      PROVE  /\ lost' \in LossRec /\ lost'.rows = lost.rows /\ lost'.fence = lost.fence
             /\ lost'.carried = lost.carried /\ lost'.asked = Abandoning(r).asked
             /\ lost'.outdated = IF rot[r].mode # "reseal" /\ rot[r].new.cred # user.cred
                                 THEN lost.outdated \cup {rot[r].new.key} ELSE lost.outdated
  <2>1. rot[r].new.key \in Nat
    BY FieldTypes DEF Wrappers
  <2>2. lost' = [Abandoning(r) EXCEPT
           !.outdated = IF rot[r].mode # "reseal" /\ rot[r].new.cred # user.cred
                        THEN @ \cup {rot[r].new.key} ELSE @]
    BY <1>4 DEF RotFence
  <2> QED
    BY <1>0, <1>3, <2>1, <2>2 DEF LossRec
<1>5. ASSUME LoginLower
      PROVE  /\ lost' \in LossRec /\ lost'.rows = lost.rows /\ lost'.asked = lost.asked
             /\ lost'.carried = lost.carried /\ lost'.outdated = lost.outdated
             /\ ~lost'.fence => ~lost.fence /\ \A r \in Rotators : ~Fenced(r)
  <2>1. lost' = [lost EXCEPT !.fence = lost.fence \/ \E r \in Rotators : Fenced(r)]
    BY <1>5 DEF LoginLower
  <2>2. lost.fence \in BOOLEAN
    BY <1>0 DEF LossRec
  <2>3. (lost.fence \/ \E r \in Rotators : Fenced(r)) \in BOOLEAN
    BY <2>2
  <2> QED
    BY <1>0, <2>1, <2>3 DEF LossRec
<1> QED
  BY <1>1, <1>2, <1>3, <1>4, <1>5

\* What a move of a rotation changes.
LEMMA GotoMoves ==
    ASSUME TypeOK, NEW r \in Rotators, NEW pc \in RotPC, RotGoto(r, pc)
    PROVE  /\ rot'[r].pc = pc /\ \A q \in Rotators \ {r} : rot'[q] = rot[q]
           /\ pc \notin {"lower", "release"} =>
                rot'[r].mode = rot[r].mode /\ rot'[r].new = rot[r].new
<1>1. rot[r] \in RotRec /\ IdleRot \in RotRec
  BY FieldTypes, IdleTypes
<1>2. rot'[r] = IF pc \in {"lower", "release"}
                THEN [IdleRot EXCEPT !.pc = pc] ELSE [rot[r] EXCEPT !.pc = pc]
  BY DEF RotGoto, TypeOK
<1>3. \A q \in Rotators \ {r} : rot'[q] = rot[q]
  BY DEF RotGoto, TypeOK
<1> QED
  BY <1>1, <1>2, <1>3 DEF RotRec

\* A rotation that holds the lock, or that stays outside it, disturbs nobody
\* else's exclusion.
LEMMA RotatorExcludes ==
    ASSUME Exclusion, NEW r \in Rotators,
           \A q \in Rotators \ {r} : rot'[q] = rot[q],
           hold' = hold, pw' = pw, lock' = lock, lost'.fence = lost.fence,
           rot'[r].pc \notin {"idle", "held", "read", "lock"} => lock = r,
           lock = r \/ user' = user,
           rot'[r].pc \in {"cover", "write", "restore", "txn", "commit"} /\ ~lost.fence => user'.fence,
           rot'[r].pc = "undo" /\ ~lost.fence =>
             user'.fence \/ rot'[r].mode = "reseal" \/ user'.wrapper = rot'[r].new
    PROVE  Exclusion'
<1>1. LockNamesHolder'
  BY DEF Exclusion, LockNamesHolder
<1>2. ASSUME ~lost.fence, NEW q \in Rotators \ {r}
      PROVE  /\ rot[q].pc \in {"cover", "write", "restore", "txn", "commit"} => user'.fence
             /\ rot[q].pc = "undo" =>
                  user'.fence \/ rot[q].mode = "reseal" \/ user'.wrapper = rot[q].new
  BY <1>2 DEF Exclusion, LockNamesHolder, FenceCoversRotation
<1>3. ~lost.fence => FenceCoversRotation'
  BY <1>2 DEF FenceCoversRotation
<1> QED
  BY <1>1, <1>3 DEF Exclusion

\* A rewritten row, and the account a rotation commits, keep their types.
LEMMA WrittenTypes ==
    ASSUME TypeOK
    PROVE  /\ \A x \in Rows, k \in Nat : Sealed(x, k) \in RowRec
           /\ \A r \in Rotators, x \in Rows : Resealed(r, x) \in RowRec
           /\ \A r \in Rotators, b \in BOOLEAN : Committed(r, b) \in UserRec
<1>1. ASSUME NEW x \in Rows, NEW k \in Nat PROVE Sealed(x, k) \in RowRec
  BY DEF TypeOK, Sealed, RowRec
<1>2. ASSUME NEW r \in Rotators, NEW x \in Rows PROVE Resealed(r, x) \in RowRec
  <2>1. rot[r].new.key \in Nat /\ rot[r].seen[x] \in RowRec /\ row[x] \in RowRec
    BY DEF TypeOK, RotRec, Wrappers
  <2> QED
    BY <2>1 DEF Resealed, RowRec
<1>3. ASSUME NEW r \in Rotators, NEW b \in BOOLEAN PROVE Committed(r, b) \in UserRec
  <2>1. rot[r].new \in Wrappers
    BY DEF TypeOK, RotRec
  <2>2. [user EXCEPT !.fence = b] \in UserRec
    BY DEF TypeOK, UserRec
  <2>3. [user EXCEPT !.wrapper = rot[r].new, !.ver = @ + 1, !.pending = NoWrapper, !.fence = b]
        \in UserRec
    <3>1. user.ver + 1 \in Nat /\ NoWrapper \in Wrappers
      BY FieldTypes, IdleTypes
    <3>2. user \in UserRec
      BY DEF TypeOK
    <3> QED
      BY <2>1, <3>1, <3>2 DEF UserRec
  <2> QED
    BY <2>2, <2>3 DEF Committed
<1> QED
  BY <1>1, <1>2, <1>3

\* Every step of createItem, updateItem, createFolder and updateFolder preserves types and exclusion.
LEMMA WriterPreserves ==
    ASSUME ExclusionInv, NEW w \in Writers, WrStep(w)
    PROVE  ExclusionInv'
<1>0. TypeOK /\ Exclusion
  BY DEF ExclusionInv, Exclusion
<1> USE <1>0, RotationAssumption, IdleTypes
<1>1. CASE WrHold(w)
  <2>1. wr' \in [Writers -> WrRec]
    <3>1. PICK x \in Items : wr' = [wr EXCEPT ![w] =
            [pc |-> "fence", row |-> x, key |-> user.wrapper.key, ver |-> user.ver, v |-> 0]]
      BY <1>1 DEF WrHold
    <3>2. [pc |-> "fence", row |-> x, key |-> user.wrapper.key, ver |-> user.ver, v |-> 0] \in WrRec
      BY FieldTypes DEF WrRec, WrPC, Rows
    <3> QED
      BY <3>1, <3>2 DEF TypeOK
  <2>5. TypeOK'
    BY <1>1, <2>1 DEF WrHold, TypeOK
  <2>6. Exclusion'
    BY <1>1 DEF WrHold, WrGoto, Exclusion, LockNamesHolder, FenceCoversRotation, TypeOK, WrRec, IdleWr
  <2> QED
    BY <2>5, <2>6 DEF ExclusionInv, Exclusion
<1>2. CASE WrFence(w)
  <2>1. wr' \in [Writers -> WrRec]
    BY <1>2, GotoTypes, FieldTypes DEF WrFence, TypeOK, WrRec, WrPC
  <2>5. TypeOK'
    BY <1>2, <2>1 DEF WrFence, TypeOK
  <2>6. Exclusion'
    BY <1>2 DEF WrFence, WrGoto, Exclusion, LockNamesHolder, FenceCoversRotation, TypeOK, WrRec, IdleWr
  <2> QED
    BY <2>5, <2>6 DEF ExclusionInv, Exclusion
<1>3. CASE WrVersion(w)
  <2>1. wr' \in [Writers -> WrRec]
    BY <1>3, GotoTypes, FieldTypes DEF WrVersion, TypeOK, WrRec, WrPC
  <2>5. TypeOK'
    BY <1>3, <2>1 DEF WrVersion, TypeOK
  <2>6. Exclusion'
    BY <1>3 DEF WrVersion, WrGoto, Exclusion, LockNamesHolder, FenceCoversRotation, TypeOK, WrRec, IdleWr
  <2> QED
    BY <2>5, <2>6 DEF ExclusionInv, Exclusion
<1>4. CASE WrInsert(w)
  <2>1. wr' \in [Writers -> WrRec]
    BY <1>4, GotoTypes, FieldTypes DEF WrInsert, TypeOK, WrRec, WrPC
  <2>2. row' \in [Rows -> RowRec]
    <3>1. Sealed(wr[w].row, wr[w].key) \in RowRec
      BY FieldTypes, WrittenTypes
    <3> QED
      BY <1>4, <3>1 DEF WrInsert, TypeOK
  <2>5. TypeOK'
    BY <1>4, <2>1, <2>2 DEF WrInsert, TypeOK
  <2>6. Exclusion'
    BY <1>4 DEF WrInsert, WrGoto, Exclusion, LockNamesHolder, FenceCoversRotation, TypeOK, WrRec, IdleWr
  <2> QED
    BY <2>5, <2>6 DEF ExclusionInv, Exclusion
<1>5. CASE WrConfirm(w)
  <2>1. wr' \in [Writers -> WrRec]
    BY <1>5, GotoTypes, FieldTypes DEF WrConfirm, TypeOK, WrRec, WrPC
  <2>5. TypeOK'
    BY <1>5, <2>1 DEF WrConfirm, TypeOK
  <2>6. Exclusion'
    BY <1>5 DEF WrConfirm, WrGoto, Exclusion, LockNamesHolder, FenceCoversRotation, TypeOK, WrRec, IdleWr
  <2> QED
    BY <2>5, <2>6 DEF ExclusionInv, Exclusion
<1>6. CASE WrWithdraw(w)
  <2>1. wr' \in [Writers -> WrRec]
    BY <1>6, GotoTypes, FieldTypes DEF WrWithdraw, TypeOK, WrRec, WrPC
  <2>2. row' \in [Rows -> RowRec]
    BY <1>6, FieldTypes DEF WrWithdraw, TypeOK, RowRec
  <2>5. TypeOK'
    BY <1>6, <2>1, <2>2 DEF WrWithdraw, TypeOK
  <2>6. Exclusion'
    BY <1>6 DEF WrWithdraw, WrGoto, Exclusion, LockNamesHolder, FenceCoversRotation, TypeOK, WrRec, IdleWr
  <2> QED
    BY <2>5, <2>6 DEF ExclusionInv, Exclusion
<1>10. CASE WrWithdrawFails(w)
  <2>1. wr' \in [Writers -> WrRec]
    BY <1>10 DEF WrWithdrawFails, TypeOK
  <2>2. lost' \in LossRec /\ lost'.fence = lost.fence
    BY <1>10, LossMoves
  <2>5. TypeOK'
    BY <1>10, <2>1, <2>2 DEF WrWithdrawFails, TypeOK
  <2>6. Exclusion'
    BY <1>10, <2>2 DEF WrWithdrawFails, Exclusion, LockNamesHolder, FenceCoversRotation
  <2> QED
    BY <2>5, <2>6 DEF ExclusionInv, Exclusion
<1>7. CASE WrMeasure(w)
  <2>1. wr' \in [Writers -> WrRec]
    <3>1. row[wr[w].row].v \in Nat
      BY FieldTypes
    <3>2. [wr[w] EXCEPT !.pc = "recheck", !.v = row[wr[w].row].v] \in WrRec
      BY <3>1, FieldTypes DEF WrRec, WrPC
    <3> QED
      BY <1>7, <3>2 DEF WrMeasure, TypeOK
  <2>5. TypeOK'
    BY <1>7, <2>1 DEF WrMeasure, TypeOK
  <2>6. Exclusion'
    BY <1>7 DEF WrMeasure, WrGoto, Exclusion, LockNamesHolder, FenceCoversRotation, TypeOK, WrRec, IdleWr
  <2> QED
    BY <2>5, <2>6 DEF ExclusionInv, Exclusion
<1>8. CASE WrRecheck(w)
  <2>1. wr' \in [Writers -> WrRec]
    BY <1>8, GotoTypes, FieldTypes DEF WrRecheck, TypeOK, WrRec, WrPC
  <2>5. TypeOK'
    BY <1>8, <2>1 DEF WrRecheck, TypeOK
  <2>6. Exclusion'
    BY <1>8 DEF WrRecheck, WrGoto, Exclusion, LockNamesHolder, FenceCoversRotation, TypeOK, WrRec, IdleWr
  <2> QED
    BY <2>5, <2>6 DEF ExclusionInv, Exclusion
<1>9. CASE WrWrite(w)
  <2>1. wr' \in [Writers -> WrRec]
    BY <1>9, GotoTypes, FieldTypes DEF WrWrite, TypeOK, WrRec, WrPC
  <2>2. row' \in [Rows -> RowRec]
    <3>1. Sealed(wr[w].row, wr[w].key) \in RowRec
      BY FieldTypes, WrittenTypes
    <3> QED
      BY <1>9, <3>1 DEF WrWrite, TypeOK
  <2>5. TypeOK'
    BY <1>9, <2>1, <2>2 DEF WrWrite, TypeOK
  <2>6. Exclusion'
    BY <1>9 DEF WrWrite, WrGoto, Exclusion, LockNamesHolder, FenceCoversRotation, TypeOK, WrRec, IdleWr
  <2> QED
    BY <2>5, <2>6 DEF ExclusionInv, Exclusion
<1> QED
  BY <1>1, <1>2, <1>3, <1>4, <1>5, <1>6, <1>7, <1>8, <1>9, <1>10 DEF WrStep

\* Every step of an import, a restore or a document completion preserves types and exclusion.
LEMMA HolderPreserves ==
    ASSUME ExclusionInv, NEW h \in Holders, HoldStep(h)
    PROVE  ExclusionInv'
<1>0. TypeOK /\ Exclusion
  BY DEF ExclusionInv, Exclusion
<1> USE <1>0, RotationAssumption, IdleTypes
<1>1. CASE HoldBegin(h)
  <2>1. hold' \in [Holders -> HoldRec]
    BY <1>1, GotoTypes, FieldTypes DEF HoldBegin, TypeOK, HoldRec, HoldPC
  <2>5. TypeOK'
    BY <1>1, <2>1 DEF HoldBegin, TypeOK
  <2>6. Exclusion'
    BY <1>1 DEF HoldBegin, HoldGoto, Exclusion, LockNamesHolder, FenceCoversRotation, TypeOK, HoldRec, IdleHold
  <2> QED
    BY <2>5, <2>6 DEF ExclusionInv, Exclusion
<1>2. CASE HoldFenceFirst(h)
  <2>1. hold' \in [Holders -> HoldRec]
    BY <1>2, GotoTypes, FieldTypes DEF HoldFenceFirst, TypeOK, HoldRec, HoldPC
  <2>5. TypeOK'
    BY <1>2, <2>1 DEF HoldFenceFirst, TypeOK
  <2>6. Exclusion'
    BY <1>2 DEF HoldFenceFirst, HoldGoto, Exclusion, LockNamesHolder, FenceCoversRotation, TypeOK, HoldRec, IdleHold
  <2> QED
    BY <2>5, <2>6 DEF ExclusionInv, Exclusion
<1>3. CASE HoldLock(h)
  <2>1. hold' \in [Holders -> HoldRec]
    BY <1>3, GotoTypes, FieldTypes DEF HoldLock, TypeOK, HoldRec, HoldPC
  <2>5. TypeOK'
    BY <1>3, <2>1 DEF HoldLock, TypeOK
  <2>6. Exclusion'
    <3>1. \A g \in Holders \ {h} : hold'[g] = hold[g]
      BY <1>3 DEF HoldLock, HoldGoto, TypeOK
    <3>2. CASE lock = Free
      BY <1>3, <3>1, <3>2 DEF HoldLock, Exclusion, LockNamesHolder, FenceCoversRotation
    <3>3. CASE lock # Free
      <4>1. hold'[h].pc = "idle" /\ lock' = lock
        BY <1>3, <3>3 DEF HoldLock, TypeOK, IdleHold
      <4> QED
        BY <1>3, <3>1, <4>1 DEF HoldLock, Exclusion, LockNamesHolder, FenceCoversRotation
    <3> QED
      BY <3>2, <3>3
  <2> QED
    BY <2>5, <2>6 DEF ExclusionInv, Exclusion
<1>4. CASE HoldFence(h)
  <2>1. hold' \in [Holders -> HoldRec]
    BY <1>4, GotoTypes, FieldTypes DEF HoldFence, TypeOK, HoldRec, HoldPC
  <2>5. TypeOK'
    BY <1>4, <2>1 DEF HoldFence, TypeOK
  <2>6. Exclusion'
    BY <1>4 DEF HoldFence, HoldGoto, Exclusion, LockNamesHolder, FenceCoversRotation, TypeOK, HoldRec, IdleHold
  <2> QED
    BY <2>5, <2>6 DEF ExclusionInv, Exclusion
<1>5. CASE HoldVersion(h)
  <2>1. hold' \in [Holders -> HoldRec]
    BY <1>5, GotoTypes, FieldTypes DEF HoldVersion, TypeOK, HoldRec, HoldPC
  <2>5. TypeOK'
    BY <1>5, <2>1 DEF HoldVersion, TypeOK
  <2>6. Exclusion'
    BY <1>5 DEF HoldVersion, HoldGoto, Exclusion, LockNamesHolder, FenceCoversRotation, TypeOK, HoldRec, IdleHold
  <2> QED
    BY <2>5, <2>6 DEF ExclusionInv, Exclusion
<1>6. CASE HoldWrite(h)
  <2>1. hold' \in [Holders -> HoldRec]
    BY <1>6, GotoTypes, FieldTypes DEF HoldWrite, TypeOK, HoldRec, HoldPC
  <2>2. row' \in [Rows -> RowRec]
    <3>1. PICK x \in Rows : row' = [row EXCEPT ![x] = Sealed(x, hold[h].key)]
      BY <1>6 DEF HoldWrite
    <3>2. Sealed(x, hold[h].key) \in RowRec
      BY FieldTypes, WrittenTypes
    <3> QED
      BY <3>1, <3>2 DEF TypeOK
  <2>5. TypeOK'
    BY <1>6, <2>1, <2>2 DEF HoldWrite, TypeOK
  <2>6. Exclusion'
    BY <1>6 DEF HoldWrite, HoldGoto, Exclusion, LockNamesHolder, FenceCoversRotation, TypeOK, HoldRec, IdleHold
  <2> QED
    BY <2>5, <2>6 DEF ExclusionInv, Exclusion
<1>7. CASE HoldRelease(h)
  <2>1. hold' \in [Holders -> HoldRec]
    BY <1>7, GotoTypes, FieldTypes DEF HoldRelease, TypeOK, HoldRec, HoldPC
  <2>5. TypeOK'
    BY <1>7, <2>1 DEF HoldRelease, TypeOK
  <2>6. Exclusion'
    BY <1>7 DEF HoldRelease, HoldGoto, Exclusion, LockNamesHolder, FenceCoversRotation, TypeOK, HoldRec, IdleHold
  <2> QED
    BY <2>5, <2>6 DEF ExclusionInv, Exclusion
<1>8. CASE CrashHold(h)
  <2>1. hold' \in [Holders -> HoldRec]
    BY <1>8, GotoTypes, FieldTypes DEF CrashHold, TypeOK, HoldRec, HoldPC
  <2>5. TypeOK'
    BY <1>8, <2>1 DEF CrashHold, TypeOK, Orphaned
  <2>6. Exclusion'
    BY <1>8 DEF CrashHold, HoldGoto, Exclusion, LockNamesHolder, FenceCoversRotation, TypeOK, HoldRec, IdleHold, Orphaned
  <2> QED
    BY <2>5, <2>6 DEF ExclusionInv, Exclusion
<1> QED
  BY <1>1, <1>2, <1>3, <1>4, <1>5, <1>6, <1>7, <1>8 DEF HoldStep

\* Every step of changePassword preserves types and exclusion.
LEMMA ChangerPreserves ==
    ASSUME ExclusionInv, NEW c \in Changers, PwStep(c)
    PROVE  ExclusionInv'
<1>0. TypeOK /\ Exclusion
  BY DEF ExclusionInv, Exclusion
<1> USE <1>0, RotationAssumption, IdleTypes
<1>1. CASE PwHold(c)
  <2>1. pw' \in [Changers -> PwRec]
    BY <1>1, GotoTypes, FieldTypes DEF PwHold, TypeOK, PwRec, PwPC
  <2>5. TypeOK'
    BY <1>1, <2>1 DEF PwHold, TypeOK
  <2>6. Exclusion'
    BY <1>1 DEF PwHold, PwGoto, Exclusion, LockNamesHolder, FenceCoversRotation, TypeOK, PwRec, IdlePw
  <2> QED
    BY <2>5, <2>6 DEF ExclusionInv, Exclusion
<1>2. CASE PwLock(c)
  <2>1. pw' \in [Changers -> PwRec]
    BY <1>2, GotoTypes, FieldTypes DEF PwLock, TypeOK, PwRec, PwPC
  <2>5. TypeOK'
    BY <1>2, <2>1 DEF PwLock, TypeOK
  <2>6. Exclusion'
    BY <1>2 DEF PwLock, PwGoto, Exclusion, LockNamesHolder, FenceCoversRotation, TypeOK, PwRec, IdlePw
  <2> QED
    BY <2>5, <2>6 DEF ExclusionInv, Exclusion
<1>3. CASE PwGuard(c)
  <2>1. pw' \in [Changers -> PwRec]
    BY <1>3, GotoTypes, FieldTypes DEF PwGuard, TypeOK, PwRec, PwPC
  <2>5. TypeOK'
    BY <1>3, <2>1 DEF PwGuard, TypeOK
  <2>6. Exclusion'
    BY <1>3 DEF PwGuard, PwGoto, Exclusion, LockNamesHolder, FenceCoversRotation, TypeOK, PwRec, IdlePw
  <2> QED
    BY <2>5, <2>6 DEF ExclusionInv, Exclusion
<1>4. CASE PwWrite(c)
  <2>1. pw' \in [Changers -> PwRec]
    BY <1>4, GotoTypes, FieldTypes DEF PwWrite, TypeOK, PwRec, PwPC
  <2>2. user' \in UserRec
    <3> DEFINE cred == user.cred + 1
               pending == IF user.pending = NoWrapper THEN user.pending
                          ELSE [key |-> pw[c].pending, cred |-> cred]
    <3>1. cred \in Nat
      BY FieldTypes
    <3> HIDE DEF cred
    <3>2. [key |-> pw[c].key, cred |-> cred] \in Wrappers
      BY <3>1, FieldTypes DEF Wrappers
    <3>3. [key |-> pw[c].pending, cred |-> cred] \in Wrappers
      BY <3>1, FieldTypes DEF Wrappers
    <3>4. pending \in Wrappers
      BY <3>3, FieldTypes
    <3> HIDE DEF pending
    <3>5. [user EXCEPT !.cred = cred, !.wrapper = [key |-> pw[c].key, cred |-> cred],
                       !.pending = pending] \in UserRec
      BY <3>1, <3>2, <3>4 DEF TypeOK, UserRec
    <3>6. user' = user \/ user' = [user EXCEPT !.cred = cred,
                !.wrapper = [key |-> pw[c].key, cred |-> cred], !.pending = pending]
      BY <1>4 DEF PwWrite, TypeOK, UserRec, cred, pending
    <3> QED
      BY <3>5, <3>6 DEF TypeOK
  <2>3. lost' \in LossRec /\ lost'.fence = lost.fence
    BY <1>4, LossMoves
  <2>4. user'.fence = user.fence
    BY <1>4 DEF PwWrite, TypeOK, UserRec
  <2>5. TypeOK'
    BY <1>4, <2>1, <2>2, <2>3 DEF PwWrite, TypeOK
  <2>6. Exclusion'
    BY <1>4, <2>3, SMTT(30) DEF PwWrite, PwGoto, Exclusion, LockNamesHolder, FenceCoversRotation, TypeOK, PwRec, IdlePw, UserRec
  <2> QED
    BY <2>5, <2>6 DEF ExclusionInv, Exclusion
<1>5. CASE PwRelease(c)
  <2>1. pw' \in [Changers -> PwRec]
    BY <1>5, GotoTypes, FieldTypes DEF PwRelease, TypeOK, PwRec, PwPC
  <2>5. TypeOK'
    BY <1>5, <2>1 DEF PwRelease, TypeOK
  <2>6. Exclusion'
    BY <1>5 DEF PwRelease, PwGoto, Exclusion, LockNamesHolder, FenceCoversRotation, TypeOK, PwRec, IdlePw
  <2> QED
    BY <2>5, <2>6 DEF ExclusionInv, Exclusion
<1>6. CASE CrashPw(c)
  <2>1. pw' \in [Changers -> PwRec]
    BY <1>6, GotoTypes, FieldTypes DEF CrashPw, TypeOK, PwRec, PwPC
  <2>5. TypeOK'
    BY <1>6, <2>1 DEF CrashPw, TypeOK, Orphaned
  <2>6. Exclusion'
    BY <1>6 DEF CrashPw, PwGoto, Exclusion, LockNamesHolder, FenceCoversRotation, TypeOK, PwRec, IdlePw, Orphaned
  <2> QED
    BY <2>5, <2>6 DEF ExclusionInv, Exclusion
<1> QED
  BY <1>1, <1>2, <1>3, <1>4, <1>5, <1>6 DEF PwStep

\* Every step of bulkReEncrypt and of its page preserves types and exclusion.
LEMMA RotatorPreserves ==
    ASSUME ExclusionInv, NEW r \in Rotators, RotStep(r)
    PROVE  ExclusionInv'
<1>0. TypeOK /\ Exclusion
  BY DEF ExclusionInv, Exclusion
<1> USE <1>0, RotationAssumption, IdleTypes
<1>1. CASE RotHold(r)
  <2>1. rot' \in [Rotators -> RotRec]
    <3>1. PICK m \in Modes : rot' = [rot EXCEPT ![r] = [IdleRot EXCEPT
                !.pc = "held", !.mode = m, !.held = user.wrapper.key, !.ver = user.ver,
                !.cred = user.cred,
                !.new = CASE m = "reseal" -> user.wrapper
                          [] m = "finish" -> user.pending
                          [] OTHER -> [key |-> nextKey, cred |-> user.cred]]]
      BY <1>1 DEF RotHold
    <3>2. [key |-> nextKey, cred |-> user.cred] \in Wrappers
      BY FieldTypes DEF TypeOK, Wrappers
    <3> DEFINE new == CASE m = "reseal" -> user.wrapper
                        [] m = "finish" -> user.pending
                        [] OTHER -> [key |-> nextKey, cred |-> user.cred]
    <3>3. new \in Wrappers
      BY <3>2, FieldTypes
    <3> HIDE DEF new
    <3>4. m \in {"fresh", "finish", "discard", "reseal"}
      BY RotationAssumption
    <3>5. [IdleRot EXCEPT !.pc = "held", !.mode = m, !.held = user.wrapper.key, !.ver = user.ver,
                          !.cred = user.cred, !.new = new] \in RotRec
      BY <3>3, <3>4, FieldTypes, IdleTypes DEF RotRec, RotPC
    <3> QED
      BY <3>1, <3>5 DEF TypeOK, new
  <2>5. TypeOK'
    BY <1>1, <2>1 DEF RotHold, TypeOK
  <2>6. Exclusion'
    BY <1>1 DEF RotHold, RotGoto, Exclusion, LockNamesHolder, FenceCoversRotation, TypeOK, RotRec, IdleRot, UserRec
  <2> QED
    BY <2>5, <2>6 DEF ExclusionInv, Exclusion
<1>2. CASE RotEnumerate(r)
  <2>1. rot' \in [Rotators -> RotRec]
    <3> DEFINE read == [x \in Rows |-> IF Live(x) THEN row[x] ELSE NoRow]
    <3>1. read \in [Rows -> RowRec]
      BY FieldTypes, IdleTypes
    <3> HIDE DEF read
    <3>2. [rot[r] EXCEPT !.pc = "read", !.seen = read] \in RotRec
      BY <3>1, FieldTypes, ZenonT(40) DEF RotRec, RotPC
    <3>3. rot' = [rot EXCEPT ![r] = [rot[r] EXCEPT !.pc = "read", !.seen = read]]
      BY <1>2 DEF RotEnumerate, TypeOK, read
    <3> QED
      BY <3>2, <3>3 DEF TypeOK
  <2>5. TypeOK'
    BY <1>2, <2>1 DEF RotEnumerate, TypeOK
  <2>6. Exclusion'
    BY <1>2 DEF RotEnumerate, RotGoto, Exclusion, LockNamesHolder, FenceCoversRotation, TypeOK, RotRec, IdleRot, UserRec
  <2> QED
    BY <2>5, <2>6 DEF ExclusionInv, Exclusion
<1>3. CASE RotAuth(r)
  <2>1. rot' \in [Rotators -> RotRec]
    <3>1. [rot[r] EXCEPT !.pc = "lock"] \in RotRec
      BY FieldTypes DEF RotRec, RotPC
    <3> QED
      BY <1>3, <3>1, IdleTypes DEF RotAuth, TypeOK
  <2>5. TypeOK'
    BY <1>3, <2>1 DEF RotAuth, TypeOK
  <2>6. Exclusion'
    BY <1>3 DEF RotAuth, RotGoto, Exclusion, LockNamesHolder, FenceCoversRotation, TypeOK, RotRec, IdleRot, UserRec
  <2> QED
    BY <2>5, <2>6 DEF ExclusionInv, Exclusion
<1>4. CASE RotLock(r)
  <2>1. rot' \in [Rotators -> RotRec]
    BY <1>4, GotoTypes, IdleTypes DEF RotLock, TypeOK, RotPC
  <2>5. TypeOK'
    BY <1>4, <2>1 DEF RotLock, TypeOK
  <2>6. Exclusion'
    <3>1. CASE lock = Free
      <4>1. RotGoto(r, "guard") /\ lock' = r
        BY <1>4, <3>1 DEF RotLock
      <4>2. rot'[r].pc = "guard" /\ \A q \in Rotators \ {r} : rot'[q] = rot[q]
        BY <4>1, GotoMoves DEF RotPC
      <4> QED
        BY <1>4, <3>1, <4>1, <4>2 DEF RotLock, Exclusion, LockNamesHolder, FenceCoversRotation
    <3>2. CASE lock # Free
      <4>1. rot'[r].pc = "idle" /\ \A q \in Rotators \ {r} : rot'[q] = rot[q]
        BY <1>4, <3>2 DEF RotLock, TypeOK, IdleRot
      <4> QED
        BY <1>4, <3>2, <4>1, RotatorExcludes DEF RotLock
    <3> QED
      BY <3>1, <3>2
  <2> QED
    BY <2>5, <2>6 DEF ExclusionInv, Exclusion
<1>5. CASE RotGuard(r)
  <2>0. PICK pc \in {"raise", "snap", "release"} : RotGoto(r, pc)
    BY <1>5 DEF RotGuard
  <2>1. rot' \in [Rotators -> RotRec]
    BY <2>0, GotoTypes DEF RotPC
  <2>5. TypeOK'
    BY <1>5, <2>1 DEF RotGuard, TypeOK
  <2>6. Exclusion'
    BY <1>5 DEF RotGuard, RotGoto, Exclusion, LockNamesHolder, FenceCoversRotation, TypeOK, RotRec, IdleRot, UserRec
  <2> QED
    BY <2>5, <2>6 DEF ExclusionInv, Exclusion
<1>6. CASE RotSnapshot(r)
  <2>1. rot' \in [Rotators -> RotRec]
    <3>1. CASE RotGoto(r, "release")
      BY <3>1, GotoTypes DEF RotPC
    <3>2. CASE rot' = [rot EXCEPT ![r].pc = "fence", ![r].snap = row]
      <4>1. row \in [Rows -> RowRec]
        BY DEF TypeOK
      <4>2. [rot[r] EXCEPT !.pc = "fence", !.snap = row] \in RotRec
        BY <4>1, FieldTypes, ZenonT(40) DEF RotRec, RotPC
      <4> QED
        BY <3>2, <4>2 DEF TypeOK
    <3> QED
      BY <1>6, <3>1, <3>2 DEF RotSnapshot
  <2>5. TypeOK'
    BY <1>6, <2>1 DEF RotSnapshot, TypeOK
  <2>6. Exclusion'
    <3>1. rot'[r].pc \in {"fence", "release"} /\ \A q \in Rotators \ {r} : rot'[q] = rot[q]
      <4>1. CASE RotGoto(r, "release")
        BY <4>1, GotoMoves DEF RotPC
      <4>2. CASE rot' = [rot EXCEPT ![r].pc = "fence", ![r].snap = row]
        BY <4>2 DEF TypeOK, RotRec
      <4> QED
        BY <1>6, <4>1, <4>2 DEF RotSnapshot
    <3>2. lock = r
      BY <1>6 DEF RotSnapshot, Exclusion, LockNamesHolder
    <3> QED
      BY <1>6, <3>1, <3>2, RotatorExcludes DEF RotSnapshot
  <2> QED
    BY <2>5, <2>6 DEF ExclusionInv, Exclusion
<1>7. CASE RotFence(r)
  <2>1. rot' \in [Rotators -> RotRec]
    BY <1>7, GotoTypes, FieldTypes DEF RotFence, TypeOK, RotRec, RotPC
  <2>2. user' \in UserRec
    BY <1>7, FieldTypes DEF RotFence, TypeOK, UserRec
  <2>3. lost' \in LossRec /\ lost'.fence = lost.fence
    BY <1>7, LossMoves
  <2>5. TypeOK'
    BY <1>7, <2>1, <2>2, <2>3 DEF RotFence, TypeOK
  <2>6. Exclusion'
    BY <1>7, <2>3 DEF RotFence, RotGoto, Exclusion, LockNamesHolder, FenceCoversRotation, TypeOK, RotRec, IdleRot, UserRec
  <2> QED
    BY <2>5, <2>6 DEF ExclusionInv, Exclusion
<1>8. CASE RotCover(r)
  <2>1. rot' \in [Rotators -> RotRec]
    BY <1>8, GotoTypes, FieldTypes DEF RotCover, TypeOK, RotRec, RotPC
  <2>5. TypeOK'
    BY <1>8, <2>1 DEF RotCover, TypeOK
  <2>6. Exclusion'
    BY <1>8 DEF RotCover, RotGoto, Exclusion, LockNamesHolder, FenceCoversRotation, TypeOK, RotRec, IdleRot, UserRec
  <2> QED
    BY <2>5, <2>6 DEF ExclusionInv, Exclusion
<1>9. CASE RotWrite(r)
  <2>0. PICK x \in Rows :
          \/ /\ row' = [row EXCEPT ![x] = Resealed(r, x)]
             /\ rot' = [rot EXCEPT ![r].done[x] = Resealed(r, x).at]
          \/ row' = row /\ RotGoto(r, "undo")
          \/ row' = [row EXCEPT ![x] = Resealed(r, x)] /\ RotGoto(r, "undo")
    BY <1>9 DEF RotWrite, Turn, Pending, Payload
  <2>1. rot' \in [Rotators -> RotRec]
    <3>1. CASE RotGoto(r, "undo")
      BY <3>1, GotoTypes DEF RotPC
    <3>2. CASE rot' = [rot EXCEPT ![r].done[x] = Resealed(r, x).at]
      <4>1. Resealed(r, x).at \in Nat
        BY WrittenTypes DEF RowRec
      <4>2. [rot[r].done EXCEPT ![x] = Resealed(r, x).at] \in [Rows -> Nat]
        BY <4>1, FieldTypes
      <4>3. [rot[r] EXCEPT !.done = [rot[r].done EXCEPT ![x] = Resealed(r, x).at]] \in RotRec
        BY <4>2, FieldTypes DEF RotRec
      <4>4. rot' = [rot EXCEPT ![r] = [rot[r] EXCEPT
                      !.done = [rot[r].done EXCEPT ![x] = Resealed(r, x).at]]]
        BY <3>2
      <4> QED
        BY <4>3, <4>4 DEF TypeOK
    <3> QED
      BY <2>0, <3>1, <3>2
  <2>2. row' \in [Rows -> RowRec]
    BY <2>0, WrittenTypes DEF TypeOK
  <2>5. TypeOK'
    BY <1>9, <2>1, <2>2 DEF RotWrite, TypeOK
  <2>6. Exclusion'
    <3>1. lock = r /\ (~lost.fence => user.fence)
      BY <1>9 DEF RotWrite, Exclusion, LockNamesHolder, FenceCoversRotation
    <3>2. CASE RotGoto(r, "undo")
      BY <1>9, <3>1, <3>2, GotoMoves, RotatorExcludes DEF RotWrite, RotPC
    <3>3. CASE rot' = [rot EXCEPT ![r].done[x] = Resealed(r, x).at]
      <4>1. rot'[r].pc = "write" /\ \A q \in Rotators \ {r} : rot'[q] = rot[q]
        BY <1>9, <3>3 DEF RotWrite, TypeOK, RotRec
      <4> QED
        BY <1>9, <3>1, <4>1, RotatorExcludes DEF RotWrite
    <3> QED
      BY <2>0, <3>2, <3>3
  <2> QED
    BY <2>5, <2>6 DEF ExclusionInv, Exclusion
<1>10. CASE RotKeyWrite(r)
  <2>1. rot' \in [Rotators -> RotRec]
    BY <1>10, GotoTypes, FieldTypes DEF RotKeyWrite, TypeOK, RotRec, RotPC
  <2>2. user' \in UserRec
    BY <1>10, WrittenTypes DEF RotKeyWrite, TypeOK
  <2>5. TypeOK'
    BY <1>10, <2>1, <2>2 DEF RotKeyWrite, TypeOK
  <2>6. Exclusion'
    <3>1. lock = r /\ (~lost.fence => user.fence)
      BY <1>10 DEF RotKeyWrite, Exclusion, LockNamesHolder, FenceCoversRotation
    <3>2. CASE RotGoto(r, "release")
      BY <1>10, <3>1, <3>2, GotoMoves, RotatorExcludes DEF RotKeyWrite, RotPC
    <3>3. CASE user' = user /\ RotGoto(r, "undo")
      BY <1>10, <3>1, <3>3, GotoMoves, RotatorExcludes DEF RotKeyWrite, RotPC
    <3>4. CASE user' = Committed(r, FALSE) /\ RotGoto(r, "undo")
      <4>1. /\ rot'[r].pc = "undo" /\ \A q \in Rotators \ {r} : rot'[q] = rot[q]
            /\ rot'[r].mode = rot[r].mode /\ rot'[r].new = rot[r].new
        BY <3>4, GotoMoves DEF RotPC
      <4>2. rot[r].mode = "reseal" \/ user'.wrapper = rot[r].new
        BY <3>4 DEF Committed, TypeOK, UserRec
      <4> QED
        BY <1>10, <3>1, <4>1, <4>2, RotatorExcludes DEF RotKeyWrite
    <3> QED
      BY <1>10, <3>2, <3>3, <3>4 DEF RotKeyWrite
  <2> QED
    BY <2>5, <2>6 DEF ExclusionInv, Exclusion
<1>11. CASE RotUndo(r)
  <2>1. rot' \in [Rotators -> RotRec]
    BY <1>11, GotoTypes, FieldTypes DEF RotUndo, TypeOK, RotRec, RotPC
  <2>5. TypeOK'
    BY <1>11, <2>1 DEF RotUndo, TypeOK
  <2>6. Exclusion'
    <3>1. lock = r
      BY <1>11 DEF RotUndo, Exclusion, LockNamesHolder
    <3>2. CASE RotGoto(r, "lower")
      BY <1>11, <3>1, <3>2, GotoMoves, RotatorExcludes DEF RotUndo, RotPC
    <3>3. CASE rot[r].mode # "reseal" /\ user.wrapper # rot[r].new /\ RotGoto(r, "restore")
      <4>1. ~lost.fence => user.fence
        BY <1>11, <3>3 DEF RotUndo, Exclusion, FenceCoversRotation
      <4> QED
        BY <1>11, <3>1, <3>3, <4>1, GotoMoves, RotatorExcludes DEF RotUndo, RotPC
    <3> QED
      BY <1>11, <3>2, <3>3 DEF RotUndo
  <2> QED
    BY <2>5, <2>6 DEF ExclusionInv, Exclusion
<1>12. CASE RotRestore(r)
  <2>0. PICK x \in Rows :
          /\ rot' = [rot EXCEPT ![r].done[x] = 0]
          /\ \/ row' = [row EXCEPT ![x] = [rot[r].snap[x] EXCEPT !.v = row[x].v + 1]]
             \/ row' = row
    BY <1>12 DEF RotRestore
  <2>1. rot' \in [Rotators -> RotRec]
    <3>1. [rot[r].done EXCEPT ![x] = 0] \in [Rows -> Nat]
      BY FieldTypes
    <3>2. [rot[r] EXCEPT !.done = [rot[r].done EXCEPT ![x] = 0]] \in RotRec
      BY <3>1, FieldTypes DEF RotRec
    <3>3. rot' = [rot EXCEPT ![r] = [rot[r] EXCEPT !.done = [rot[r].done EXCEPT ![x] = 0]]]
      BY <2>0
    <3> QED
      BY <3>2, <3>3 DEF TypeOK
  <2>2. row' \in [Rows -> RowRec]
    <3>1. rot[r].snap[x] \in RowRec /\ row[x].v \in Nat
      BY FieldTypes
    <3>2. [rot[r].snap[x] EXCEPT !.v = row[x].v + 1] \in RowRec
      BY <3>1 DEF RowRec
    <3> QED
      BY <2>0, <3>2 DEF TypeOK
  <2>5. TypeOK'
    BY <1>12, <2>1, <2>2 DEF RotRestore, TypeOK
  <2>6. Exclusion'
    BY <1>12 DEF RotRestore, RotGoto, Exclusion, LockNamesHolder, FenceCoversRotation, TypeOK, RotRec, IdleRot, UserRec
  <2> QED
    BY <2>5, <2>6 DEF ExclusionInv, Exclusion
<1>13. CASE RotRestored(r)
  <2>1. rot' \in [Rotators -> RotRec]
    BY <1>13, GotoTypes, FieldTypes DEF RotRestored, TypeOK, RotRec, RotPC
  <2>5. TypeOK'
    BY <1>13, <2>1 DEF RotRestored, TypeOK
  <2>6. Exclusion'
    BY <1>13 DEF RotRestored, RotGoto, Exclusion, LockNamesHolder, FenceCoversRotation, TypeOK, RotRec, IdleRot, UserRec
  <2> QED
    BY <2>5, <2>6 DEF ExclusionInv, Exclusion
<1>14. CASE RotRaise(r)
  <2>1. rot' \in [Rotators -> RotRec]
    BY <1>14, GotoTypes, FieldTypes DEF RotRaise, TypeOK, RotRec, RotPC
  <2>2. user' \in UserRec
    BY <1>14 DEF RotRaise, TypeOK, UserRec
  <2>5. TypeOK'
    BY <1>14, <2>1, <2>2 DEF RotRaise, TypeOK
  <2>6. Exclusion'
    BY <1>14 DEF RotRaise, RotGoto, Exclusion, LockNamesHolder, FenceCoversRotation, TypeOK, RotRec, IdleRot, UserRec
  <2> QED
    BY <2>5, <2>6 DEF ExclusionInv, Exclusion
<1>15. CASE RotTxnBegin(r)
  <2>1. rot' \in [Rotators -> RotRec]
    <3>1. row \in [Rows -> RowRec]
      BY DEF TypeOK
    <3>2. [rot[r] EXCEPT !.pc = "commit", !.snap = row] \in RotRec
      BY <3>1, FieldTypes, ZenonT(40) DEF RotRec, RotPC
    <3> QED
      BY <1>15, <3>2 DEF RotTxnBegin, TypeOK
  <2>5. TypeOK'
    BY <1>15, <2>1 DEF RotTxnBegin, TypeOK
  <2>6. Exclusion'
    BY <1>15 DEF RotTxnBegin, RotGoto, Exclusion, LockNamesHolder, FenceCoversRotation, TypeOK, RotRec, IdleRot, UserRec
  <2> QED
    BY <2>5, <2>6 DEF ExclusionInv, Exclusion
<1>16. CASE RotTxnCommit(r)
  <2>1. rot' \in [Rotators -> RotRec]
    BY <1>16, GotoTypes, FieldTypes DEF RotTxnCommit, TypeOK, RotRec, RotPC
  <2>2. row' \in [Rows -> RowRec]
    <3>1. [x \in Rows |-> IF x \in Payload(r) THEN Resealed(r, x) ELSE row[x]] \in [Rows -> RowRec]
      BY FieldTypes, WrittenTypes
    <3> QED
      BY <1>16, <3>1 DEF RotTxnCommit, TypeOK
  <2>3. user' \in UserRec
    BY <1>16, WrittenTypes, FieldTypes DEF RotTxnCommit, TypeOK
  <2>4. lost' \in LossRec /\ lost'.fence = lost.fence
    <3>1. lost' = lost \/ lost' = Abandoning(r)
      BY <1>16 DEF RotTxnCommit
    <3> QED
      BY <3>1, LossMoves DEF TypeOK
  <2>5. TypeOK'
    BY <1>16, <2>1, <2>2, <2>3, <2>4 DEF RotTxnCommit, TypeOK
  <2>6. Exclusion'
    <3>1. lock = r /\ (~lost.fence => user.fence)
      BY <1>16 DEF RotTxnCommit, Exclusion, LockNamesHolder, FenceCoversRotation
    <3>2. CASE RotGoto(r, "txn") /\ user' = user
      BY <1>16, <2>4, <3>1, <3>2, GotoMoves, RotatorExcludes DEF RotTxnCommit, RotPC
    <3>3. CASE RotGoto(r, "lower")
      BY <1>16, <2>4, <3>1, <3>3, GotoMoves, RotatorExcludes DEF RotTxnCommit, RotPC
    <3> QED
      BY <1>16, <3>2, <3>3 DEF RotTxnCommit
  <2> QED
    BY <2>5, <2>6 DEF ExclusionInv, Exclusion
<1>17. CASE RotLower(r)
  <2>1. rot' \in [Rotators -> RotRec]
    BY <1>17, GotoTypes, FieldTypes DEF RotLower, TypeOK, RotRec, RotPC
  <2>2. user' \in UserRec
    BY <1>17 DEF RotLower, TypeOK, UserRec
  <2>5. TypeOK'
    BY <1>17, <2>1, <2>2 DEF RotLower, TypeOK
  <2>6. Exclusion'
    BY <1>17, ZenonT(40) DEF RotLower, RotGoto, Exclusion, LockNamesHolder, FenceCoversRotation, TypeOK, RotRec, IdleRot, UserRec
  <2> QED
    BY <2>5, <2>6 DEF ExclusionInv, Exclusion
<1>18. CASE RotRelease(r)
  <2>1. rot' \in [Rotators -> RotRec]
    BY <1>18, GotoTypes, FieldTypes DEF RotRelease, TypeOK, RotRec, RotPC
  <2>5. TypeOK'
    BY <1>18, <2>1 DEF RotRelease, TypeOK
  <2>6. Exclusion'
    BY <1>18 DEF RotRelease, RotGoto, Exclusion, LockNamesHolder, FenceCoversRotation, TypeOK, RotRec, IdleRot, UserRec
  <2> QED
    BY <2>5, <2>6 DEF ExclusionInv, Exclusion
<1>19. CASE CrashRot(r)
  <2>1. rot' \in [Rotators -> RotRec]
    BY <1>19, GotoTypes, FieldTypes DEF CrashRot, TypeOK, RotRec, RotPC
  <2>5. TypeOK'
    BY <1>19, <2>1 DEF CrashRot, TypeOK, Orphaned
  <2>6. Exclusion'
    BY <1>19 DEF CrashRot, RotGoto, Exclusion, LockNamesHolder, FenceCoversRotation, TypeOK, RotRec, IdleRot, UserRec, Orphaned
  <2> QED
    BY <2>5, <2>6 DEF ExclusionInv, Exclusion
<1> QED
  BY <1>1, <1>2, <1>3, <1>4, <1>5, <1>6, <1>7, <1>8, <1>9, <1>10, <1>11, <1>12, <1>13, <1>14, <1>15, <1>16, <1>17, <1>18, <1>19
  DEF RotStep, RotSequential, RotTransactional

\* So do deletes, logins and the end of a dead holder's lease.
LEMMA RestPreserves ==
    ASSUME ExclusionInv,
           (\E x \in Rows : RowDelete(x)) \/ LoginDecide \/ LoginLower \/ LoginEnds \/ LockLapses
    PROVE  ExclusionInv'
<1>0. TypeOK /\ Exclusion
  BY DEF ExclusionInv, Exclusion
<1> USE <1>0, RotationAssumption
<1>1. ASSUME NEW x \in Rows, RowDelete(x) PROVE ExclusionInv'
  <2>1. TypeOK'
    BY <1>1 DEF RowDelete, TypeOK, RowRec
  <2> QED
    BY <1>1, <2>1 DEF RowDelete, ExclusionInv, Exclusion, LockNamesHolder, FenceCoversRotation
<1>2. CASE LoginDecide
  <2>1. TypeOK'
    BY <1>2 DEF LoginDecide, TypeOK, UserRec
  <2> QED
    BY <1>2, <2>1 DEF LoginDecide, ExclusionInv, Exclusion, LockNamesHolder, FenceCoversRotation
<1>3. CASE LoginLower
  <2>1. TypeOK'
    BY <1>3, LossMoves DEF LoginLower, TypeOK, UserRec
  <2>2. ~lost'.fence => \A r \in Rotators : ~Fenced(r)
    BY <1>3, LossMoves
  <2>3. ~lost'.fence => FenceCoversRotation'
    BY <1>3, <2>2 DEF LoginLower, Fenced, FenceCoversRotation
  <2> QED
    BY <1>3, <2>1, <2>3 DEF LoginLower, ExclusionInv, Exclusion, LockNamesHolder
<1>4. CASE LoginEnds
  <2>1. TypeOK'
    BY <1>4 DEF LoginEnds, TypeOK, UserRec
  <2> QED
    BY <1>4, <2>1 DEF LoginEnds, ExclusionInv, Exclusion, LockNamesHolder, FenceCoversRotation
<1>5. CASE LockLapses
  <2>1. TypeOK'
    BY <1>5 DEF LockLapses, TypeOK, UserRec
  <2> QED
    BY <1>5, <2>1 DEF LockLapses, ExclusionInv, Exclusion, LockNamesHolder, FenceCoversRotation
<1> QED
  BY <1>1, <1>2, <1>3, <1>4, <1>5

\* The initial states satisfy the exclusion.
LEMMA InitEstablishes == Init => ExclusionInv
<1> SUFFICES ASSUME Init PROVE ExclusionInv
  OBVIOUS
<1>1. TypeOK
  BY IdleTypes DEF Init, TypeOK, UserRec, RowRec, Wrappers, NoRow, NoLoss, LossRec
<1>2. Exclusion
  BY DEF Init, Exclusion, LockNamesHolder, FenceCoversRotation, IdleRot, IdleHold, IdlePw
<1> QED
  BY <1>1, <1>2 DEF ExclusionInv, Exclusion

\* Every step keeps the exclusion.
LEMMA ExclusionStep ==
    ASSUME ExclusionInv, [Next]_vars
    PROVE  ExclusionInv'
<1>1. CASE Next
  BY <1>1, WriterPreserves, HolderPreserves, ChangerPreserves, RotatorPreserves, RestPreserves
  DEF Next
<1>2. CASE UNCHANGED vars
  BY <1>2 DEF vars, ExclusionInv, TypeOK, LockNamesHolder, FenceCoversRotation
<1> QED
  BY <1>1, <1>2

\* However creates, edits, imports, password changes, logins, crashes and
\* other rotations interleave with it, a rotation is alone in its critical
\* section and keeps its fence until its key is stored or its rows put back,
\* unless a login that saw the fence without a lock lowers it meanwhile.
THEOREM ExclusionInvHolds == Spec => []ExclusionInv
BY InitEstablishes, ExclusionStep, PTL DEF Spec

----------------------------------------------------------------------------
(* The password that opens the vault *)

\* What a rotation stores is sealed under the password it proved; a re-seal
\* stores no wrapper.
SealedUnderProved ==
    \A r \in Rotators : rot[r].mode # "reseal" => rot[r].new.cred = rot[r].cred

\* Apart from RotHold, a step of a rotation keeps or forgets what it sends.
LEMMA RotationKeeps ==
    ASSUME TypeOK, NEW r \in Rotators,
           RotStep(r), ~RotHold(r)
    PROVE  /\ \A q \in Rotators \ {r} : rot'[q] = rot[q]
           /\ \/ /\ rot'[r].mode = rot[r].mode /\ rot'[r].new = rot[r].new
                 /\ rot'[r].cred = rot[r].cred
              \/ rot'[r].new = NoWrapper /\ rot'[r].cred = 0
<1> DEFINE StaysSealed == /\ \A q \in Rotators \ {r} : rot'[q] = rot[q]
                          /\ \/ /\ rot'[r].mode = rot[r].mode /\ rot'[r].new = rot[r].new
                                /\ rot'[r].cred = rot[r].cred
                             \/ rot'[r].new = NoWrapper /\ rot'[r].cred = 0
<1>1. ASSUME NEW pc, RotGoto(r, pc) PROVE StaysSealed
  <2>1. CASE pc \in {"lower", "release"}
    BY <1>1, <2>1 DEF RotGoto, TypeOK, IdleRot
  <2>2. CASE pc \notin {"lower", "release"}
    BY <1>1, <2>2 DEF RotGoto, TypeOK, RotRec
  <2> QED
    BY <2>1, <2>2
<1>2. ASSUME rot' = [rot EXCEPT ![r] = IdleRot] PROVE StaysSealed
  BY <1>2 DEF TypeOK, IdleRot
<1>3. CASE RotEnumerate(r)
  BY <1>3 DEF RotEnumerate, TypeOK, RotRec
<1>4. CASE RotAuth(r)
  <2>1. CASE user.cred = rot[r].cred
    BY <1>4, <2>1 DEF RotAuth, TypeOK, RotRec
  <2>2. CASE user.cred # rot[r].cred
    BY <1>2, <1>4, <2>2 DEF RotAuth, TypeOK
  <2> QED
    BY <2>1, <2>2
<1>5. CASE RotLock(r)
  BY <1>1, <1>2, <1>5 DEF RotLock
<1>6. CASE RotGuard(r)
  BY <1>1, <1>6 DEF RotGuard
<1>7. CASE RotSnapshot(r)
  <2>1. CASE rot' = [rot EXCEPT ![r].pc = "fence", ![r].snap = row]
    BY <2>1 DEF TypeOK, RotRec
  <2> QED
    BY <1>1, <1>7, <2>1 DEF RotSnapshot
<1>8. CASE RotFence(r) \/ RotCover(r) \/ RotKeyWrite(r) \/ RotUndo(r) \/ RotRestored(r)
           \/ RotRaise(r) \/ RotTxnCommit(r) \/ RotLower(r)
  BY <1>1, <1>8
  DEF RotFence, RotCover, RotKeyWrite, RotUndo, RotRestored, RotRaise, RotTxnCommit, RotLower
<1>9. ASSUME NEW x \in Rows, NEW n, rot' = [rot EXCEPT ![r].done[x] = n] PROVE StaysSealed
  BY <1>9 DEF TypeOK, RotRec
<1>10. CASE RotWrite(r)
  BY <1>1, <1>9, <1>10 DEF RotWrite, Turn, Pending, Payload
<1>11. CASE RotRestore(r)
  BY <1>9, <1>11 DEF RotRestore
<1>12. CASE RotTxnBegin(r)
  BY <1>12 DEF RotTxnBegin, TypeOK, RotRec
<1>13. CASE RotRelease(r) \/ CrashRot(r)
  BY <1>2, <1>13 DEF RotRelease, CrashRot
<1> HIDE DEF Kept
<1> QED
  BY <1>3, <1>4, <1>5, <1>6, <1>7, <1>8, <1>10, <1>11, <1>12, <1>13
  DEF RotStep, RotSequential, RotTransactional, Kept

\* A step of a rotation stores no wrapper, or one sealed under the password
\* that signs in.
LEMMA RotationWrapper ==
    ASSUME TypeOK, WrapperOpens, SealedUnderProved, NEW r \in Rotators, RotStep(r)
    PROVE  WrapperOpens'
<1>1. ASSUME NEW b \in BOOLEAN, CommitMatches(r), user' = Committed(r, b) PROVE WrapperOpens'
  <2>1. CASE rot[r].mode = "reseal"
    BY <1>1, <2>1 DEF Committed, WrapperOpens, TypeOK, UserRec
  <2>2. CASE rot[r].mode # "reseal"
    <3>1. rot[r].new.cred = user.cred
      BY <1>1, <2>2 DEF CommitMatches, SealedUnderProved
    <3>2. user'.wrapper = rot[r].new /\ user'.cred = user.cred
      BY <1>1, <2>2 DEF Committed, TypeOK, UserRec
    <3> QED
      BY <3>1, <3>2 DEF WrapperOpens
  <2> QED
    BY <2>1, <2>2
<1>2. CASE RotKeyWrite(r)
  BY <1>1, <1>2 DEF RotKeyWrite, WrapperOpens
<1>3. CASE RotTxnCommit(r)
  BY <1>1, <1>3, FieldTypes DEF RotTxnCommit, TxnAccepts, WrapperOpens
<1>4. CASE RotFence(r) \/ RotRaise(r) \/ RotLower(r)
  BY <1>4 DEF RotFence, RotRaise, RotLower, WrapperOpens, TypeOK, UserRec
<1>5. CASE \/ RotHold(r) \/ RotEnumerate(r) \/ RotAuth(r) \/ RotLock(r) \/ RotGuard(r)
           \/ RotSnapshot(r) \/ RotCover(r) \/ RotWrite(r) \/ RotUndo(r) \/ RotRestore(r)
           \/ RotRestored(r) \/ RotTxnBegin(r) \/ RotRelease(r) \/ CrashRot(r)
  BY <1>5
  DEF RotHold, RotEnumerate, RotAuth, RotLock, RotGuard, RotSnapshot, RotCover, RotWrite, RotUndo,
      RotRestore, RotRestored, RotTxnBegin, RotRelease, CrashRot, WrapperOpens
<1> QED
  BY <1>2, <1>3, <1>4, <1>5 DEF RotStep, RotSequential, RotTransactional

\* Nor does a rotation come to hold a wrapper sealed under a password other
\* than the one it will prove.
LEMMA RotationSealed ==
    ASSUME TypeOK, SealedUnderProved, NEW r \in Rotators, RotStep(r)
    PROVE  SealedUnderProved'
<1>1. CASE RotHold(r)
  <2>1. PICK m \in Modes :
          /\ m = "finish" => user.pending.cred = user.cred
          /\ rot' = [rot EXCEPT ![r] = [IdleRot EXCEPT
                !.pc = "held", !.mode = m, !.held = user.wrapper.key, !.ver = user.ver,
                !.cred = user.cred,
                !.new = CASE m = "reseal" -> user.wrapper
                          [] m = "finish" -> user.pending
                          [] OTHER -> [key |-> nextKey, cred |-> user.cred]]]
    BY <1>1 DEF RotHold
  <2>2. \A q \in Rotators \ {r} : rot'[q] = rot[q]
    BY <2>1 DEF TypeOK
  <2>3. rot'[r].mode = m /\ rot'[r].cred = user.cred
    BY <2>1 DEF TypeOK, IdleRot
  <2>4. rot'[r].new = CASE m = "reseal" -> user.wrapper
                        [] m = "finish" -> user.pending
                        [] OTHER -> [key |-> nextKey, cred |-> user.cred]
    BY <2>1 DEF TypeOK, IdleRot
  <2>5. m # "reseal" => rot'[r].new.cred = user.cred
    BY <2>1, <2>4
  <2> QED
    BY <2>2, <2>3, <2>5 DEF SealedUnderProved
<1>2. CASE ~RotHold(r)
  BY <1>2, RotationKeeps DEF SealedUnderProved, NoWrapper
<1> QED
  BY <1>1, <1>2

\* The stored wrapper is always sealed under the master password that signs
\* in: no rotation, finished, abandoned, repeated or crashed, stores a wrapper
\* that a password change has overtaken.
THEOREM WrapperOpensHolds == Spec => []WrapperOpens
<1> DEFINE WInv == TypeOK /\ WrapperOpens /\ SealedUnderProved
<1>1. Init => WInv
  BY InitEstablishes DEF Init, ExclusionInv, WrapperOpens, SealedUnderProved, IdleRot, NoWrapper
<1>2. ExclusionInv /\ WInv /\ [Next]_vars /\ ExclusionInv' => WInv'
  <2> SUFFICES ASSUME ExclusionInv, TypeOK, WrapperOpens, SealedUnderProved, [Next]_vars, ExclusionInv'
               PROVE  WrapperOpens' /\ SealedUnderProved'
    BY DEF ExclusionInv
  <2>1. ASSUME NEW r \in Rotators, RotStep(r) PROVE WrapperOpens' /\ SealedUnderProved'
    BY <2>1, RotationWrapper, RotationSealed
  <2>2. ASSUME NEW c \in Changers, PwStep(c) PROVE WrapperOpens' /\ SealedUnderProved'
    <3>1. CASE PwWrite(c)
      BY <3>1 DEF PwWrite, WrapperOpens, SealedUnderProved, TypeOK, UserRec
    <3>2. CASE PwHold(c) \/ PwLock(c) \/ PwGuard(c) \/ PwRelease(c) \/ CrashPw(c)
      BY <3>2 DEF PwHold, PwLock, PwGuard, PwRelease, CrashPw, WrapperOpens, SealedUnderProved
    <3> QED
      BY <2>2, <3>1, <3>2 DEF PwStep
  <2>3. ASSUME NEW w \in Writers, WrStep(w) PROVE WrapperOpens' /\ SealedUnderProved'
    BY <2>3 DEF WrStep, WrHold, WrFence, WrVersion, WrInsert, WrConfirm, WrWithdraw,
                WrWithdrawFails, WrMeasure, WrRecheck, WrWrite, WrapperOpens, SealedUnderProved
  <2>4. ASSUME NEW h \in Holders, HoldStep(h) PROVE WrapperOpens' /\ SealedUnderProved'
    BY <2>4 DEF HoldStep, HoldBegin, HoldFenceFirst, HoldLock, HoldFence, HoldVersion, HoldWrite,
                HoldRelease, CrashHold, WrapperOpens, SealedUnderProved
  <2>5. CASE (\E x \in Rows : RowDelete(x)) \/ LoginDecide \/ LoginEnds \/ LockLapses
    BY <2>5 DEF RowDelete, LoginDecide, LoginEnds, LockLapses, WrapperOpens, SealedUnderProved
  <2>6. CASE LoginLower
    BY <2>6 DEF LoginLower, WrapperOpens, SealedUnderProved, TypeOK, UserRec
  <2>7. CASE UNCHANGED vars
    BY <2>7 DEF vars, WrapperOpens, SealedUnderProved
  <2> QED
    BY <2>1, <2>2, <2>3, <2>4, <2>5, <2>6, <2>7 DEF Next
<1> QED
  BY <1>1, <1>2, ExclusionInvHolds, PTL DEF Spec

----------------------------------------------------------------------------
(* What the steps change, field by field *)

\* The fields the invariants of edits and keys read.
LEMMA RowFields ==
    ASSUME TypeOK
    PROVE  /\ \A x \in Rows : /\ row[x].key \in Nat /\ row[x].v \in Nat
                              /\ row[x].at \in Nat /\ row[x].text \in Nat
           /\ \A r \in Rotators, x \in Rows :
                /\ rot[r].seen[x] \in RowRec /\ rot[r].snap[x] \in RowRec
                /\ rot[r].seen[x].key \in Nat /\ rot[r].snap[x].key \in Nat
                /\ rot[r].seen[x].at \in Nat /\ rot[r].snap[x].at \in Nat
                /\ rot[r].seen[x].text \in Nat /\ rot[r].snap[x].text \in Nat
                /\ rot[r].done[x] \in Nat
<1>1. \A c \in RowRec : c.key \in Nat /\ c.v \in Nat /\ c.at \in Nat /\ c.text \in Nat
  BY DEF RowRec
<1>2. \A x \in Rows : row[x] \in RowRec
  BY FieldTypes
<1>3. \A r \in Rotators, x \in Rows :
        rot[r].seen[x] \in RowRec /\ rot[r].snap[x] \in RowRec /\ rot[r].done[x] \in Nat
  BY FieldTypes
<1> QED
  BY <1>1, <1>2, <1>3

\* The same of the requests.
LEMMA RequestFields ==
    ASSUME TypeOK
    PROVE  /\ \A w \in Writers : wr[w].ver \in Nat /\ wr[w].v \in Nat
           /\ \A h \in Holders : hold[h].ver \in Nat
           /\ \A c \in Changers : pw[c].ver \in Nat
           /\ \A r \in Rotators : /\ rot[r].ver \in Nat /\ rot[r].held \in Nat
                                  /\ rot[r].new.key \in Nat
<1>1. \A w \in Writers : wr[w].ver \in Nat /\ wr[w].v \in Nat
  BY DEF TypeOK, WrRec
<1>2. (\A h \in Holders : hold[h].ver \in Nat) /\ (\A c \in Changers : pw[c].ver \in Nat)
  BY DEF TypeOK, HoldRec, PwRec
<1>3. \A r \in Rotators : rot[r].ver \in Nat /\ rot[r].held \in Nat
  BY DEF TypeOK, RotRec
<1>4. \A r \in Rotators : rot[r].new.key \in Nat
  BY FieldTypes DEF Wrappers
<1> QED
  BY <1>1, <1>2, <1>3, <1>4

\* A rotation that forgets what it read, and one that keeps all of it.
Blank(r) ==
    /\ rot'[r].mode = "fresh" /\ rot'[r].new = NoWrapper /\ rot'[r].held = 0 /\ rot'[r].ver = 0
    /\ rot'[r].pc \in {"idle", "lower", "release"}
    /\ \A x \in Rows : /\ rot'[r].seen[x] = NoRow /\ rot'[r].snap[x] = NoRow
                       /\ rot'[r].done[x] = 0
Sends(r) ==
    /\ rot'[r].mode = rot[r].mode /\ rot'[r].new = rot[r].new /\ rot'[r].held = rot[r].held
    /\ rot'[r].ver = rot[r].ver /\ rot'[r].seen = rot[r].seen
Keeps(r) == Sends(r) /\ rot'[r].snap = rot[r].snap /\ rot'[r].done = rot[r].done
Others(r) == \A q \in Rotators \ {r} : rot'[q] = rot[q]

\* A rotation that moves on keeps what it has, and one that leaves forgets it.
LEMMA RotMoves ==
    ASSUME TypeOK, NEW r \in Rotators, NEW pc \in RotPC, RotGoto(r, pc)
    PROVE  /\ Others(r) /\ rot'[r].pc = pc
           /\ pc \notin {"lower", "release"} => Keeps(r)
           /\ pc \in {"lower", "release"} => Blank(r)
<1>1. rot[r] \in RotRec /\ IdleRot \in RotRec
  BY FieldTypes, IdleTypes
<1>2. rot'[r] = IF pc \in {"lower", "release"}
                THEN [IdleRot EXCEPT !.pc = pc] ELSE [rot[r] EXCEPT !.pc = pc]
  BY DEF RotGoto, TypeOK
<1>3. Others(r)
  BY DEF RotGoto, TypeOK, Others
<1>4. CASE pc \in {"lower", "release"}
  BY <1>2, <1>3, <1>4 DEF IdleRot, Blank
<1>5. CASE pc \notin {"lower", "release"}
  BY <1>1, <1>2, <1>3, <1>5 DEF RotRec, Keeps, Sends
<1> QED
  BY <1>4, <1>5

\* A rotation that stops has forgotten everything.
LEMMA RotStops ==
    ASSUME TypeOK, NEW r \in Rotators, rot' = [rot EXCEPT ![r] = IdleRot]
    PROVE  Others(r) /\ Blank(r) /\ rot'[r].pc = "idle"
BY DEF TypeOK, IdleRot, Blank, Others

\* A rotation that takes its snapshot (RotSnapshot, RotTxnBegin).
LEMMA RotSnaps ==
    ASSUME TypeOK, NEW r \in Rotators, NEW pc \in RotPC
    PROVE  rot' = [rot EXCEPT ![r].pc = pc, ![r].snap = row] =>
             /\ Others(r) /\ Sends(r) /\ rot'[r].pc = pc
             /\ rot'[r].snap = row /\ rot'[r].done = rot[r].done
<1> DEFINE Snapped(a, s, b) ==
             /\ b.pc = pc /\ b.snap = s /\ b.done = a.done /\ b.mode = a.mode /\ b.new = a.new
             /\ b.held = a.held /\ b.ver = a.ver /\ b.seen = a.seen
<1>1. rot[r] \in RotRec
  BY FieldTypes
<1>2. \A a \in RotRec : \A s, b : b = [a EXCEPT !.pc = pc, !.snap = s] => Snapped(a, s, b)
  BY DEF RotRec
<1>3. ASSUME rot' = [rot EXCEPT ![r].pc = pc, ![r].snap = row]
      PROVE  Others(r) /\ rot'[r] = [rot[r] EXCEPT !.pc = pc, !.snap = row]
  BY <1>3 DEF TypeOK, Others
<1>4. Snapped(rot[r], row, rot'[r]) =>
        Sends(r) /\ rot'[r].pc = pc /\ rot'[r].snap = row /\ rot'[r].done = rot[r].done
  BY DEF Sends
<1> HIDE DEF Snapped
<1>5. rot'[r] = [rot[r] EXCEPT !.pc = pc, !.snap = row] => Snapped(rot[r], row, rot'[r])
  BY <1>1, <1>2
<1> QED
  BY <1>3, <1>4, <1>5

\* A rotation that notes a row as written or put back.
LEMMA RotMarks ==
    ASSUME TypeOK, NEW r \in Rotators, NEW x \in Rows, NEW n \in Nat,
           rot' = [rot EXCEPT ![r].done[x] = n]
    PROVE  /\ Others(r) /\ Sends(r) /\ rot'[r].pc = rot[r].pc /\ rot'[r].snap = rot[r].snap
           /\ \A y \in Rows : rot'[r].done[y] = IF y = x THEN n ELSE rot[r].done[y]
<1>1. rot[r] \in RotRec /\ rot[r].done \in [Rows -> Nat]
  BY FieldTypes
<1>2. rot'[r] = [rot[r] EXCEPT !.done = [rot[r].done EXCEPT ![x] = n]]
  BY DEF TypeOK
<1>3. Others(r)
  BY DEF TypeOK, Others
<1>4. rot'[r].done = [rot[r].done EXCEPT ![x] = n]
  BY <1>1, <1>2 DEF RotRec
<1>5. Sends(r) /\ rot'[r].pc = rot[r].pc /\ rot'[r].snap = rot[r].snap
  BY <1>1, <1>2 DEF RotRec, Sends
<1> QED
  BY <1>1, <1>3, <1>4, <1>5

\* The page reads the live rows.
LEMMA RotReads ==
    ASSUME TypeOK, NEW r \in Rotators, RotEnumerate(r)
    PROVE  /\ Others(r) /\ rot'[r].pc = "read"
           /\ rot'[r].mode = rot[r].mode /\ rot'[r].new = rot[r].new /\ rot'[r].held = rot[r].held
           /\ rot'[r].ver = rot[r].ver /\ rot'[r].snap = rot[r].snap /\ rot'[r].done = rot[r].done
           /\ \A x \in Rows : rot'[r].seen[x] = IF Live(x) THEN row[x] ELSE NoRow
<1> DEFINE read == [x \in Rows |-> IF Live(x) THEN row[x] ELSE NoRow]
<1>1. rot[r] \in RotRec
  BY FieldTypes
<1>2. \A x \in Rows : read[x] = IF Live(x) THEN row[x] ELSE NoRow
  OBVIOUS
<1> HIDE DEF read
<1>3. rot'[r] = [rot[r] EXCEPT !.pc = "read", !.seen = read]
  BY DEF RotEnumerate, TypeOK, read
<1>4. Others(r)
  BY DEF RotEnumerate, TypeOK, Others
<1>5. /\ rot'[r].pc = "read" /\ rot'[r].seen = read
      /\ rot'[r].mode = rot[r].mode /\ rot'[r].new = rot[r].new /\ rot'[r].held = rot[r].held
      /\ rot'[r].ver = rot[r].ver /\ rot'[r].snap = rot[r].snap /\ rot'[r].done = rot[r].done
  BY <1>1, <1>3 DEF RotRec
<1> QED
  BY <1>2, <1>4, <1>5

\* A rotation begins with the key and the generation of its page.
LEMMA RotBegins ==
    ASSUME TypeOK, NEW r \in Rotators, RotHold(r)
    PROVE  /\ Others(r) /\ rot'[r].pc = "held" /\ rot'[r].mode \in Modes
           /\ rot'[r].held = user.wrapper.key /\ rot'[r].ver = user.ver
           /\ \A x \in Rows : /\ rot'[r].seen[x] = NoRow /\ rot'[r].snap[x] = NoRow
                              /\ rot'[r].done[x] = 0
<1>1. PICK m \in Modes : rot' = [rot EXCEPT ![r] = [IdleRot EXCEPT
                !.pc = "held", !.mode = m, !.held = user.wrapper.key, !.ver = user.ver,
                !.cred = user.cred,
                !.new = CASE m = "reseal" -> user.wrapper
                          [] m = "finish" -> user.pending
                          [] OTHER -> [key |-> nextKey, cred |-> user.cred]]]
  BY DEF RotHold
<1> DEFINE new == CASE m = "reseal" -> user.wrapper
                    [] m = "finish" -> user.pending
                    [] OTHER -> [key |-> nextKey, cred |-> user.cred]
<1> HIDE DEF new
<1>2. rot'[r] = [IdleRot EXCEPT !.pc = "held", !.mode = m, !.held = user.wrapper.key,
                                !.ver = user.ver, !.cred = user.cred, !.new = new]
  BY <1>1 DEF TypeOK, new
<1>3. Others(r)
  BY <1>1 DEF TypeOK, Others
<1> QED
  BY <1>2, <1>3 DEF IdleRot

\* What a step may do to the stored rows.
RowsBut(x) == \A y \in Rows \ {x} : row'[y] = row[y]
SealedAnew(x, k) ==
    /\ RowsBut(x) /\ row'[x].key = k /\ row'[x].v = row[x].v + 1
    /\ row'[x].at = row[x].v + 1 /\ row'[x].text = row[x].v + 1
Wiped(x) ==
    /\ RowsBut(x) /\ row'[x].key = 0 /\ row'[x].v = row[x].v
    /\ row'[x].at = row[x].at /\ row'[x].text = row[x].text
ResealedRow(r, x) ==
    /\ row'[x].v = row[x].v + 1 /\ row'[x].text = rot[r].seen[x].text
    /\ x \in Opened(r) => row'[x].key = rot[r].new.key /\ row'[x].at = row[x].v + 1
    /\ x \notin Opened(r) =>
        row'[x].key = rot[r].seen[x].key /\ row'[x].at = rot[r].seen[x].at
PutBack(r, x) ==
    /\ RowsBut(x) /\ row'[x].v = row[x].v + 1 /\ row'[x].key = rot[r].snap[x].key
    /\ row'[x].at = rot[r].snap[x].at /\ row'[x].text = rot[r].snap[x].text

\* The writes of rows are these effects.
LEMMA RowEffects ==
    ASSUME TypeOK, NEW x \in Rows
    PROVE  /\ \A k \in Nat : row' = [row EXCEPT ![x] = Sealed(x, k)] => SealedAnew(x, k)
           /\ row' = [row EXCEPT ![x].key = 0] => Wiped(x)
           /\ \A r \in Rotators :
                /\ row' = [row EXCEPT ![x] = Resealed(r, x)] => RowsBut(x) /\ ResealedRow(r, x)
                /\ row' = [row EXCEPT ![x] = [rot[r].snap[x] EXCEPT !.v = row[x].v + 1]] =>
                     PutBack(r, x)
<1>1. ASSUME NEW k \in Nat, row' = [row EXCEPT ![x] = Sealed(x, k)] PROVE SealedAnew(x, k)
  BY <1>1 DEF TypeOK, Sealed, SealedAnew, RowsBut
<1>2. ASSUME row' = [row EXCEPT ![x].key = 0] PROVE Wiped(x)
  BY <1>2, FieldTypes DEF TypeOK, RowRec, Wiped, RowsBut
<1>3. ASSUME NEW r \in Rotators, row' = [row EXCEPT ![x] = Resealed(r, x)]
      PROVE  RowsBut(x) /\ ResealedRow(r, x)
  <2>1. row'[x] = Resealed(r, x) /\ RowsBut(x)
    BY <1>3 DEF TypeOK, RowsBut
  <2>2. CASE x \in Opened(r)
    BY <2>1, <2>2 DEF Resealed, ResealedRow
  <2>3. CASE x \notin Opened(r)
    <3>1. rot[r].seen[x] \in RowRec
      BY FieldTypes
    <3> QED
      BY <2>1, <2>3, <3>1 DEF Resealed, ResealedRow, RowRec
  <2> QED
    BY <2>2, <2>3
<1>4. ASSUME NEW r \in Rotators,
             row' = [row EXCEPT ![x] = [rot[r].snap[x] EXCEPT !.v = row[x].v + 1]]
      PROVE  PutBack(r, x)
  <2>1. rot[r].snap[x] \in RowRec
    BY FieldTypes
  <2>2. row'[x] = [rot[r].snap[x] EXCEPT !.v = row[x].v + 1] /\ RowsBut(x)
    BY <1>4 DEF TypeOK, RowsBut
  <2> QED
    BY <2>1, <2>2 DEF PutBack, RowRec
<1> QED
  BY <1>1, <1>2, <1>3, <1>4

----------------------------------------------------------------------------
(* No edit is undone *)

\* A ciphertext after a step: none, one somebody had, or the row's new one.
Had(x, c) ==
    \E a \in Copies(x) :
        c.at = a.at /\ c.text = a.text /\ (c.key = a.key \/ c.key = 0)
Minted(x, c) ==
    /\ c = row'[x] /\ c.at = row[x].v + 1 /\ c.at <= row'[x].v /\ c.text <= c.at
    /\ c.key # 0 /\ x \in Docs => c.text = 1
Descends(x, c) == c = NoRow \/ Had(x, c) \/ Minted(x, c)

\* Steps that only copy ciphertexts, or store one new one, keep them dated and
\* in agreement.
LEMMA CopiesStay ==
    ASSUME TypeOK, TypeOK', Dated, CopiesAgree,
           \A x \in Rows : row[x].v <= row'[x].v,
           \A x \in Rows : Descends(x, row'[x]),
           \A r \in Rotators, x \in Rows :
                Descends(x, rot'[r].seen[x]) /\ Descends(x, rot'[r].snap[x])
    PROVE  Dated' /\ CopiesAgree'
<1> DEFINE C(x) == {row'[x]} \cup {rot'[r].seen[x] : r \in Rotators}
                             \cup {rot'[r].snap[x] : r \in Rotators}
<1>1. \A x \in Rows : Copies(x)' = C(x)
  BY DEF Copies
<1>2. \A x \in Rows : \A c \in C(x) : Descends(x, c)
  OBVIOUS
<1>3. \A x \in Rows : \A c \in C(x) : c.key \in Nat /\ c.at \in Nat /\ c.text \in Nat
  <2>1. \A c \in RowRec : c.key \in Nat /\ c.at \in Nat /\ c.text \in Nat
    BY DEF RowRec
  <2>2. \A x \in Rows : row'[x] \in RowRec
    BY DEF TypeOK
  <2>3. \A r \in Rotators, x \in Rows : rot'[r].seen[x] \in RowRec /\ rot'[r].snap[x] \in RowRec
    BY DEF TypeOK, RotRec
  <2> QED
    BY <2>1, <2>2, <2>3
<1>4. \A x \in Rows : \A c \in Copies(x) : c.key \in Nat /\ c.at \in Nat /\ c.text \in Nat
  BY RowFields DEF Copies
<1>5. \A x \in Rows : row[x].v \in Nat /\ row'[x].v \in Nat
  BY DEF TypeOK, RowRec
<1> HIDE DEF C
<1>6. ASSUME NEW x \in Rows, NEW c \in C(x)
      PROVE  /\ c.text <= c.at /\ c.at <= row'[x].v
             /\ c.key # 0 => 1 <= c.at
             /\ c.key # 0 /\ x \in Docs => c.text = 1
  <2>1. CASE c = NoRow
    BY <2>1, <1>5 DEF NoRow
  <2>2. CASE Had(x, c)
    <3>1. PICK a \in Copies(x) : c.at = a.at /\ c.text = a.text /\ (c.key = a.key \/ c.key = 0)
      BY <2>2 DEF Had
    <3>2. /\ a.text <= a.at /\ a.at <= row[x].v
          /\ a.key # 0 => 1 <= a.at
          /\ a.key # 0 /\ x \in Docs => a.text = 1
      BY DEF Dated
    <3> QED
      BY <1>4, <1>5, <3>1, <3>2
  <2>3. CASE Minted(x, c)
    BY <2>3, <1>5 DEF Minted
  <2> QED
    BY <1>2, <2>1, <2>2, <2>3 DEF Descends
<1>7. ASSUME NEW x \in Rows, NEW a \in C(x), NEW b \in C(x),
             a.at = b.at, a.key # 0, b.key # 0
      PROVE  a.key = b.key /\ a.text = b.text
  <2>1. a # NoRow /\ b # NoRow
    BY <1>7 DEF NoRow
  <2>2. CASE Had(x, a) /\ Had(x, b)
    <3>1. PICK p \in Copies(x) : a.at = p.at /\ a.text = p.text /\ a.key = p.key
      BY <1>7, <2>2 DEF Had
    <3>2. PICK q \in Copies(x) : b.at = q.at /\ b.text = q.text /\ b.key = q.key
      BY <1>7, <2>2 DEF Had
    <3>3. p.key = q.key /\ p.text = q.text
      BY <1>7, <3>1, <3>2 DEF CopiesAgree
    <3> QED
      BY <3>1, <3>2, <3>3
  <2>3. \A c : Had(x, c) => c.at <= row[x].v
    BY DEF Had, Dated
  <2>4. ~(Had(x, a) /\ Minted(x, b)) /\ ~(Minted(x, a) /\ Had(x, b))
    BY <1>3, <1>5, <1>7, <2>3 DEF Minted
  <2>5. CASE Minted(x, a) /\ Minted(x, b)
    BY <2>5 DEF Minted
  <2> QED
    BY <1>2, <2>1, <2>2, <2>4, <2>5 DEF Descends
<1>8. Dated'
  BY <1>1, <1>6 DEF Dated
<1>9. CopiesAgree'
  BY <1>1, <1>7 DEF CopiesAgree
<1> QED
  BY <1>8, <1>9

\* The rows after a step, each as it was or as one of the effects above.
Plain(x) == row'[x] = row[x]
\* Each of these effects stores a ciphertext somebody had, or one new one.
LEMMA RowDescends ==
    ASSUME TypeOK, Dated, NEW x \in Rows
    PROVE  /\ Plain(x) \/ Wiped(x) => Descends(x, row'[x]) /\ row[x].v <= row'[x].v
           /\ \A k : SealedAnew(x, k) /\ (x \in Docs => row[x].v = 0) =>
                Descends(x, row'[x]) /\ row[x].v <= row'[x].v
           /\ \A r \in Rotators : ResealedRow(r, x) /\ x \in Payload(r) =>
                Descends(x, row'[x]) /\ row[x].v <= row'[x].v
           /\ \A r \in Rotators : PutBack(r, x) =>
                Descends(x, row'[x]) /\ row[x].v <= row'[x].v
<1>0. /\ row[x] \in Copies(x)
      /\ \A r \in Rotators : rot[r].seen[x] \in Copies(x) /\ rot[r].snap[x] \in Copies(x)
  BY DEF Copies
<1>1. row[x].v \in Nat /\ row[x].v <= row[x].v + 1 /\ row[x].v <= row[x].v
  BY FieldTypes
<1>2. ASSUME Plain(x) \/ Wiped(x) PROVE Descends(x, row'[x]) /\ row[x].v <= row'[x].v
  BY <1>0, <1>1, <1>2 DEF Plain, Wiped, Descends, Had
<1>3. ASSUME NEW k, SealedAnew(x, k), x \in Docs => row[x].v = 0
      PROVE  Descends(x, row'[x]) /\ row[x].v <= row'[x].v
  BY <1>1, <1>3 DEF SealedAnew, Descends, Minted
<1>4. ASSUME NEW r \in Rotators, ResealedRow(r, x), x \in Payload(r)
      PROVE  Descends(x, row'[x]) /\ row[x].v <= row'[x].v
  <2>1. CASE x \in Opened(r)
    <3>1. rot[r].seen[x].text <= row[x].v /\ (x \in Docs => rot[r].seen[x].text = 1)
      <4>1. rot[r].seen[x].text <= rot[r].seen[x].at /\ rot[r].seen[x].at <= row[x].v
        BY <1>0 DEF Dated
      <4>2. x \in Docs => rot[r].seen[x].text = 1
        BY <1>0, <1>4 DEF Dated, Payload
      <4> QED
        BY <4>1, <4>2, <1>1, RowFields
    <3>2. rot[r].seen[x].text <= row[x].v + 1
      BY <3>1, <1>1, RowFields
    <3> QED
      BY <1>1, <1>4, <2>1, <3>1, <3>2 DEF ResealedRow, Descends, Minted
  <2>2. CASE x \notin Opened(r)
    BY <1>0, <1>1, <1>4, <2>2 DEF ResealedRow, Descends, Had
  <2> QED
    BY <2>1, <2>2
<1>5. ASSUME NEW r \in Rotators, PutBack(r, x)
      PROVE  Descends(x, row'[x]) /\ row[x].v <= row'[x].v
  BY <1>0, <1>1, <1>5 DEF PutBack, Descends, Had
<1> QED
  BY <1>2, <1>3, <1>4, <1>5

\* An edit outlives a step.
TextKept(x) == Live(x) /\ row'[x].key # 0 => row'[x].text >= row[x].text

\* A request other than a rotation stores new content, or deletes.
Saved(x) == \/ Plain(x) \/ Wiped(x)
            \/ \E k : SealedAnew(x, k) /\ (x \in Docs => row[x].v = 0)

\* A step that saves new content, or deletes, undoes nothing.
LEMMA SavedEdits ==
    ASSUME TypeOK, TypeOK', EditInv, rot' = rot, \A x \in Rows : Saved(x)
    PROVE  EditInv' /\ \A x \in Rows : TextKept(x)
<1>1. \A x \in Rows : Descends(x, row'[x]) /\ row[x].v <= row'[x].v
  BY RowDescends DEF Saved, EditInv
<1>2. \A r \in Rotators, x \in Rows :
        Descends(x, rot'[r].seen[x]) /\ Descends(x, rot'[r].snap[x])
  BY DEF Descends, Had, Copies
<1>3. Dated' /\ CopiesAgree'
  BY <1>1, <1>2, CopiesStay DEF EditInv
<1>4. ASSUME NEW x \in Rows PROVE TextKept(x)
  <2>1. row[x].text <= row[x].v /\ row[x].text \in Nat /\ row[x].v \in Nat
    <3>1. row[x].text <= row[x].at /\ row[x].at <= row[x].v
      BY DEF EditInv, Dated, Copies
    <3> QED
      BY <3>1, RowFields
  <2>2. row[x].v + 1 >= row[x].text /\ row[x].text >= row[x].text
    BY <2>1
  <2> QED
    BY <2>2 DEF Saved, Plain, Wiped, SealedAnew, TextKept
<1>5. ASSUME NEW r \in Rotators PROVE PutsBackWhatWasRead(r)'
  <2>1. ASSUME NEW x \in Rows, rot[r].done[x] # 0
        PROVE  /\ rot[r].pc \in {"write", "undo", "restore"}
               /\ rot[r].done[x] <= row'[x].v
               /\ row'[x].at = rot[r].done[x] /\ row'[x].key # 0 /\ rot[r].snap[x].key # 0 =>
                    row'[x].text = rot[r].snap[x].text
    <3>1. /\ rot[r].pc \in {"write", "undo", "restore"}
          /\ rot[r].done[x] <= row[x].v
          /\ row[x].at = rot[r].done[x] /\ row[x].key # 0 /\ rot[r].snap[x].key # 0 =>
               row[x].text = rot[r].snap[x].text
      BY <2>1 DEF EditInv, PutsBackWhatWasRead, Live
    <3>2. rot[r].done[x] \in Nat /\ row[x].v \in Nat /\ row'[x].v \in Nat
      BY RowFields DEF TypeOK, RowRec
    <3>3. rot[r].done[x] <= row'[x].v
      BY <1>1, <3>1, <3>2
    <3>4. row[x].v + 1 # rot[r].done[x]
      BY <3>1, <3>2
    <3> QED
      BY <3>1, <3>3, <3>4 DEF Saved, Plain, Wiped, SealedAnew
  <2>2. rot[r].pc \in {"fence", "cover", "write"} =>
            \A x \in Payload(r) : ReadPin(r, x, rot[r].snap[x])
    BY DEF EditInv, PutsBackWhatWasRead
  <2> QED
    BY <2>1, <2>2 DEF PutsBackWhatWasRead, Payload, ReadPin, Live
<1> QED
  BY <1>3, <1>4, <1>5 DEF EditInv

\* What a rotation comes to hold, it read from the rows.
Reads(r) ==
    \A x \in Rows : /\ rot'[r].seen[x] \in {rot[r].seen[x], row[x], NoRow}
                    /\ rot'[r].snap[x] \in {rot[r].snap[x], row[x], NoRow}

\* What a rotation reads or takes as its snapshot is a copy somebody had.
LEMMA ReadsDescend ==
    ASSUME NEW r \in Rotators, Others(r), Reads(r)
    PROVE  \A q \in Rotators, x \in Rows :
             Descends(x, rot'[q].seen[x]) /\ Descends(x, rot'[q].snap[x])
<1>1. \A x \in Rows : \A c \in Copies(x) : Descends(x, c)
  BY DEF Descends, Had
<1>2. \A x \in Rows : Descends(x, NoRow)
  BY DEF Descends
<1>3. /\ \A x \in Rows : row[x] \in Copies(x)
      /\ \A q \in Rotators, x \in Rows :
            rot[q].seen[x] \in Copies(x) /\ rot[q].snap[x] \in Copies(x)
  BY DEF Copies
<1> QED
  BY <1>1, <1>2, <1>3 DEF Others, Reads

\* A step of a rotation that stores no row.
LEMMA RotQuietEdits ==
    ASSUME TypeOK, TypeOK', EditInv, NEW r \in Rotators, row' = row,
           Others(r), Reads(r), PutsBackWhatWasRead(r)'
    PROVE  EditInv' /\ \A x \in Rows : TextKept(x)
<1>1. \A x \in Rows : Descends(x, row'[x]) /\ row[x].v <= row'[x].v
  BY RowDescends DEF Plain, EditInv
<1>2. Dated' /\ CopiesAgree'
  BY <1>1, ReadsDescend, CopiesStay DEF EditInv
<1>3. ASSUME NEW q \in Rotators \ {r} PROVE PutsBackWhatWasRead(q)'
  BY DEF EditInv, PutsBackWhatWasRead, Payload, ReadPin, Live, Others
<1>4. \A x \in Rows : TextKept(x)
  BY RowFields DEF TextKept
<1> QED
  BY <1>2, <1>3, <1>4 DEF EditInv

\* A step of a rotation inside the lock: nobody else has a row to put back.
LEMMA RotStoresEdits ==
    ASSUME TypeOK, TypeOK', EditInv, LockNamesHolder, NEW r \in Rotators, lock = r,
           Others(r), Reads(r), PutsBackWhatWasRead(r)',
           \A x \in Rows : Descends(x, row'[x]) /\ row[x].v <= row'[x].v
    PROVE  EditInv'
<1>1. Dated' /\ CopiesAgree'
  BY ReadsDescend, CopiesStay DEF EditInv
<1>2. ASSUME NEW q \in Rotators \ {r} PROVE PutsBackWhatWasRead(q)'
  <2>1. rot'[q] = rot[q] /\ rot[q].pc \in {"idle", "held", "read", "lock"}
    BY DEF LockNamesHolder, Others
  <2>2. \A x \in Rows : rot[q].done[x] = 0
    BY <2>1 DEF EditInv, PutsBackWhatWasRead
  <2> QED
    BY <2>1, <2>2 DEF PutsBackWhatWasRead
<1> QED
  BY <1>1, <1>2 DEF EditInv

\* The plaintext of a row that still carries the ciphertext the page read.
LEMMA PinnedText ==
    ASSUME TypeOK, Dated, CopiesAgree, NEW r \in Rotators, NEW x \in Payload(r)
    PROVE  \A c \in Copies(x) : ReadPin(r, x, c) => c.text = rot[r].seen[x].text
<1>1. rot[r].seen[x] \in Copies(x) /\ rot[r].seen[x].key # 0 /\ x \in Rows
  BY DEF Payload, Copies
<1>2. ASSUME NEW c \in Copies(x), ReadPin(r, x, c) PROVE c.text = rot[r].seen[x].text
  <2>1. CASE x \in Items
    BY <1>1, <1>2, <2>1 DEF CopiesAgree, ReadPin
  <2>2. CASE x \in Docs
    BY <1>1, <1>2, <2>2 DEF Dated, ReadPin
  <2> QED
    BY <1>1, <2>1, <2>2 DEF Rows
<1> QED
  BY <1>2

\* A rotation that does not write keeps what it read and marked, or forgets it.
LEMMA KeptEdits ==
    ASSUME TypeOK, EditInv, NEW r \in Rotators, row' = row
    PROVE  /\ Keeps(r) /\ rot'[r].pc = rot[r].pc => Reads(r) /\ PutsBackWhatWasRead(r)'
           /\ /\ Keeps(r) /\ rot[r].pc \in {"fence", "cover", "write"}
              /\ rot'[r].pc \in {"cover", "write", "undo"}
              /\ rot[r].pc = "write" => rot'[r].pc # "cover"
              => Reads(r) /\ PutsBackWhatWasRead(r)'
           /\ Keeps(r) /\ rot[r].pc = "undo" /\ rot'[r].pc = "restore" =>
                Reads(r) /\ PutsBackWhatWasRead(r)'
           /\ /\ Keeps(r) /\ rot[r].pc \notin {"write", "undo", "restore"}
              /\ rot'[r].pc \notin {"fence", "cover", "write"}
              => Reads(r) /\ PutsBackWhatWasRead(r)'
           /\ Blank(r) => Reads(r) /\ PutsBackWhatWasRead(r)'
<1>1. Keeps(r) => Reads(r)
  BY DEF Keeps, Sends, Reads
<1>2. Blank(r) => Reads(r) /\ PutsBackWhatWasRead(r)'
  BY DEF Blank, Reads, PutsBackWhatWasRead
<1>3. ASSUME Keeps(r),
             rot'[r].pc \in {"fence", "cover", "write"} => rot[r].pc \in {"fence", "cover", "write"},
             \A x \in Rows : rot[r].done[x] # 0 => rot'[r].pc \in {"write", "undo", "restore"}
      PROVE  PutsBackWhatWasRead(r)'
  BY <1>3 DEF EditInv, PutsBackWhatWasRead, Payload, ReadPin, Live, Keeps, Sends
<1>4. \A x \in Rows : rot[r].done[x] # 0 => rot[r].pc \in {"write", "undo", "restore"}
  BY DEF EditInv, PutsBackWhatWasRead
<1> QED
  BY <1>1, <1>2, <1>3, <1>4

\* Reading, checking, waiting and leaving.
LEMMA RotWaitsEdits ==
    ASSUME TypeOK, TypeOK', EditInv, NEW r \in Rotators,
           \/ RotHold(r) \/ RotEnumerate(r) \/ RotAuth(r) \/ RotLock(r) \/ RotGuard(r)
           \/ RotSnapshot(r) \/ RotFence(r) \/ RotCover(r) \/ RotKeyWrite(r) \/ RotUndo(r)
           \/ RotRestored(r) \/ RotRaise(r) \/ RotTxnBegin(r) \/ RotLower(r) \/ RotRelease(r)
           \/ CrashRot(r)
    PROVE  EditInv' /\ \A x \in Rows : TextKept(x)
<1> SUFFICES row' = row /\ Others(r) /\ Reads(r) /\ PutsBackWhatWasRead(r)'
  BY RotQuietEdits
<1>0. row' = row
  BY DEF RotHold, RotEnumerate, RotAuth, RotLock, RotGuard, RotSnapshot, RotFence, RotCover,
         RotKeyWrite, RotUndo, RotRestored, RotRaise, RotTxnBegin, RotLower, RotRelease, CrashRot
<1> DEFINE Goal == Others(r) /\ Reads(r) /\ PutsBackWhatWasRead(r)'
<1>a. \A x \in Rows : rot[r].done[x] # 0 => rot[r].pc \in {"write", "undo", "restore"}
  BY DEF EditInv, PutsBackWhatWasRead
<1>b. ASSUME rot' = [rot EXCEPT ![r] = IdleRot] PROVE Goal
  BY <1>0, <1>b, RotStops, KeptEdits
<1>c. ASSUME NEW pc \in {"lower", "release"}, RotGoto(r, pc) PROVE Goal
  BY <1>0, <1>c, RotMoves, KeptEdits DEF RotPC
<1>d. ASSUME NEW pc \in {"lock", "guard", "raise", "snap", "txn"}, RotGoto(r, pc),
             rot[r].pc \notin {"write", "undo", "restore"}
      PROVE  Goal
  BY <1>0, <1>d, RotMoves, KeptEdits DEF RotPC
<1>1. CASE RotHold(r)
  BY <1>0, <1>1, RotBegins DEF Reads, PutsBackWhatWasRead
<1>2. CASE RotEnumerate(r)
  <2>1. rot[r].pc = "held"
    BY <1>2 DEF RotEnumerate
  <2> QED
    BY <1>0, <1>2, <1>a, <2>1, RotReads DEF Reads, PutsBackWhatWasRead
<1>3. CASE RotAuth(r)
  <2>1. CASE user.cred = rot[r].cred
    <3>1. rot' = [rot EXCEPT ![r] = [rot[r] EXCEPT !.pc = "lock"]] /\ rot[r].pc = "read"
      BY <1>3, <2>1 DEF RotAuth
    <3>2. RotGoto(r, "lock")
      BY <3>1 DEF RotGoto
    <3> QED
      BY <1>0, <1>d, <3>1, <3>2
  <2>2. CASE user.cred # rot[r].cred
    BY <1>b, <1>3, <2>2 DEF RotAuth, TypeOK
  <2> QED
    BY <2>1, <2>2
<1>4. CASE RotLock(r)
  BY <1>b, <1>d, <1>4 DEF RotLock
<1>5. CASE RotGuard(r)
  BY <1>c, <1>d, <1>5 DEF RotGuard
<1>6. CASE RotSnapshot(r)
  <2>1. CASE RotGoto(r, "release")
    BY <1>0, <1>c, <2>1
  <2>2. CASE /\ rot' = [rot EXCEPT ![r].pc = "fence", ![r].snap = row]
             /\ \A x \in Payload(r) : ReadPin(r, x, row[x])
    <3>1. /\ Others(r) /\ Sends(r) /\ rot'[r].pc = "fence"
          /\ rot'[r].snap = row /\ rot'[r].done = rot[r].done
      BY <2>2, RotSnaps DEF RotPC
    <3>2. \A x \in Rows : rot[r].done[x] = 0
      BY <1>a, <1>6 DEF RotSnapshot
    <3> QED
      BY <1>0, <2>2, <3>1, <3>2 DEF Sends, Reads, PutsBackWhatWasRead, Payload, ReadPin
  <2> QED
    BY <1>6, <2>1, <2>2 DEF RotSnapshot
<1>7. CASE RotFence(r)
  BY <1>0, <1>7, RotMoves, KeptEdits DEF RotFence, RotPC
<1>8. CASE RotCover(r)
  <2>1. CASE RotGoto(r, "write")
    BY <1>0, <1>8, <2>1, RotMoves, KeptEdits DEF RotCover, RotPC
  <2> QED
    BY <1>c, <1>8, <2>1 DEF RotCover
<1>9. CASE RotKeyWrite(r)
  <2>1. CASE RotGoto(r, "undo")
    BY <1>0, <1>9, <2>1, RotMoves, KeptEdits DEF RotKeyWrite, RotPC
  <2> QED
    BY <1>c, <1>9, <2>1 DEF RotKeyWrite
<1>10. CASE RotUndo(r)
  <2>1. CASE RotGoto(r, "restore")
    BY <1>0, <1>10, <2>1, RotMoves, KeptEdits DEF RotUndo, RotPC
  <2> QED
    BY <1>c, <1>10, <2>1 DEF RotUndo
<1>11. CASE RotRestored(r) \/ RotLower(r)
  BY <1>c, <1>11 DEF RotRestored, RotLower
<1>12. CASE RotRaise(r)
  BY <1>d, <1>12 DEF RotRaise
<1>13. CASE RotTxnBegin(r)
  <2>1. /\ Others(r) /\ Sends(r) /\ rot'[r].pc = "commit"
        /\ rot'[r].snap = row /\ rot'[r].done = rot[r].done
    BY <1>13, RotSnaps DEF RotTxnBegin, RotPC
  <2>2. \A x \in Rows : rot[r].done[x] = 0
    BY <1>a, <1>13 DEF RotTxnBegin
  <2> QED
    BY <1>0, <2>1, <2>2 DEF Sends, Reads, PutsBackWhatWasRead
<1>14. CASE RotRelease(r) \/ CrashRot(r)
  BY <1>b, <1>14 DEF RotRelease, CrashRot
<1> QED
  BY <1>0, <1>1, <1>2, <1>3, <1>4, <1>5, <1>6, <1>7, <1>8, <1>9, <1>10, <1>11, <1>12, <1>13, <1>14

\* One row rewritten by the sequential path, or an error.
LEMMA RotWriteEdits ==
    ASSUME TypeOK, TypeOK', EditInv, LockNamesHolder, NEW r \in Rotators, RotWrite(r)
    PROVE  EditInv' /\ \A x \in Rows : TextKept(x)
<1>0. rot[r].pc = "write" /\ lock = r
  BY DEF RotWrite, LockNamesHolder
<1>1. PICK x \in Turn(r) :
        \/ /\ ReadPin(r, x, row[x])
           /\ row' = [row EXCEPT ![x] = Resealed(r, x)]
           /\ rot' = [rot EXCEPT ![r].done[x] = Resealed(r, x).at]
        \/ row' = row /\ RotGoto(r, "undo")
        \/ /\ ReadPin(r, x, row[x])
           /\ row' = [row EXCEPT ![x] = Resealed(r, x)]
           /\ RotGoto(r, "undo")
  BY DEF RotWrite
<1>2. x \in Payload(r) /\ x \in Rows /\ rot[r].done[x] = 0
  BY <1>1 DEF Turn, Pending, Payload
<1>3. CASE row' = row /\ RotGoto(r, "undo")
  <2>1. Keeps(r) /\ rot'[r].pc = "undo" /\ Others(r)
    BY <1>3, RotMoves DEF RotPC
  <2>2. Reads(r) /\ PutsBackWhatWasRead(r)'
    BY <1>0, <1>3, <2>1, KeptEdits
  <2> QED
    BY <1>3, <2>1, <2>2, RotQuietEdits
<1>4. CASE ReadPin(r, x, row[x]) /\ row' = [row EXCEPT ![x] = Resealed(r, x)]
  <2>1. RowsBut(x) /\ ResealedRow(r, x)
    BY <1>2, <1>4, RowEffects
  <2>2. row[x].text = rot[r].seen[x].text
    BY <1>2, <1>4, PinnedText DEF EditInv, Copies
  <2>3. rot[r].snap[x].text = rot[r].seen[x].text
    <3>1. ReadPin(r, x, rot[r].snap[x])
      BY <1>0, <1>2 DEF EditInv, PutsBackWhatWasRead
    <3> QED
      BY <1>2, <3>1, PinnedText DEF EditInv, Copies
  <2>4. ASSUME NEW y \in Rows PROVE TextKept(y)
    BY <2>1, <2>2, RowFields DEF TextKept, RowsBut, ResealedRow
  <2>5. ASSUME NEW y \in Rows PROVE Descends(y, row'[y]) /\ row[y].v <= row'[y].v
    <3>1. CASE y = x
      BY <1>2, <2>1, <3>1, RowDescends DEF EditInv
    <3>2. CASE y # x
      BY <2>1, <3>2, RowDescends DEF EditInv, RowsBut, Plain
    <3> QED
      BY <3>1, <3>2
  <2>6. \A y \in Rows \ {x} : rot[r].done[y] # 0 =>
          /\ rot[r].done[y] <= row'[y].v
          /\ row'[y].at = rot[r].done[y] /\ row'[y].key # 0 /\ rot[r].snap[y].key # 0 =>
              row'[y].text = rot[r].snap[y].text
    BY <2>1 DEF RowsBut, EditInv, PutsBackWhatWasRead, Live
  <2>7. \A y \in Payload(r) : ReadPin(r, y, rot[r].snap[y])
    BY <1>0 DEF EditInv, PutsBackWhatWasRead
  <2>8. CASE RotGoto(r, "undo")
    <3>1. Keeps(r) /\ rot'[r].pc = "undo" /\ Others(r)
      BY <2>8, RotMoves DEF RotPC
    <3>2. PutsBackWhatWasRead(r)'
      BY <1>2, <2>6, <3>1 DEF Keeps, PutsBackWhatWasRead, Live
    <3>3. Reads(r)
      BY <3>1 DEF Keeps, Sends, Reads
    <3> QED
      BY <1>0, <2>4, <2>5, <3>1, <3>2, <3>3, RotStoresEdits
  <2>9. CASE rot' = [rot EXCEPT ![r].done[x] = Resealed(r, x).at]
    <3> DEFINE at == Resealed(r, x).at
    <3>1. at = row'[x].at
      BY <1>2, <1>4 DEF TypeOK
    <3>2. at \in Nat /\ row[x].v \in Nat
      BY <1>2, WrittenTypes, RowFields DEF RowRec
    <3> HIDE DEF at
    <3>3. /\ Others(r) /\ Sends(r) /\ rot'[r].pc = "write" /\ rot'[r].snap = rot[r].snap
          /\ \A y \in Rows : rot'[r].done[y] = IF y = x THEN at ELSE rot[r].done[y]
      BY <1>0, <1>2, <2>9, <3>2, RotMarks DEF at
    <3>4. at <= row'[x].v
      <4>1. rot[r].seen[x].at <= row[x].v /\ rot[r].seen[x].at \in Nat
        BY <1>2, RowFields DEF EditInv, Dated, Copies
      <4> QED
        BY <2>1, <3>1, <3>2, <4>1 DEF ResealedRow
    <3>5. row'[x].text = rot[r].snap[x].text
      BY <2>1, <2>3 DEF ResealedRow
    <3>6. Reads(r)
      BY <3>3 DEF Sends, Reads
    <3>7. \A y \in Rows : rot'[r].done[y] # 0 =>
          /\ rot'[r].done[y] <= row'[y].v
          /\ row'[y].at = rot'[r].done[y] /\ row'[y].key # 0 /\ rot[r].snap[y].key # 0 =>
              row'[y].text = rot[r].snap[y].text
      BY <2>6, <3>3, <3>4, <3>5
    <3>8. PutsBackWhatWasRead(r)'
      BY <2>7, <3>3, <3>7 DEF Sends, PutsBackWhatWasRead, Payload, ReadPin, Live
    <3> QED
      BY <1>0, <2>4, <2>5, <3>3, <3>6, <3>8, RotStoresEdits
  <2> QED
    BY <1>1, <1>3, <1>4, <2>8, <2>9
<1> QED
  BY <1>1, <1>3, <1>4

\* One row put back.
LEMMA RotRestoreEdits ==
    ASSUME TypeOK, TypeOK', EditInv, LockNamesHolder, NEW r \in Rotators, RotRestore(r)
    PROVE  EditInv' /\ \A x \in Rows : TextKept(x)
<1>0. rot[r].pc = "restore" /\ lock = r
  BY DEF RotRestore, LockNamesHolder
<1>1. PICK x \in Rows :
        /\ rot[r].done[x] # 0
        /\ rot' = [rot EXCEPT ![r].done[x] = 0]
        /\ \/ /\ Live(x) /\ (x \in Items => row[x].at = rot[r].done[x])
              /\ row' = [row EXCEPT ![x] = [rot[r].snap[x] EXCEPT !.v = row[x].v + 1]]
           \/ row' = row
  BY DEF RotRestore
<1>2. /\ Others(r) /\ Sends(r) /\ rot'[r].pc = "restore" /\ rot'[r].snap = rot[r].snap
      /\ \A y \in Rows : rot'[r].done[y] = IF y = x THEN 0 ELSE rot[r].done[y]
  BY <1>0, <1>1, RotMarks, ZenonT(40)
<1>3. Reads(r)
  BY <1>2 DEF Sends, Reads
<1>4. RowsBut(x) => PutsBackWhatWasRead(r)'
  <2>1. ASSUME RowsBut(x) PROVE
          \A y \in Rows : rot'[r].done[y] # 0 =>
            /\ rot'[r].done[y] <= row'[y].v
            /\ row'[y].at = rot'[r].done[y] /\ row'[y].key # 0 /\ rot[r].snap[y].key # 0 =>
                row'[y].text = rot[r].snap[y].text
    BY <1>2, <2>1 DEF RowsBut, EditInv, PutsBackWhatWasRead, Live
  <2> QED
    BY <1>2, <2>1 DEF PutsBackWhatWasRead, Live
<1>5. CASE row' = row
  BY <1>2, <1>3, <1>4, <1>5, RotQuietEdits DEF RowsBut
<1>6. CASE /\ Live(x) /\ (x \in Items => row[x].at = rot[r].done[x])
           /\ row' = [row EXCEPT ![x] = [rot[r].snap[x] EXCEPT !.v = row[x].v + 1]]
  <2>1. PutBack(r, x)
    BY <1>1, <1>6, RowEffects
  <2>2. ASSUME NEW y \in Rows PROVE Descends(y, row'[y]) /\ row[y].v <= row'[y].v
    <3>1. CASE y = x
      BY <2>1, <3>1, RowDescends DEF EditInv
    <3>2. CASE y # x
      BY <2>1, <3>2, RowDescends DEF EditInv, PutBack, RowsBut, Plain
    <3> QED
      BY <3>1, <3>2
  <2>3. rot[r].snap[x].key # 0 => row[x].text = rot[r].snap[x].text
    <3>1. CASE x \in Items
      BY <1>1, <1>6, <3>1 DEF EditInv, PutsBackWhatWasRead
    <3>2. CASE x \in Docs
      <4>1. row[x].key # 0 => row[x].text = 1
        BY <3>2 DEF EditInv, Dated, Copies
      <4>2. rot[r].snap[x].key # 0 => rot[r].snap[x].text = 1
        BY <3>2 DEF EditInv, Dated, Copies
      <4> QED
        BY <1>6, <4>1, <4>2 DEF Live
    <3> QED
      BY <3>1, <3>2 DEF Rows
  <2>4. ASSUME NEW y \in Rows PROVE TextKept(y)
    BY <2>1, <2>3, RowFields DEF TextKept, PutBack, RowsBut
  <2> QED
    BY <1>0, <1>2, <1>3, <1>4, <2>1, <2>2, <2>4, RotStoresEdits DEF PutBack
<1> QED
  BY <1>1, <1>5, <1>6

\* The rows a committed transaction stores.
TxnRows(r) ==
    \A x \in Rows : IF x \in Payload(r) THEN ResealedRow(r, x) ELSE row'[x] = row[x]

\* The write of a transaction stores exactly these rows.
LEMMA TxnRowEffects ==
    ASSUME TypeOK, NEW r \in Rotators,
           row' = [x \in Rows |-> IF x \in Payload(r) THEN Resealed(r, x) ELSE row[x]]
    PROVE  TxnRows(r)
<1>1. ASSUME NEW x \in Payload(r) PROVE ResealedRow(r, x)
  <2>1. x \in Rows /\ row'[x] = Resealed(r, x)
    BY DEF Payload
  <2>2. CASE x \in Opened(r)
    BY <2>1, <2>2 DEF Resealed, ResealedRow
  <2>3. CASE x \notin Opened(r)
    <3>1. rot[r].seen[x] \in RowRec
      BY <2>1, FieldTypes
    <3> QED
      BY <2>1, <2>3, <3>1 DEF Resealed, ResealedRow, RowRec
  <2> QED
    BY <2>2, <2>3
<1> QED
  BY <1>1 DEF TxnRows

\* A transaction that commits, aborts or starts over.
LEMMA RotTxnEdits ==
    ASSUME TypeOK, TypeOK', EditInv, LockNamesHolder, NEW r \in Rotators, RotTxnCommit(r)
    PROVE  EditInv' /\ \A x \in Rows : TextKept(x)
<1>0. rot[r].pc = "commit" /\ lock = r
  BY DEF RotTxnCommit, LockNamesHolder
<1>1. \A x \in Rows : rot[r].done[x] = 0
  BY <1>0 DEF EditInv, PutsBackWhatWasRead
<1>2. ASSUME RotGoto(r, "txn") PROVE Others(r) /\ Reads(r) /\ PutsBackWhatWasRead(r)'
  <2>1. Others(r) /\ Keeps(r) /\ rot'[r].pc = "txn"
    BY <1>2, RotMoves DEF RotPC
  <2> QED
    BY <1>1, <2>1 DEF Keeps, Sends, Reads, PutsBackWhatWasRead
<1>3. ASSUME RotGoto(r, "lower") PROVE Others(r) /\ Reads(r) /\ PutsBackWhatWasRead(r)'
  BY <1>3, RotMoves DEF RotPC, Blank, Reads, PutsBackWhatWasRead
<1>4. CASE row' = row
  BY <1>2, <1>3, <1>4, RotQuietEdits DEF RotTxnCommit
<1>5. CASE /\ RotGoto(r, "lower") /\ TxnAccepts(r) /\ \A x \in Payload(r) : row[x] = rot[r].snap[x]
           /\ row' = [x \in Rows |-> IF x \in Payload(r) THEN Resealed(r, x) ELSE row[x]]
  <2>1. TxnRows(r)
    BY <1>5, TxnRowEffects
  <2>2. ASSUME NEW x \in Rows PROVE Descends(x, row'[x]) /\ row[x].v <= row'[x].v
    BY <2>1, RowDescends DEF TxnRows, EditInv, Plain
  <2>3. ASSUME NEW x \in Payload(r) PROVE row[x].text = rot[r].seen[x].text
    <3>1. ReadPin(r, x, rot[r].snap[x]) /\ x \in Rows
      BY <1>5 DEF TxnAccepts, Payload
    <3> QED
      BY <1>5, <3>1, PinnedText DEF EditInv, Copies
  <2>4. ASSUME NEW x \in Rows PROVE TextKept(x)
    BY <2>1, <2>3, RowFields DEF TextKept, TxnRows, ResealedRow
  <2> QED
    BY <1>0, <1>3, <1>5, <2>2, <2>4, RotStoresEdits
<1> QED
  BY <1>4, <1>5 DEF RotTxnCommit

\* No step of a rotation undoes an edit.
LEMMA RotatorEdits ==
    ASSUME TypeOK, TypeOK', EditInv, LockNamesHolder, NEW r \in Rotators, RotStep(r)
    PROVE  EditInv' /\ \A x \in Rows : TextKept(x)
BY RotWaitsEdits, RotWriteEdits, RotRestoreEdits, RotTxnEdits
DEF RotStep, RotSequential, RotTransactional

\* Creates, updates, deletes, imports, restores and completions store new
\* content; the other steps store nothing.
LEMMA OtherEdits ==
    ASSUME TypeOK, TypeOK', EditInv, WritersWriteItems,
           \/ \E w \in Writers : WrStep(w)
           \/ \E x \in Rows : RowDelete(x)
           \/ \E h \in Holders : HoldStep(h)
           \/ \E c \in Changers : PwStep(c)
           \/ LoginDecide \/ LoginLower \/ LoginEnds \/ LockLapses
    PROVE  EditInv' /\ \A x \in Rows : TextKept(x)
<1>1. ASSUME rot' = rot, row' = row PROVE EditInv' /\ \A x \in Rows : TextKept(x)
  BY <1>1, SavedEdits DEF Saved, Plain
<1>2. ASSUME rot' = rot, NEW x \in Rows, Wiped(x) PROVE EditInv' /\ \A y \in Rows : TextKept(y)
  <2>1. \A y \in Rows : Saved(y)
    BY <1>2 DEF Saved, Wiped, RowsBut, Plain
  <2> QED
    BY <1>2, <2>1, SavedEdits
<1>3. ASSUME rot' = rot, NEW x \in Rows, NEW k, SealedAnew(x, k), x \in Docs => row[x].v = 0
      PROVE  EditInv' /\ \A y \in Rows : TextKept(y)
  <2>1. \A y \in Rows : Saved(y)
    BY <1>3 DEF Saved, SealedAnew, RowsBut, Plain
  <2> QED
    BY <1>3, <2>1, SavedEdits
<1>4. ASSUME NEW w \in Writers, WrStep(w) PROVE EditInv' /\ \A y \in Rows : TextKept(y)
  <2>0. rot' = rot /\ wr[w].row \in Rows /\ wr[w].key \in Nat
    BY <1>4, FieldTypes DEF WrStep, WrHold, WrFence, WrVersion, WrInsert, WrConfirm, WrWithdraw,
                            WrWithdrawFails, WrMeasure, WrRecheck, WrWrite
  <2>1. CASE WrInsert(w)
    BY <1>1, <1>3, <2>0, <2>1, RowEffects DEF WrInsert
  <2>2. CASE WrWithdraw(w)
    BY <1>2, <2>0, <2>2, RowEffects DEF WrWithdraw
  <2>3. CASE WrWrite(w)
    <3>1. CASE row' = row
      BY <1>1, <2>0, <3>1
    <3>2. CASE row' = [row EXCEPT ![wr[w].row] = Sealed(wr[w].row, wr[w].key)]
      <4>1. wr[w].row \notin Docs
        BY <2>3, RotationAssumption DEF WrWrite, WritersWriteItems
      <4> QED
        BY <1>3, <2>0, <3>2, <4>1, RowEffects
    <3> QED
      BY <2>3, <3>1, <3>2 DEF WrWrite
  <2> QED
    BY <1>1, <1>4, <2>0, <2>1, <2>2, <2>3
    DEF WrStep, WrHold, WrFence, WrVersion, WrConfirm, WrWithdrawFails, WrMeasure, WrRecheck
<1>5. ASSUME NEW x \in Rows, RowDelete(x) PROVE EditInv' /\ \A y \in Rows : TextKept(y)
  BY <1>2, <1>5, RowEffects DEF RowDelete
<1>6. ASSUME NEW h \in Holders, HoldStep(h) PROVE EditInv' /\ \A y \in Rows : TextKept(y)
  <2>1. CASE HoldWrite(h)
    <3>1. PICK x \in Rows : /\ row[x].v = 0 \/ (x \in Items /\ Live(x))
                            /\ row' = [row EXCEPT ![x] = Sealed(x, hold[h].key)]
      BY <2>1 DEF HoldWrite
    <3>2. SealedAnew(x, hold[h].key)
      BY <3>1, FieldTypes, RowEffects
    <3>3. x \in Docs => row[x].v = 0
      BY <3>1, RotationAssumption
    <3> QED
      BY <1>3, <2>1, <3>2, <3>3 DEF HoldWrite
  <2> QED
    BY <1>1, <1>6, <2>1 DEF HoldStep, HoldBegin, HoldFenceFirst, HoldLock, HoldFence, HoldVersion,
                            HoldRelease, CrashHold
<1>7. ASSUME NEW c \in Changers, PwStep(c) PROVE EditInv' /\ \A y \in Rows : TextKept(y)
  BY <1>1, <1>7 DEF PwStep, PwHold, PwLock, PwGuard, PwWrite, PwRelease, CrashPw
<1>8. CASE LoginDecide \/ LoginLower \/ LoginEnds \/ LockLapses
  BY <1>1, <1>8 DEF LoginDecide, LoginLower, LoginEnds, LockLapses
<1> QED
  BY <1>4, <1>5, <1>6, <1>7, <1>8

----------------------------------------------------------------------------
(* What the requests that create and update change *)

\* A writer that goes on keeps what it sent; one that is done forgets it.
WrOthers(w) == \A u \in Writers \ {w} : wr'[u] = wr[u]
WrSends(w) ==
    wr'[w].row = wr[w].row /\ wr'[w].key = wr[w].key /\ wr'[w].ver = wr[w].ver
WrEnds(w) == wr'[w].pc = "idle" /\ wr'[w].ver = 0 /\ wr'[w].v = 0 /\ wr'[w].row \in Rows

\* The steps of a create or update, field by field.
LEMMA WrMoves ==
    ASSUME TypeOK, NEW w \in Writers
    PROVE  /\ \A pc \in WrPC : WrGoto(w, pc) =>
                WrOthers(w) /\ WrSends(w) /\ wr'[w].pc = pc /\ wr'[w].v = wr[w].v
           /\ wr' = [wr EXCEPT ![w] = IdleWr] => WrOthers(w) /\ WrEnds(w)
           /\ WrHold(w) =>
                /\ WrOthers(w) /\ wr'[w].pc = "fence" /\ wr'[w].row \in Items
                /\ wr'[w].key = user.wrapper.key /\ wr'[w].ver = user.ver /\ wr'[w].v = 0
           /\ wr' = [wr EXCEPT ![w].pc = "recheck", ![w].v = row[wr[w].row].v] =>
                /\ WrOthers(w) /\ WrSends(w) /\ wr'[w].pc = "recheck"
                /\ wr'[w].v = row[wr[w].row].v
<1>0. wr[w] \in WrRec
  BY FieldTypes
<1>1. ASSUME NEW pc \in WrPC, WrGoto(w, pc)
      PROVE  WrOthers(w) /\ WrSends(w) /\ wr'[w].pc = pc /\ wr'[w].v = wr[w].v
  BY <1>0, <1>1 DEF WrGoto, TypeOK, WrRec, WrOthers, WrSends
<1>2. ASSUME wr' = [wr EXCEPT ![w] = IdleWr] PROVE WrOthers(w) /\ WrEnds(w)
  <2>1. wr'[w] = IdleWr /\ WrOthers(w) /\ IdleWr.row \in Rows
    BY <1>2, IdleTypes DEF TypeOK, WrOthers, WrRec
  <2> QED
    BY <2>1 DEF IdleWr, WrEnds
<1>3. ASSUME WrHold(w)
      PROVE  /\ WrOthers(w) /\ wr'[w].pc = "fence" /\ wr'[w].row \in Items
             /\ wr'[w].key = user.wrapper.key /\ wr'[w].ver = user.ver /\ wr'[w].v = 0
  BY <1>3 DEF WrHold, TypeOK, WrOthers
<1>4. ASSUME wr' = [wr EXCEPT ![w].pc = "recheck", ![w].v = row[wr[w].row].v]
      PROVE  /\ WrOthers(w) /\ WrSends(w) /\ wr'[w].pc = "recheck"
             /\ wr'[w].v = row[wr[w].row].v
  <2>1. wr'[w] = [wr[w] EXCEPT !.pc = "recheck", !.v = row[wr[w].row].v] /\ WrOthers(w)
    BY <1>4 DEF TypeOK, WrOthers
  <2> DEFINE Measured(a, n, b) ==
               /\ b.pc = "recheck" /\ b.v = n /\ b.row = a.row /\ b.key = a.key /\ b.ver = a.ver
  <2>2. \A a \in WrRec : \A n, b : b = [a EXCEPT !.pc = "recheck", !.v = n] => Measured(a, n, b)
    BY DEF WrRec
  <2>3. Measured(wr[w], row[wr[w].row].v, wr'[w]) =>
          WrSends(w) /\ wr'[w].pc = "recheck" /\ wr'[w].v = row[wr[w].row].v
    BY DEF WrSends
  <2> HIDE DEF Measured
  <2>4. Measured(wr[w], row[wr[w].row].v, wr'[w])
    BY <1>0, <2>1, <2>2
  <2> QED
    BY <2>1, <2>3, <2>4
<1> QED
  BY <1>1, <1>2, <1>3, <1>4

\* No step makes a create or update name a document.
LEMMA ItemsOnly ==
    ASSUME TypeOK, WritersWriteItems, [Next]_vars
    PROVE  WritersWriteItems'
<1>1. ASSUME NEW w \in Writers, WrStep(w) PROVE WritersWriteItems'
  <2>1. /\ WrOthers(w)
        /\ wr'[w].pc = "idle" \/ wr'[w].row \in Items
           \/ (wr[w].pc # "idle" /\ wr'[w].row = wr[w].row)
    BY <1>1, WrMoves
    DEF WrStep, WrFence, WrVersion, WrInsert, WrConfirm, WrWithdraw, WrWithdrawFails, WrMeasure,
        WrRecheck, WrWrite, WrPC, WrSends, WrEnds
  <2> QED
    BY <2>1 DEF WritersWriteItems, WrOthers
<1>2. CASE wr' = wr
  BY <1>2 DEF WritersWriteItems
<1>3. ASSUME NEW r \in Rotators, RotStep(r) PROVE wr' = wr
  BY <1>3 DEF RotStep, RotSequential, RotTransactional, RotHold, RotEnumerate, RotAuth, RotLock,
     RotGuard, RotSnapshot, RotFence, RotCover, RotWrite, RotKeyWrite, RotUndo, RotRestore,
     RotRestored, RotRaise, RotTxnBegin, RotTxnCommit, RotLower, RotRelease, CrashRot
<1>4. ASSUME NEW h \in Holders, HoldStep(h) PROVE wr' = wr
  BY <1>4 DEF HoldStep, HoldBegin, HoldFenceFirst, HoldLock, HoldFence, HoldVersion, HoldWrite,
              HoldRelease, CrashHold
<1>5. ASSUME NEW c \in Changers, PwStep(c) PROVE wr' = wr
  BY <1>5 DEF PwStep, PwHold, PwLock, PwGuard, PwWrite, PwRelease, CrashPw
<1>6. CASE (\E x \in Rows : RowDelete(x)) \/ LoginDecide \/ LoginLower \/ LoginEnds \/ LockLapses
           \/ UNCHANGED vars
  BY <1>2, <1>6 DEF RowDelete, LoginDecide, LoginLower, LoginEnds, LockLapses, vars
<1> QED
  BY <1>1, <1>2, <1>3, <1>4, <1>5, <1>6 DEF Next

\* The two parts together are inductive, whoever logs in when.
SafeEdits == ExclusionInv /\ WritersWriteItems /\ EditInv

\* Every step keeps exclusion and EditInv, and undoes no edit.
LEMMA SafeEditsStep ==
    ASSUME SafeEdits, [Next]_vars
    PROVE  SafeEdits' /\ \A x \in Rows : TextKept(x)
<1>0. TypeOK /\ EditInv /\ WritersWriteItems /\ LockNamesHolder
  BY DEF SafeEdits, ExclusionInv
<1>1. ExclusionInv' /\ TypeOK'
  BY ExclusionStep DEF SafeEdits, ExclusionInv
<1>2. WritersWriteItems'
  BY <1>0, ItemsOnly
<1>3. EditInv' /\ \A x \in Rows : TextKept(x)
  <2>1. CASE \E r \in Rotators : RotStep(r)
    BY <1>0, <1>1, <2>1, RotatorEdits
  <2>2. CASE UNCHANGED vars
    BY <1>0, <1>1, <2>2, SavedEdits DEF vars, Saved, Plain
  <2> QED
    BY <1>0, <1>1, <2>1, <2>2, OtherEdits DEF Next
<1> QED
  BY <1>1, <1>2, <1>3 DEF SafeEdits

\* The initial states satisfy them.
LEMMA SafeEditsInit == Init => SafeEdits
<1> SUFFICES ASSUME Init PROVE SafeEdits
  OBVIOUS
<1>1. ExclusionInv
  BY InitEstablishes
<1>2. WritersWriteItems
  BY DEF Init, WritersWriteItems, IdleWr
<1>3. \A r \in Rotators :
        /\ rot[r].pc = "idle"
        /\ \A x \in Rows : rot[r].seen[x] = NoRow /\ rot[r].snap[x] = NoRow /\ rot[r].done[x] = 0
  BY DEF Init, IdleRot
<1>4. \A x \in Rows : \A c \in Copies(x) :
        c = NoRow \/ (c = row[x] /\ c = [key |-> 1, v |-> 1, at |-> 1, text |-> 1])
  BY <1>3 DEF Init, Copies
<1>5. Dated
  <2> SUFFICES ASSUME NEW x \in Rows, NEW c \in Copies(x)
               PROVE  /\ c.text <= c.at /\ c.at <= row[x].v
                      /\ c.key # 0 => 1 <= c.at
                      /\ c.key # 0 /\ x \in Docs => c.text = 1
    BY DEF Dated
  <2>1. row[x].v \in Nat
    BY <1>1, FieldTypes DEF ExclusionInv
  <2>2. CASE c = NoRow
    BY <2>1, <2>2 DEF NoRow
  <2>3. CASE c = row[x] /\ c = [key |-> 1, v |-> 1, at |-> 1, text |-> 1]
    BY <2>3
  <2> QED
    BY <1>4, <2>2, <2>3
<1>6. CopiesAgree
  BY <1>4 DEF CopiesAgree, NoRow
<1>7. \A r \in Rotators : PutsBackWhatWasRead(r)
  BY <1>3 DEF PutsBackWhatWasRead
<1> QED
  BY <1>1, <1>2, <1>5, <1>6, <1>7 DEF SafeEdits, EditInv

\* No rotation and no rollback ever replaces the plaintext of a row by an
\* older one, for any rows, requests, crashes and logins.
THEOREM EditsSurviveHolds == Spec => EditsSurvive
<1>1. SafeEdits /\ [Next]_vars => SafeEdits'
  BY SafeEditsStep
<1>2. SafeEdits /\ [Next]_vars =>
        [\A x \in Rows : Live(x) /\ row'[x].key # 0 => row'[x].text >= row[x].text]_vars
  BY SafeEditsStep DEF TextKept
<1> QED
  BY SafeEditsInit, <1>1, <1>2, PTL DEF Spec, EditsSurvive

----------------------------------------------------------------------------
(* Every row opens *)

\* Kept, Unconfirmed and NoWriterAt after a step, of rows and keys named before it.
KnownNext(k) ==
    k \in {0, user'.wrapper.key, user'.pending.key} \cup lost'.asked \cup lost'.carried
ConfirmingNext(x, k) ==
    \E w \in Writers :
        wr'[w].row = x /\ wr'[w].key = k /\ wr'[w].pc \in {"confirm", "withdraw"}
UnconfirmedNext(x, k) == ConfirmingNext(x, k) \/ <<x, k>> \in lost'.rows
KeptNext(x, k) == KnownNext(k) \/ UnconfirmedNext(x, k)
NoWriterNext(x) ==
    \A w \in Writers : wr'[w].pc = "write" /\ wr'[w].row = x => wr'[w].v < row'[x].v
UnfinishedNext(x) == UnconfirmedNext(x, row'[x].key) /\ NoWriterNext(x)

\* The invariants of a rotation and of a row after a step, written out.
LEMMA NextForms ==
    /\ \A r \in Rotators : CoversRows(r)' <=>
         /\ rot'[r].pc = "write" =>
             /\ \A x \in Rows : rot'[r].done[x] # 0 /\ row'[x].key # 0 =>
                 /\ row'[x].key = IF x \in Opened(r)' THEN rot'[r].new.key ELSE rot'[r].seen[x].key
                 /\ NoWriterNext(x)
             /\ \/ \E x \in Rows : /\ rot'[r].seen[x].key # 0 /\ rot'[r].done[x] = 0
                                   /\ row'[x].key = 0
                \/ \A x \in Rows : rot'[r].seen[x].key = 0 /\ row'[x].key # 0 => UnfinishedNext(x)
         /\ rot'[r].pc = "commit" =>
             \A x \in Rows : row'[x].key # 0 /\ rot'[r].snap[x].key = 0 => UnfinishedNext(x)
    /\ \A x \in Rows : KeysKept(x)' <=>
         (row'[x].key # 0 =>
             /\ KeptNext(x, row'[x].key)
             /\ \A r \in Rotators : rot'[r].ver = user'.ver =>
                 KeptNext(x, rot'[r].seen[x].key) /\ KeptNext(x, rot'[r].snap[x].key))
<1>1. ASSUME NEW x \in Rows
      PROVE  KeysKept(x)' <=>
               (row'[x].key # 0 =>
                   /\ KeptNext(x, row'[x].key)
                   /\ \A r \in Rotators : rot'[r].ver = user'.ver =>
                       KeptNext(x, rot'[r].seen[x].key) /\ KeptNext(x, rot'[r].snap[x].key))
  BY DEF KeysKept, Kept, Known, Unconfirmed, Confirming, KeptNext, KnownNext, UnconfirmedNext, ConfirmingNext, Live, Current
<1>2. ASSUME NEW r \in Rotators
      PROVE  CoversRows(r)' <=>
         /\ rot'[r].pc = "write" =>
             /\ \A x \in Rows : rot'[r].done[x] # 0 /\ row'[x].key # 0 =>
                 /\ row'[x].key = IF x \in Opened(r)' THEN rot'[r].new.key ELSE rot'[r].seen[x].key
                 /\ NoWriterNext(x)
             /\ \/ \E x \in Rows : /\ rot'[r].seen[x].key # 0 /\ rot'[r].done[x] = 0
                                   /\ row'[x].key = 0
                \/ \A x \in Rows : rot'[r].seen[x].key = 0 /\ row'[x].key # 0 => UnfinishedNext(x)
         /\ rot'[r].pc = "commit" =>
             \A x \in Rows : row'[x].key # 0 /\ rot'[r].snap[x].key = 0 => UnfinishedNext(x)
  <2>1. \A x \in Rows : Unfinished(x)' <=> UnfinishedNext(x)
    BY DEF Unfinished, Unconfirmed, Confirming, NoWriterAt, UnfinishedNext, UnconfirmedNext, ConfirmingNext, NoWriterNext
  <2>2. \A x \in Rows : Rewritten(r, x)' <=>
          /\ row'[x].key = IF x \in Opened(r)' THEN rot'[r].new.key ELSE rot'[r].seen[x].key
          /\ NoWriterNext(x)
    BY DEF Rewritten, NoWriterAt, NoWriterNext
  <2>3. Payload(r)' = {x \in Rows : rot'[r].seen[x].key # 0}
    BY DEF Payload
  <2>4. Pending(r)' = {x \in Rows : rot'[r].seen[x].key # 0 /\ rot'[r].done[x] = 0}
    BY <2>3 DEF Pending
  <2>5. \A x \in Rows : Live(x)' <=> row'[x].key # 0
    BY DEF Live
  <2>6. CoversRows(r)' <=>
         /\ rot'[r].pc = "write" =>
             /\ \A x \in Rows : rot'[r].done[x] # 0 /\ Live(x)' => Rewritten(r, x)'
             /\ \/ \E x \in Pending(r)' : ~Live(x)'
                \/ \A x \in Rows \ Payload(r)' : Live(x)' => Unfinished(x)'
         /\ rot'[r].pc = "commit" =>
             \A x \in Rows : Live(x)' /\ rot'[r].snap[x].key = 0 => Unfinished(x)'
    BY DEF CoversRows
  <2> QED
    BY <2>1, <2>2, <2>3, <2>4, <2>5, <2>6
<1> QED
  BY <1>1, <1>2

\* The same of the state before.
LEMMA NowForms ==
    /\ \A r \in Rotators : CoversRows(r) <=>
         /\ rot[r].pc = "write" =>
             /\ \A x \in Rows : rot[r].done[x] # 0 /\ row[x].key # 0 => Rewritten(r, x)
             /\ \/ \E x \in Rows : rot[r].seen[x].key # 0 /\ rot[r].done[x] = 0 /\ row[x].key = 0
                \/ \A x \in Rows : rot[r].seen[x].key = 0 /\ row[x].key # 0 => Unfinished(x)
         /\ rot[r].pc = "commit" =>
             \A x \in Rows : row[x].key # 0 /\ rot[r].snap[x].key = 0 => Unfinished(x)
BY DEF CoversRows, Pending, Payload, Live

\* A step that changes no key, no row and no create or update.
SameKeys ==
    /\ user'.wrapper = user.wrapper /\ user'.pending = user.pending /\ user'.ver = user.ver
    /\ lost'.asked = lost.asked /\ lost'.carried = lost.carried /\ lost'.rows = lost.rows

\* Such a step keeps KeyInv if the requests it moves stay current.
LEMMA QuietKeys ==
    ASSUME TypeOK, KeyInv, SameKeys, row' = row, wr' = wr,
           \A h \in Holders : HolderIsCurrent(h)',
           \A c \in Changers : ChangerIsCurrent(c)',
           \A r \in Rotators :
             \/ rot'[r] = rot[r]
             \/ /\ RotatorIsCurrent(r)' /\ GuardStands(r)' /\ CoversRows(r)'
                /\ \A x \in Rows : Live(x) /\ rot'[r].ver = user.ver =>
                     Kept(x, rot'[r].seen[x].key) /\ Kept(x, rot'[r].snap[x].key)
    PROVE  KeyInv'
<1>1. \A w \in Writers : WriterIsCurrent(w)'
  BY DEF KeyInv, WriterIsCurrent, Current, Live, SameKeys
<1>2. \A x, k : Kept(x, k) => KeptNext(x, k)
  BY DEF Kept, Known, Unconfirmed, Confirming, KeptNext, KnownNext, UnconfirmedNext, ConfirmingNext, SameKeys
<1>3. ASSUME NEW r \in Rotators, rot'[r] = rot[r]
      PROVE  /\ RotatorIsCurrent(r)' /\ GuardStands(r)' /\ CoversRows(r)'
             /\ \A x \in Rows : Live(x) /\ rot'[r].ver = user.ver =>
                  Kept(x, rot'[r].seen[x].key) /\ Kept(x, rot'[r].snap[x].key)
  <2>1. RotatorIsCurrent(r)' /\ GuardStands(r)'
    BY <1>3 DEF KeyInv, RotatorIsCurrent, GuardStands, Current, SameKeys
  <2>2. CoversRows(r)'
    BY <1>3 DEF KeyInv, CoversRows, Rewritten, Unfinished, Unconfirmed, Confirming, NoWriterAt, Opened, Pending,
                Payload, Live, SameKeys
  <2> QED
    BY <1>3, <2>1, <2>2 DEF KeyInv, KeysKept, Current
<1>4. ASSUME NEW x \in Rows PROVE KeysKept(x)'
  <2>1. ASSUME row[x].key # 0 PROVE KeptNext(x, row[x].key)
    BY <1>2, <2>1 DEF KeyInv, KeysKept, Live
  <2>2. ASSUME row[x].key # 0, NEW r \in Rotators, rot'[r].ver = user'.ver
        PROVE  KeptNext(x, rot'[r].seen[x].key) /\ KeptNext(x, rot'[r].snap[x].key)
    <3>1. Kept(x, rot'[r].seen[x].key) /\ Kept(x, rot'[r].snap[x].key)
      BY <1>3, <2>2 DEF Live, SameKeys
    <3> QED
      BY <1>2, <3>1
  <2> QED
    BY <2>1, <2>2, NextForms
<1> QED
  BY <1>1, <1>3, <1>4 DEF KeyInv

\* A step of a create or update that stores nothing.
LEMMA WriterQuietKeys ==
    ASSUME TypeOK, KeyInv, FenceCoversRotation, NEW w \in Writers,
           user' = user, row' = row, rot' = rot, hold' = hold, pw' = pw,
           lost'.asked = lost.asked, lost'.carried = lost.carried, lost.rows \subseteq lost'.rows,
           WrOthers(w), WriterIsCurrent(w)',
           wr[w].pc \in {"confirm", "withdraw"} =>
             \/ WrSends(w) /\ wr'[w].pc \in {"confirm", "withdraw"}
             \/ <<wr[w].row, wr[w].key>> \in lost'.rows
             \/ ~user.fence /\ Known(wr[w].key),
           wr'[w].pc = "write" => ~user.fence
    PROVE  KeyInv'
<1>1. \A u \in Writers : WriterIsCurrent(u)'
  BY DEF KeyInv, WriterIsCurrent, Current, Live, WrOthers
<1>2. /\ \A h \in Holders : HolderIsCurrent(h)'
      /\ \A c \in Changers : ChangerIsCurrent(c)'
      /\ \A r \in Rotators : RotatorIsCurrent(r)' /\ GuardStands(r)'
  BY DEF KeyInv, HolderIsCurrent, ChangerIsCurrent, RotatorIsCurrent, GuardStands, Current
<1>3. \A x, k : Kept(x, k) => KeptNext(x, k)
  BY DEF Kept, Known, Unconfirmed, Confirming, KeptNext, KnownNext, UnconfirmedNext, ConfirmingNext, WrOthers, WrSends
<1>4. ASSUME user.fence
      PROVE  \A x \in Rows : /\ \A k : Unconfirmed(x, k) => UnconfirmedNext(x, k)
                             /\ NoWriterAt(x) => NoWriterNext(x)
  BY <1>4 DEF Unconfirmed, Confirming, UnconfirmedNext, ConfirmingNext, NoWriterAt, NoWriterNext, WrOthers, WrSends
<1>5. ASSUME NEW x \in Rows PROVE KeysKept(x)'
  <2>1. row[x].key # 0 =>
          /\ Kept(x, row[x].key)
          /\ \A r \in Rotators : rot[r].ver = user.ver =>
              Kept(x, rot[r].seen[x].key) /\ Kept(x, rot[r].snap[x].key)
    BY DEF KeyInv, KeysKept, Live, Current
  <2> QED
    BY <1>3, <2>1, NextForms
<1>6. ASSUME NEW r \in Rotators PROVE CoversRows(r)'
  <2>1. CASE rot[r].pc \in {"write", "commit"}
    <3>1. user.fence
      BY <2>1 DEF FenceCoversRotation
    <3>2. \A x \in Rows : /\ Unfinished(x) => UnfinishedNext(x)
                          /\ NoWriterAt(x) => NoWriterNext(x)
      BY <1>4, <3>1 DEF Unfinished, UnfinishedNext
    <3>3. Opened(r)' = Opened(r)
      BY DEF Opened, Payload
    <3>4. CoversRows(r)
      BY DEF KeyInv
    <3> QED
      BY <3>2, <3>3, <3>4, NextForms, NowForms DEF Rewritten
  <2>2. CASE rot[r].pc \notin {"write", "commit"}
    BY <2>2, NextForms
  <2> QED
    BY <2>1, <2>2
<1> QED
  BY <1>1, <1>2, <1>5, <1>6 DEF KeyInv

\* A request that is done, or goes on with what it sent, is as current as before.
LEMMA WriterGoesOn ==
    ASSUME TypeOK, TypeOK', KeyInv, NEW w \in Writers, user' = user, row' = row
    PROVE  /\ WrEnds(w) => WriterIsCurrent(w)'
           /\ /\ WrSends(w) /\ wr'[w].v = wr[w].v /\ wr[w].pc # "idle"
              /\ wr'[w].pc \notin {"recheck", "write"}
              => WriterIsCurrent(w)'
<1>1. user.ver \in Nat /\ \A x \in Rows : row[x].v \in Nat
  BY FieldTypes
<1>2. ASSUME WrEnds(w) PROVE WriterIsCurrent(w)'
  BY <1>1, <1>2 DEF WrEnds, WriterIsCurrent
<1>3. ASSUME WrSends(w), wr'[w].v = wr[w].v, wr[w].pc # "idle",
             wr'[w].pc \notin {"recheck", "write"}
      PROVE  WriterIsCurrent(w)'
  BY <1>3 DEF KeyInv, WrSends, WriterIsCurrent, Current
<1> QED
  BY <1>2, <1>3

\* The checks of a create or update, and its writes that miss.
LEMMA WriterChecksKeys ==
    ASSUME TypeOK, TypeOK', KeyInv, Dated, FenceCoversRotation, NEW w \in Writers,
           \/ WrHold(w) \/ WrFence(w) \/ WrVersion(w) \/ WrConfirm(w) \/ WrMeasure(w)
           \/ WrRecheck(w)
           \/ WrInsert(w) /\ row' = row
           \/ WrWrite(w) /\ row' = row
    PROVE  KeyInv'
<1>0. /\ user' = user /\ lost' = lost /\ row' = row /\ rot' = rot /\ hold' = hold
      /\ pw' = pw /\ wr[w].row \in Rows
  BY FieldTypes
  DEF WrHold, WrFence, WrVersion, WrConfirm, WrMeasure, WrRecheck, WrInsert, WrWrite
<1>1. ASSUME wr' = [wr EXCEPT ![w] = IdleWr], wr[w].pc \notin {"confirm", "withdraw"}
      PROVE  KeyInv'
  BY <1>0, <1>1, WrMoves, WriterGoesOn, WriterQuietKeys DEF WrEnds
<1>2. ASSUME NEW pc \in {"version", "insert", "measure"}, WrGoto(w, pc),
             wr[w].pc \notin {"idle", "confirm", "withdraw"}
      PROVE  KeyInv'
  <2>1. WrOthers(w) /\ WrSends(w) /\ wr'[w].pc = pc /\ wr'[w].v = wr[w].v
    BY <1>2, WrMoves DEF WrPC
  <2>2. WriterIsCurrent(w)'
    BY <1>0, <1>2, <2>1, WriterGoesOn
  <2> QED
    BY <1>0, <1>2, <2>1, <2>2, WriterQuietKeys
<1>3. CASE WrHold(w)
  <2>1. /\ WrOthers(w) /\ wr'[w].pc = "fence" /\ wr'[w].row \in Items
        /\ wr'[w].key = user.wrapper.key /\ wr'[w].ver = user.ver /\ wr'[w].v = 0
    BY <1>3, WrMoves
  <2>2. WriterIsCurrent(w)'
    <3>1. user.ver \in Nat /\ row[wr'[w].row].v \in Nat
      BY <2>1, FieldTypes DEF Rows
    <3> QED
      BY <1>0, <2>1, <3>1 DEF WriterIsCurrent
  <2>3. wr[w].pc = "idle"
    BY <1>3 DEF WrHold
  <2> QED
    BY <1>0, <2>1, <2>2, <2>3, WriterQuietKeys
<1>4. CASE WrFence(w)
  BY <1>1, <1>2, <1>4 DEF WrFence
<1>5. CASE WrVersion(w)
  BY <1>1, <1>2, <1>5 DEF WrVersion
<1>6. CASE WrConfirm(w)
  <2>1. CASE ~user.fence /\ Current(wr[w].ver)
    <3>1. WrOthers(w) /\ WrEnds(w)
      BY <1>6, <2>1, WrMoves DEF WrConfirm
    <3>2. WriterIsCurrent(w)'
      BY <1>0, <3>1, WriterGoesOn
    <3>3. Known(wr[w].key)
      BY <1>6, <2>1 DEF WrConfirm, KeyInv, WriterIsCurrent, Known
    <3> QED
      BY <1>0, <2>1, <3>1, <3>2, <3>3, WriterQuietKeys DEF WrEnds
  <2>2. CASE ~(~user.fence /\ Current(wr[w].ver))
    <3>1. WrGoto(w, "withdraw") /\ wr[w].pc = "confirm"
      BY <1>6, <2>2 DEF WrConfirm
    <3>2. WrOthers(w) /\ WrSends(w) /\ wr'[w].pc = "withdraw" /\ wr'[w].v = wr[w].v
      BY <3>1, WrMoves DEF WrPC
    <3>3. WriterIsCurrent(w)'
      BY <1>0, <3>1, <3>2, WriterGoesOn
    <3> QED
      BY <1>0, <3>2, <3>3, WriterQuietKeys
  <2> QED
    BY <2>1, <2>2
<1>7. CASE WrMeasure(w)
  <2>1. CASE Live(wr[w].row)
    <3>1. wr' = [wr EXCEPT ![w].pc = "recheck", ![w].v = row[wr[w].row].v] /\ wr[w].pc = "measure"
      BY <1>7, <2>1 DEF WrMeasure
    <3>2. /\ WrOthers(w) /\ WrSends(w) /\ wr'[w].pc = "recheck"
          /\ wr'[w].v = row[wr[w].row].v
      BY <3>1, WrMoves
    <3>3. 1 <= row[wr[w].row].v
      <4>1. 1 <= row[wr[w].row].at /\ row[wr[w].row].at <= row[wr[w].row].v
        BY <1>0, <2>1 DEF Dated, Copies, Live
      <4> QED
        BY <1>0, <4>1, RowFields
    <3>4. WriterIsCurrent(w)'
      <4>1. row[wr[w].row].v <= row[wr[w].row].v
        BY <1>0, RowFields
      <4> QED
        BY <1>0, <3>1, <3>2, <3>3, <4>1 DEF KeyInv, WrSends, WriterIsCurrent, Current
    <3> QED
      BY <1>0, <3>1, <3>2, <3>4, WriterQuietKeys
  <2>2. CASE ~Live(wr[w].row)
    BY <1>1, <1>7, <2>2 DEF WrMeasure
  <2> QED
    BY <2>1, <2>2
<1>8. CASE WrRecheck(w)
  <2>1. CASE ~user.fence /\ Current(wr[w].ver)
    <3>1. WrGoto(w, "write") /\ wr[w].pc = "recheck"
      BY <1>8, <2>1 DEF WrRecheck
    <3>2. WrOthers(w) /\ WrSends(w) /\ wr'[w].pc = "write" /\ wr'[w].v = wr[w].v
      BY <3>1, WrMoves DEF WrPC
    <3>3. WriterIsCurrent(w)'
      BY <1>0, <2>1, <3>1, <3>2 DEF KeyInv, WrSends, WriterIsCurrent, Current
    <3> QED
      BY <1>0, <2>1, <3>1, <3>2, <3>3, WriterQuietKeys
  <2>2. CASE ~(~user.fence /\ Current(wr[w].ver))
    BY <1>1, <1>8, <2>2 DEF WrRecheck
  <2> QED
    BY <2>1, <2>2
<1>9. CASE WrInsert(w) /\ row' = row
  <2>1. wr' = [wr EXCEPT ![w] = IdleWr] /\ wr[w].pc = "insert"
    <3>1. CASE row[wr[w].row].v = 0
      <4>1. SealedAnew(wr[w].row, wr[w].key)
        BY <1>0, <1>9, <3>1, RowEffects, FieldTypes DEF WrInsert
      <4>2. row'[wr[w].row].v = 1
        BY <3>1, <4>1 DEF SealedAnew
      <4> QED
        BY <1>9, <3>1, <4>2
    <3>2. CASE row[wr[w].row].v # 0
      BY <1>9, <3>2 DEF WrInsert
    <3> QED
      BY <3>1, <3>2
  <2> QED
    BY <1>1, <2>1
<1>10. CASE WrWrite(w) /\ row' = row
  <2>1. wr[w].pc = "write" /\ (wr' = [wr EXCEPT ![w] = IdleWr] \/ WrGoto(w, "measure"))
    BY <1>10 DEF WrWrite
  <2> QED
    BY <1>1, <1>2, <2>1
<1> QED
  BY <1>3, <1>4, <1>5, <1>6, <1>7, <1>8, <1>9, <1>10

\* A row a step leaves alone, deletes, or moves to a higher __v.
Advances(x) ==
    /\ row[x].v <= row'[x].v
    /\ row'[x] = row[x] \/ row'[x].key = 0 \/ row[x].v < row'[x].v

\* A create or update stays current while others advance rows.
LEMMA WriterWaits ==
    ASSUME TypeOK, TypeOK', KeyInv, NEW u \in Writers, wr'[u] = wr[u],
           user'.ver = user.ver, user'.wrapper.key = user.wrapper.key,
           \A x \in Rows : Advances(x)
    PROVE  WriterIsCurrent(u)'
<1> DEFINE x == wr[u].row
<1>1. x \in Rows /\ wr[u].v \in Nat /\ row[x].v \in Nat
  BY FieldTypes, RequestFields
<1>2. row'[x].v \in Nat
  BY <1>1 DEF TypeOK, RowRec
<1>3. /\ wr[u].ver <= user.ver /\ wr[u].v <= row[x].v
      /\ wr[u].pc # "idle" /\ wr[u].ver = user.ver => wr[u].key = user.wrapper.key
      /\ wr[u].pc \in {"recheck", "write"} => 1 <= wr[u].v
      /\ wr[u].pc = "write" /\ row[x].key # 0 /\ row[x].v = wr[u].v => wr[u].ver = user.ver
  BY DEF KeyInv, WriterIsCurrent, Current, Live
<1>4. Advances(x)
  BY <1>1
<1>5. wr[u].v <= row'[x].v
  BY <1>1, <1>2, <1>3, <1>4 DEF Advances
<1>6. wr[u].pc = "write" /\ row'[x].key # 0 /\ row'[x].v = wr[u].v => wr[u].ver = user.ver
  BY <1>1, <1>2, <1>3, <1>4 DEF Advances
<1> QED
  BY <1>3, <1>5, <1>6 DEF WriterIsCurrent, Current, Live

\* A row that never was has no copies.
LEMMA NoCopies ==
    ASSUME TypeOK, Dated, NEW x \in Rows, row[x].v = 0
    PROVE  /\ row[x].key = 0
           /\ \A r \in Rotators : rot[r].seen[x].key = 0 /\ rot[r].snap[x].key = 0
<1>1. \A c \in Copies(x) : c.at \in Nat /\ c.at <= 0 /\ (c.key # 0 => 1 <= c.at)
  BY RowFields DEF Dated, Copies
<1>2. \A c \in Copies(x) : c.key = 0
  BY <1>1
<1> QED
  BY <1>2 DEF Copies

\* What may happen to a row under a rotation that is about to commit.
Untouched(x) ==
    /\ row'[x] = row[x]
    /\ Unconfirmed(x, row[x].key) => UnconfirmedNext(x, row[x].key)
    /\ NoWriterAt(x) => NoWriterNext(x)
Updated(x) == row[x].key # 0 /\ ~NoWriterAt(x)
Created(x) == row[x].v = 0 /\ UnfinishedNext(x)

\* A rotation still covers the rows after any of these.
LEMMA CoversStay ==
    ASSUME TypeOK, EditInv, KeyInv, NEW r \in Rotators, rot'[r] = rot[r],
           \A x \in Rows : Untouched(x) \/ row'[x].key = 0 \/ Updated(x) \/ Created(x)
    PROVE  CoversRows(r)'
<1>1. Opened(r)' = Opened(r)
  BY DEF Opened, Payload
<1>2. ASSUME NEW x \in Rows, Created(x)
      PROVE  row[x].key = 0 /\ rot[r].seen[x].key = 0 /\ rot[r].done[x] = 0
  <2>1. rot[r].done[x] \in Nat /\ (rot[r].done[x] # 0 => rot[r].done[x] <= 0)
    BY <1>2, RowFields DEF Created, EditInv, PutsBackWhatWasRead
  <2> QED
    BY <1>2, <2>1, NoCopies DEF Created, EditInv
<1>3. CoversRows(r)
  BY DEF KeyInv
<1>4. \A x \in Rows : Untouched(x) /\ Unfinished(x) => UnfinishedNext(x)
  BY DEF Untouched, Unfinished, UnfinishedNext
<1>5. \A x \in Rows : Unfinished(x) => NoWriterAt(x)
  BY DEF Unfinished
<1>6. \A x \in Rows : Rewritten(r, x) =>
        /\ NoWriterAt(x)
        /\ row[x].key = IF x \in Opened(r) THEN rot[r].new.key ELSE rot[r].seen[x].key
  BY DEF Rewritten
<1>7. \A x \in Rows : Untouched(x) => row'[x] = row[x] /\ (NoWriterAt(x) => NoWriterNext(x))
  BY DEF Untouched
<1>8. \A x \in Rows : Updated(x) => row[x].key # 0 /\ ~NoWriterAt(x)
  BY DEF Updated
<1>9. \A x \in Rows : Created(x) => UnfinishedNext(x)
  BY DEF Created
<1>10. CASE rot[r].pc = "write"
  <2>1. \A x \in Rows : rot[r].done[x] # 0 /\ row'[x].key # 0 =>
          /\ row'[x].key = IF x \in Opened(r) THEN rot[r].new.key ELSE rot[r].seen[x].key
          /\ NoWriterNext(x)
    BY <1>2, <1>3, <1>6, <1>7, <1>8, <1>10, NowForms
  <2>2. \/ \E x \in Rows : rot[r].seen[x].key # 0 /\ rot[r].done[x] = 0 /\ row'[x].key = 0
        \/ \A x \in Rows : rot[r].seen[x].key = 0 /\ row'[x].key # 0 => UnfinishedNext(x)
    <3>1. CASE \E x \in Rows : rot[r].seen[x].key # 0 /\ rot[r].done[x] = 0 /\ row[x].key = 0
      <4>1. PICK x \in Rows : rot[r].seen[x].key # 0 /\ rot[r].done[x] = 0 /\ row[x].key = 0
        BY <3>1
      <4>2. row'[x].key = 0
        BY <1>2, <1>7, <1>8, <4>1
      <4> QED
        BY <4>1, <4>2
    <3>2. CASE \A x \in Rows : rot[r].seen[x].key = 0 /\ row[x].key # 0 => Unfinished(x)
      BY <1>4, <1>5, <1>7, <1>8, <1>9, <3>2
    <3> QED
      BY <1>3, <1>10, <3>1, <3>2, NowForms
  <2> QED
    BY <1>1, <1>10, <2>1, <2>2, NextForms
<1>11. CASE rot[r].pc = "commit"
  <2>1. \A x \in Rows : row[x].key # 0 /\ rot[r].snap[x].key = 0 => Unfinished(x)
    BY <1>3, <1>11, NowForms
  <2>2. \A x \in Rows : row'[x].key # 0 /\ rot[r].snap[x].key = 0 => UnfinishedNext(x)
    BY <1>4, <1>5, <1>7, <1>8, <1>9, <2>1
  <2> QED
    BY <1>11, <2>2, NextForms
<1> QED
  BY <1>10, <1>11, NextForms

\* A step that changes rows, and no key and no rotation.
LEMMA RowStepKeys ==
    ASSUME TypeOK, KeyInv, Dated,
           user' = user, lost' = lost, rot' = rot, hold' = hold, pw' = pw,
           \A u \in Writers : WriterIsCurrent(u)',
           \A r \in Rotators : CoversRows(r)',
           \A x \in Rows : row'[x].key # 0 =>
              /\ KeptNext(x, row'[x].key)
              /\ \/ row[x].v = 0
                 \/ row[x].key # 0 /\ \A k : Kept(x, k) => KeptNext(x, k)
    PROVE  KeyInv'
<1>1. /\ \A h \in Holders : HolderIsCurrent(h)'
      /\ \A c \in Changers : ChangerIsCurrent(c)'
      /\ \A r \in Rotators : RotatorIsCurrent(r)' /\ GuardStands(r)'
  BY DEF KeyInv, HolderIsCurrent, ChangerIsCurrent, RotatorIsCurrent, GuardStands, Current
<1>2. ASSUME NEW x \in Rows PROVE KeysKept(x)'
  <2>1. ASSUME row'[x].key # 0, NEW r \in Rotators, rot[r].ver = user.ver
        PROVE  KeptNext(x, rot[r].seen[x].key) /\ KeptNext(x, rot[r].snap[x].key)
    <3>1. CASE row[x].v = 0
      <4>1. rot[r].seen[x].key = 0 /\ rot[r].snap[x].key = 0
        BY <3>1, NoCopies
      <4> QED
        BY <4>1 DEF KeptNext, KnownNext
    <3>2. CASE row[x].key # 0 /\ \A k : Kept(x, k) => KeptNext(x, k)
      BY <2>1, <3>2 DEF KeyInv, KeysKept, Live, Current
    <3> QED
      BY <2>1, <3>1, <3>2
  <2> QED
    BY <2>1, NextForms
<1> QED
  BY <1>1, <1>2 DEF KeyInv

\* createItem and createFolder: the row is there before it is confirmed.
LEMMA InsertKeys ==
    ASSUME TypeOK, TypeOK', EditInv, KeyInv, NEW w \in Writers, WrInsert(w), row' # row
    PROVE  KeyInv'
<1> DEFINE x == wr[w].row
<1>1. x \in Rows /\ wr[w].key \in Nat /\ \A y \in Rows : row[y].v \in Nat
  BY FieldTypes
<1>2. /\ row[x].v = 0 /\ wr[w].pc = "insert"
      /\ row' = [row EXCEPT ![x] = Sealed(x, wr[w].key)] /\ WrGoto(w, "confirm")
      /\ user' = user /\ lost' = lost /\ rot' = rot /\ hold' = hold /\ pw' = pw
  BY DEF WrInsert
<1>3. SealedAnew(x, wr[w].key)
  BY <1>1, <1>2, RowEffects
<1>4. WrOthers(w) /\ WrSends(w) /\ wr'[w].pc = "confirm" /\ wr'[w].v = wr[w].v
  BY <1>2, WrMoves DEF WrPC
<1> HIDE DEF x
<1>5. \A y \in Rows : Advances(y)
  <2>1. row'[x].v = row[x].v + 1 /\ \A y \in Rows \ {x} : row'[y] = row[y]
    BY <1>3 DEF SealedAnew, RowsBut
  <2>2. row[x].v < row[x].v + 1 /\ row[x].v <= row[x].v + 1 /\ \A y \in Rows : row[y].v <= row[y].v
    BY <1>1
  <2> QED
    BY <2>1, <2>2 DEF Advances
<1>6. \A u \in Writers : WriterIsCurrent(u)'
  <2>1. \A u \in Writers \ {w} : WriterIsCurrent(u)'
    BY <1>2, <1>4, <1>5, WriterWaits DEF WrOthers
  <2>2. WriterIsCurrent(w)'
    <3>1. /\ wr[w].ver <= user.ver /\ wr[w].v <= row[x].v
          /\ wr[w].ver = user.ver => wr[w].key = user.wrapper.key
      BY <1>2 DEF KeyInv, WriterIsCurrent, Current, x
    <3>2. wr[w].v <= row'[x].v
      BY <1>1, <1>2, <1>3, <3>1, RequestFields DEF SealedAnew
    <3> QED
      BY <1>2, <1>4, <3>1, <3>2 DEF WriterIsCurrent, Current, WrSends, x
  <2> QED
    BY <2>1, <2>2
<1>7. UnconfirmedNext(x, row'[x].key)
  BY <1>3, <1>4 DEF UnconfirmedNext, ConfirmingNext, SealedAnew, WrSends, x
<1>8. NoWriterNext(x)
  <2> SUFFICES ASSUME NEW u \in Writers, wr'[u].pc = "write", wr'[u].row = x PROVE FALSE
    BY DEF NoWriterNext
  <2>1. wr'[u] = wr[u]
    BY <1>4 DEF WrOthers
  <2>2. 1 <= wr[u].v /\ wr[u].v <= row[x].v
    BY <2>1 DEF KeyInv, WriterIsCurrent
  <2> QED
    BY <1>2, <2>2, RequestFields
<1>9. \A y, k : Unconfirmed(y, k) => UnconfirmedNext(y, k)
  BY <1>2, <1>4 DEF Unconfirmed, Confirming, UnconfirmedNext, ConfirmingNext, WrOthers
<1>10. \A y, k : Kept(y, k) => KeptNext(y, k)
  BY <1>2, <1>9 DEF Kept, Known, KeptNext, KnownNext
<1>11. ASSUME NEW y \in Rows PROVE Untouched(y) \/ row'[y].key = 0 \/ Updated(y) \/ Created(y)
  <2>1. CASE y = x
    BY <1>2, <1>7, <1>8, <2>1 DEF Created, UnfinishedNext
  <2>2. CASE y # x
    <3>1. row'[y] = row[y]
      BY <1>3, <2>2 DEF SealedAnew, RowsBut
    <3>2. NoWriterAt(y) => NoWriterNext(y)
      BY <1>4, <3>1 DEF NoWriterAt, NoWriterNext, WrOthers
    <3> QED
      BY <1>9, <3>1, <3>2 DEF Untouched
  <2> QED
    BY <2>1, <2>2
<1>12. \A r \in Rotators : CoversRows(r)'
  BY <1>2, <1>11, CoversStay
<1>13. ASSUME NEW y \in Rows, row'[y].key # 0
       PROVE  /\ KeptNext(y, row'[y].key)
              /\ \/ row[y].v = 0
                 \/ row[y].key # 0 /\ \A k : Kept(y, k) => KeptNext(y, k)
  <2>1. CASE y = x
    BY <1>2, <1>7, <2>1 DEF KeptNext
  <2>2. CASE y # x
    <3>1. row'[y] = row[y]
      BY <1>3, <2>2 DEF SealedAnew, RowsBut
    <3>2. Kept(y, row[y].key)
      BY <1>13, <3>1 DEF KeyInv, KeysKept, Live
    <3> QED
      BY <1>10, <1>13, <3>1, <3>2
  <2> QED
    BY <2>1, <2>2
<1> QED
  BY <1>2, <1>6, <1>12, <1>13, RowStepKeys DEF EditInv

\* withdrawCountedRow and the deletes.
LEMMA WipeKeys ==
    ASSUME TypeOK, TypeOK', EditInv, KeyInv, NEW x \in Rows, Wiped(x),
           user' = user, lost' = lost, rot' = rot, hold' = hold, pw' = pw,
           \A u \in Writers : wr'[u] = wr[u] \/ (wr[u].row = x /\ WrEnds(u))
    PROVE  KeyInv'
<1>1. \A y \in Rows : row[y].v \in Nat
  BY FieldTypes
<1>2. \A y \in Rows : Advances(y)
  BY <1>1 DEF Wiped, RowsBut, Advances
<1>3. ASSUME NEW u \in Writers PROVE WriterIsCurrent(u)'
  <2>1. CASE wr'[u] = wr[u]
    BY <1>2, <2>1, WriterWaits
  <2>2. CASE WrEnds(u)
    <3>1. user'.ver \in Nat /\ row'[wr'[u].row].v \in Nat
      BY <2>2 DEF TypeOK, RowRec, UserRec, WrEnds
    <3> QED
      BY <2>2, <3>1 DEF WrEnds, WriterIsCurrent
  <2> QED
    BY <2>1, <2>2
<1>4. ASSUME NEW y \in Rows \ {x}
      PROVE  /\ row'[y] = row[y]
             /\ \A k : Unconfirmed(y, k) => UnconfirmedNext(y, k)
             /\ NoWriterAt(y) => NoWriterNext(y)
  <2>1. row'[y] = row[y]
    BY DEF Wiped, RowsBut
  <2>2. \A k : Unconfirmed(y, k) => UnconfirmedNext(y, k)
    BY DEF Unconfirmed, Confirming, UnconfirmedNext, ConfirmingNext
  <2>3. NoWriterAt(y) => NoWriterNext(y)
    BY <2>1 DEF NoWriterAt, NoWriterNext, WrEnds
  <2> QED
    BY <2>1, <2>2, <2>3
<1>5. \A y \in Rows : Untouched(y) \/ row'[y].key = 0
  BY <1>4 DEF Untouched, Wiped
<1>6. \A r \in Rotators : CoversRows(r)'
  BY <1>5, CoversStay
<1>7. ASSUME NEW y \in Rows, row'[y].key # 0
      PROVE  /\ KeptNext(y, row'[y].key)
             /\ row[y].key # 0 /\ \A k : Kept(y, k) => KeptNext(y, k)
  <2>1. y \in Rows \ {x}
    BY <1>7 DEF Wiped
  <2>2. \A k : Kept(y, k) => KeptNext(y, k)
    BY <1>4, <2>1 DEF Kept, Known, KeptNext, KnownNext
  <2>3. Kept(y, row[y].key)
    BY <1>4, <1>7, <2>1 DEF KeyInv, KeysKept, Live
  <2> QED
    BY <1>4, <1>7, <2>1, <2>2, <2>3
<1> QED
  BY <1>3, <1>6, <1>7, RowStepKeys DEF EditInv

\* updateItem and updateFolder: the pin matches only while the key is current.
LEMMA UpdateKeys ==
    ASSUME TypeOK, TypeOK', EditInv, KeyInv, NEW w \in Writers, WrWrite(w), row' # row
    PROVE  KeyInv'
<1> DEFINE x == wr[w].row
<1>1. x \in Rows /\ wr[w].key \in Nat /\ \A y \in Rows : row[y].v \in Nat
  BY FieldTypes
<1>2. /\ row[x].key # 0 /\ row[x].v = wr[w].v /\ wr[w].pc = "write"
      /\ row' = [row EXCEPT ![x] = Sealed(x, wr[w].key)] /\ wr' = [wr EXCEPT ![w] = IdleWr]
      /\ user' = user /\ lost' = lost /\ rot' = rot /\ hold' = hold /\ pw' = pw
  BY DEF WrWrite, Live
<1>3. SealedAnew(x, wr[w].key)
  BY <1>1, <1>2, RowEffects
<1>4. WrOthers(w) /\ WrEnds(w)
  BY <1>2, WrMoves
<1>5. wr[w].key = user.wrapper.key
  BY <1>2 DEF KeyInv, WriterIsCurrent, Current, Live
<1>6. ~NoWriterAt(x)
  <2>1. ~(wr[w].v < row[x].v)
    BY <1>1, <1>2
  <2> QED
    BY <1>2, <2>1 DEF NoWriterAt
<1> HIDE DEF x
<1>7. \A y \in Rows : Advances(y)
  <2>1. row'[x].v = row[x].v + 1 /\ \A y \in Rows \ {x} : row'[y] = row[y]
    BY <1>3 DEF SealedAnew, RowsBut
  <2>2. row[x].v < row[x].v + 1 /\ row[x].v <= row[x].v + 1 /\ \A y \in Rows : row[y].v <= row[y].v
    BY <1>1
  <2> QED
    BY <2>1, <2>2 DEF Advances
<1>8. ASSUME NEW u \in Writers PROVE WriterIsCurrent(u)'
  <2>1. CASE u # w
    BY <1>2, <1>4, <1>7, <2>1, WriterWaits DEF WrOthers
  <2>2. CASE u = w
    <3>1. user'.ver \in Nat /\ row'[wr'[w].row].v \in Nat
      BY <1>4 DEF TypeOK, RowRec, UserRec, WrEnds
    <3> QED
      BY <1>4, <2>2, <3>1 DEF WrEnds, WriterIsCurrent
  <2> QED
    BY <2>1, <2>2
<1>9. \A y, k : Unconfirmed(y, k) => UnconfirmedNext(y, k)
  BY <1>2, <1>4 DEF Unconfirmed, Confirming, UnconfirmedNext, ConfirmingNext, WrOthers
<1>10. \A y, k : Kept(y, k) => KeptNext(y, k)
  BY <1>2, <1>9 DEF Kept, Known, KeptNext, KnownNext
<1>11. ASSUME NEW y \in Rows PROVE Untouched(y) \/ row'[y].key = 0 \/ Updated(y) \/ Created(y)
  <2>1. CASE y = x
    BY <1>2, <1>6, <2>1 DEF Updated
  <2>2. CASE y # x
    <3>1. row'[y] = row[y]
      BY <1>3, <2>2 DEF SealedAnew, RowsBut
    <3>2. NoWriterAt(y) => NoWriterNext(y)
      BY <1>4, <3>1 DEF NoWriterAt, NoWriterNext, WrOthers, WrEnds
    <3> QED
      BY <1>9, <3>1, <3>2 DEF Untouched
  <2> QED
    BY <2>1, <2>2
<1>12. \A r \in Rotators : CoversRows(r)'
  BY <1>2, <1>11, CoversStay
<1>13. ASSUME NEW y \in Rows, row'[y].key # 0
       PROVE  /\ KeptNext(y, row'[y].key)
              /\ row[y].key # 0 /\ \A k : Kept(y, k) => KeptNext(y, k)
  <2>1. CASE y = x
    BY <1>2, <1>3, <1>5, <1>10, <2>1 DEF KeptNext, KnownNext, SealedAnew
  <2>2. CASE y # x
    <3>1. row'[y] = row[y]
      BY <1>3, <2>2 DEF SealedAnew, RowsBut
    <3>2. Kept(y, row[y].key)
      BY <1>13, <3>1 DEF KeyInv, KeysKept, Live
    <3> QED
      BY <1>10, <1>13, <3>1, <3>2
  <2> QED
    BY <2>1, <2>2
<1> QED
  BY <1>2, <1>8, <1>12, <1>13, RowStepKeys DEF EditInv

\* Every step of a create or update keeps KeyInv.
LEMMA WriterKeys ==
    ASSUME TypeOK, TypeOK', EditInv, KeyInv, FenceCoversRotation, NEW w \in Writers, WrStep(w)
    PROVE  KeyInv'
<1>1. CASE WrWithdraw(w)
  <2>1. Wiped(wr[w].row) /\ wr[w].row \in Rows
    BY <1>1, RowEffects, FieldTypes DEF WrWithdraw
  <2>2. WrOthers(w) /\ WrEnds(w)
    BY <1>1, WrMoves DEF WrWithdraw
  <2> QED
    BY <1>1, <2>1, <2>2, WipeKeys DEF WrWithdraw, WrOthers
<1>2. CASE WrWithdrawFails(w)
  <2>1. WrOthers(w) /\ WrEnds(w)
    BY <1>2, WrMoves DEF WrWithdrawFails
  <2>2. /\ user' = user /\ row' = row /\ rot' = rot /\ hold' = hold /\ pw' = pw
    BY <1>2 DEF WrWithdrawFails
  <2>3. /\ lost'.asked = lost.asked /\ lost'.carried = lost.carried
        /\ lost.rows \subseteq lost'.rows /\ <<wr[w].row, wr[w].key>> \in lost'.rows
    BY <1>2, LossMoves
  <2>4. WriterIsCurrent(w)'
    BY <2>1, <2>2, WriterGoesOn
  <2> QED
    BY <2>1, <2>2, <2>3, <2>4, WriterQuietKeys DEF WrEnds
<1> QED
  BY <1>1, <1>2, WriterChecksKeys, InsertKeys, UpdateKeys DEF WrStep, EditInv

\* permanentDelete, emptyTrash, the jobs and the purges.
LEMMA DeleteKeys ==
    ASSUME TypeOK, TypeOK', EditInv, KeyInv, NEW x \in Rows, RowDelete(x)
    PROVE  KeyInv'
<1>1. Wiped(x)
  BY RowEffects DEF RowDelete
<1> QED
  BY <1>1, WipeKeys DEF RowDelete

\* The steps of a request that writes under the lock, or of a password change.
HoldOthers(h) == \A g \in Holders \ {h} : hold'[g] = hold[g]
PwOthers(c) == \A b \in Changers \ {c} : pw'[b] = pw[b]

\* The steps of a request under the lock, field by field.
LEMMA HoldMoves ==
    ASSUME TypeOK, NEW h \in Holders
    PROVE  /\ \A pc \in HoldPC : HoldGoto(h, pc) =>
                /\ HoldOthers(h) /\ hold'[h].pc = pc
                /\ hold'[h].key = hold[h].key /\ hold'[h].ver = hold[h].ver
           /\ hold' = [hold EXCEPT ![h] = IdleHold] =>
                HoldOthers(h) /\ hold'[h].pc = "idle" /\ hold'[h].ver = 0
           /\ HoldBegin(h) =>
                /\ HoldOthers(h) /\ hold'[h].pc \in {"fence", "lock"}
                /\ hold'[h].key = user.wrapper.key /\ hold'[h].ver = user.ver
<1>1. ASSUME NEW pc \in HoldPC, HoldGoto(h, pc)
      PROVE  /\ HoldOthers(h) /\ hold'[h].pc = pc
             /\ hold'[h].key = hold[h].key /\ hold'[h].ver = hold[h].ver
  BY <1>1 DEF HoldGoto, TypeOK, HoldRec, HoldOthers
<1>2. ASSUME hold' = [hold EXCEPT ![h] = IdleHold]
      PROVE  HoldOthers(h) /\ hold'[h].pc = "idle" /\ hold'[h].ver = 0
  BY <1>2 DEF IdleHold, TypeOK, HoldOthers
<1>3. ASSUME HoldBegin(h)
      PROVE  /\ HoldOthers(h) /\ hold'[h].pc \in {"fence", "lock"}
             /\ hold'[h].key = user.wrapper.key /\ hold'[h].ver = user.ver
  BY <1>3 DEF HoldBegin, TypeOK, HoldOthers
<1> QED
  BY <1>1, <1>2, <1>3

\* The steps of a password change, field by field.
LEMMA PwMoves ==
    ASSUME TypeOK, NEW c \in Changers
    PROVE  /\ \A pc \in PwPC : PwGoto(c, pc) =>
                /\ PwOthers(c) /\ pw'[c].pc = pc
                /\ pw'[c].key = pw[c].key /\ pw'[c].ver = pw[c].ver
                /\ pw'[c].pending = pw[c].pending
           /\ pw' = [pw EXCEPT ![c] = IdlePw] =>
                PwOthers(c) /\ pw'[c].pc = "idle" /\ pw'[c].ver = 0
           /\ PwHold(c) =>
                /\ PwOthers(c) /\ pw'[c].pc = "lock"
                /\ pw'[c].key = user.wrapper.key /\ pw'[c].ver = user.ver
                /\ pw'[c].pending = user.pending.key
<1>1. ASSUME NEW pc \in PwPC, PwGoto(c, pc)
      PROVE  /\ PwOthers(c) /\ pw'[c].pc = pc
             /\ pw'[c].key = pw[c].key /\ pw'[c].ver = pw[c].ver
             /\ pw'[c].pending = pw[c].pending
  BY <1>1 DEF PwGoto, TypeOK, PwRec, PwOthers
<1>2. ASSUME pw' = [pw EXCEPT ![c] = IdlePw]
      PROVE  PwOthers(c) /\ pw'[c].pc = "idle" /\ pw'[c].ver = 0
  BY <1>2 DEF IdlePw, TypeOK, PwOthers
<1>3. ASSUME PwHold(c)
      PROVE  /\ PwOthers(c) /\ pw'[c].pc = "lock"
             /\ pw'[c].key = user.wrapper.key /\ pw'[c].ver = user.ver
             /\ pw'[c].pending = user.pending.key
  BY <1>3 DEF PwHold, TypeOK, PwOthers
<1> QED
  BY <1>1, <1>2, <1>3

\* importVault, restoreBackup and completeUpload, up to their writes.
LEMMA HoldChecksKeys ==
    ASSUME TypeOK, KeyInv, NEW h \in Holders,
           \/ HoldBegin(h) \/ HoldFenceFirst(h) \/ HoldLock(h) \/ HoldFence(h) \/ HoldVersion(h)
           \/ HoldRelease(h) \/ CrashHold(h)
    PROVE  KeyInv'
<1>0. user' = user /\ row' = row /\ wr' = wr /\ rot' = rot /\ pw' = pw /\ lost' = lost
  BY DEF HoldBegin, HoldFenceFirst, HoldLock, HoldFence, HoldVersion, HoldRelease, CrashHold
<1>1. /\ hold[h].ver <= user.ver
      /\ hold[h].pc # "idle" /\ hold[h].ver = user.ver => hold[h].key = user.wrapper.key
  BY DEF KeyInv, HolderIsCurrent, Current
<1>2. user.ver \in Nat
  BY FieldTypes
<1>3. ASSUME HoldOthers(h), HolderIsCurrent(h)' PROVE KeyInv'
  <2>1. \A g \in Holders : HolderIsCurrent(g)'
    BY <1>0, <1>3 DEF KeyInv, HolderIsCurrent, Current, HoldOthers
  <2>2. \A c \in Changers : ChangerIsCurrent(c)'
    BY <1>0 DEF KeyInv, ChangerIsCurrent, Current
  <2> QED
    BY <1>0, <2>1, <2>2, QuietKeys DEF SameKeys
<1>4. ASSUME hold' = [hold EXCEPT ![h] = IdleHold] PROVE KeyInv'
  <2>1. HoldOthers(h) /\ hold'[h].pc = "idle" /\ hold'[h].ver = 0
    BY <1>4, HoldMoves
  <2> QED
    BY <1>0, <1>2, <1>3, <2>1 DEF HolderIsCurrent
<1>5. ASSUME NEW pc \in HoldPC, HoldGoto(h, pc), hold[h].pc # "idle",
             pc = "write" => Current(hold[h].ver)
      PROVE  KeyInv'
  <2>1. /\ HoldOthers(h) /\ hold'[h].pc = pc
        /\ hold'[h].key = hold[h].key /\ hold'[h].ver = hold[h].ver
    BY <1>5, HoldMoves
  <2>2. HolderIsCurrent(h)'
    BY <1>0, <1>1, <1>5, <2>1 DEF HolderIsCurrent, Current
  <2> QED
    BY <1>3, <2>1, <2>2
<1>6. CASE HoldBegin(h)
  <2>1. /\ HoldOthers(h) /\ hold'[h].pc \in {"fence", "lock"}
        /\ hold'[h].key = user.wrapper.key /\ hold'[h].ver = user.ver
    BY <1>6, HoldMoves
  <2> QED
    BY <1>0, <1>2, <1>3, <2>1 DEF HolderIsCurrent
<1>7. CASE HoldFenceFirst(h)
  BY <1>4, <1>5, <1>7 DEF HoldFenceFirst, HoldPC
<1>8. CASE HoldLock(h)
  <2>1. CASE lock = Free
    <3>1. PICK pc \in {"version", "refence"} : HoldGoto(h, pc)
      BY <1>8, <2>1 DEF HoldLock
    <3> QED
      BY <1>5, <1>8, <3>1 DEF HoldLock, HoldPC
  <2> QED
    BY <1>4, <1>8, <2>1 DEF HoldLock
<1>9. CASE HoldFence(h)
  <2>1. PICK pc \in {"release", "version"} : HoldGoto(h, pc)
    BY <1>9 DEF HoldFence
  <2> QED
    BY <1>5, <1>9, <2>1 DEF HoldFence, HoldPC
<1>10. CASE HoldVersion(h)
  <2>1. PICK pc \in {"release", "write"} : HoldGoto(h, pc) /\ (pc = "write" => Current(hold[h].ver))
    BY <1>10 DEF HoldVersion
  <2> QED
    BY <1>5, <1>10, <2>1 DEF HoldVersion, HoldPC
<1>11. CASE HoldRelease(h) \/ CrashHold(h)
  BY <1>4, <1>11 DEF HoldRelease, CrashHold
<1> QED
  BY <1>6, <1>7, <1>8, <1>9, <1>10, <1>11

\* A write under the lock: no rotation is at its commit, and the key it seals
\* under is the current one.
LEMMA HoldWriteKeys ==
    ASSUME TypeOK, TypeOK', EditInv, KeyInv, LockNamesHolder, NEW h \in Holders, HoldWrite(h)
    PROVE  KeyInv'
<1>0. /\ user' = user /\ wr' = wr /\ rot' = rot /\ pw' = pw /\ lost' = lost
      /\ hold' = hold /\ hold[h].pc = "write" /\ hold[h].key \in Nat
  BY FieldTypes DEF HoldWrite
<1>1. PICK x \in Rows : /\ row[x].v = 0 \/ (x \in Items /\ Live(x))
                        /\ row' = [row EXCEPT ![x] = Sealed(x, hold[h].key)]
  BY DEF HoldWrite
<1>2. SealedAnew(x, hold[h].key)
  BY <1>0, <1>1, RowEffects
<1>3. hold[h].key = user.wrapper.key
  BY <1>0 DEF KeyInv, HolderIsCurrent, Current
<1>4. \A y \in Rows : row[y].v \in Nat
  BY FieldTypes
<1>5. \A y \in Rows : Advances(y)
  <2>1. row'[x].v = row[x].v + 1 /\ \A y \in Rows \ {x} : row'[y] = row[y]
    BY <1>2 DEF SealedAnew, RowsBut
  <2>2. row[x].v < row[x].v + 1 /\ row[x].v <= row[x].v + 1 /\ \A y \in Rows : row[y].v <= row[y].v
    BY <1>4
  <2> QED
    BY <2>1, <2>2 DEF Advances
<1>6. \A u \in Writers : WriterIsCurrent(u)'
  BY <1>0, <1>5, WriterWaits
<1>7. ASSUME NEW r \in Rotators PROVE CoversRows(r)'
  <2>1. lock = h /\ r # h
    BY <1>0, RotationAssumption DEF LockNamesHolder
  <2>2. rot'[r].pc \notin {"write", "commit"}
    BY <1>0, <2>1 DEF LockNamesHolder
  <2> QED
    BY <2>2, NextForms
<1>8. \A y, k : Kept(y, k) => KeptNext(y, k)
  BY <1>0 DEF Kept, Known, Unconfirmed, Confirming, KeptNext, KnownNext, UnconfirmedNext, ConfirmingNext
<1>9. ASSUME NEW y \in Rows, row'[y].key # 0
      PROVE  /\ KeptNext(y, row'[y].key)
             /\ \/ row[y].v = 0
                \/ row[y].key # 0 /\ \A k : Kept(y, k) => KeptNext(y, k)
  <2>1. CASE y = x
    BY <1>0, <1>1, <1>2, <1>3, <1>8, <2>1 DEF KeptNext, KnownNext, SealedAnew, Live
  <2>2. CASE y # x
    <3>1. row'[y] = row[y]
      BY <1>2, <2>2 DEF SealedAnew, RowsBut
    <3>2. Kept(y, row[y].key)
      BY <1>9, <3>1 DEF KeyInv, KeysKept, Live
    <3> QED
      BY <1>8, <1>9, <3>1, <3>2
  <2> QED
    BY <2>1, <2>2
<1> QED
  BY <1>0, <1>6, <1>7, <1>9, RowStepKeys DEF EditInv

\* Every step of an import, restore or completion keeps KeyInv.
LEMMA HolderKeys ==
    ASSUME TypeOK, TypeOK', EditInv, KeyInv, LockNamesHolder, NEW h \in Holders, HoldStep(h)
    PROVE  KeyInv'
BY HoldChecksKeys, HoldWriteKeys DEF HoldStep

\* Login and the lease touch no key.
LEMMA LoginKeys ==
    ASSUME TypeOK, KeyInv, LoginDecide \/ LoginLower \/ LoginEnds \/ LockLapses
    PROVE  KeyInv'
<1>1. row' = row /\ wr' = wr /\ rot' = rot /\ pw' = pw /\ hold' = hold
      /\ lost'.asked = lost.asked /\ lost'.carried = lost.carried /\ lost'.rows = lost.rows
  BY LossMoves DEF LoginDecide, LoginLower, LoginEnds, LockLapses
<1>2. user' = user \/ user' = [user EXCEPT !.fence = FALSE]
  BY DEF LoginDecide, LoginLower, LoginEnds, LockLapses
<1>3. SameKeys
  BY <1>1, <1>2 DEF TypeOK, UserRec, SameKeys
<1>4. /\ \A h \in Holders : HolderIsCurrent(h)'
      /\ \A c \in Changers : ChangerIsCurrent(c)'
  BY <1>1, <1>3 DEF KeyInv, HolderIsCurrent, ChangerIsCurrent, Current, SameKeys
<1> QED
  BY <1>1, <1>3, <1>4, QuietKeys

\* changePassword up to its write.
LEMMA PwChecksKeys ==
    ASSUME TypeOK, KeyInv, NEW c \in Changers,
           PwHold(c) \/ PwLock(c) \/ PwGuard(c) \/ PwRelease(c) \/ CrashPw(c)
    PROVE  KeyInv'
<1>0. /\ user' = user /\ row' = row /\ wr' = wr /\ rot' = rot /\ hold' = hold
      /\ lost' = lost
  BY DEF PwHold, PwLock, PwGuard, PwRelease, CrashPw
<1>1. /\ pw[c].ver <= user.ver
      /\ pw[c].pc # "idle" /\ pw[c].ver = user.ver =>
           pw[c].key = user.wrapper.key
  BY DEF KeyInv, ChangerIsCurrent, Current
<1>2. user.ver \in Nat
  BY FieldTypes
<1>3. ASSUME PwOthers(c), ChangerIsCurrent(c)' PROVE KeyInv'
  <2>1. \A b \in Changers : ChangerIsCurrent(b)'
    BY <1>0, <1>3 DEF KeyInv, ChangerIsCurrent, Current, PwOthers
  <2>2. \A h \in Holders : HolderIsCurrent(h)'
    BY <1>0 DEF KeyInv, HolderIsCurrent, Current
  <2> QED
    BY <1>0, <2>1, <2>2, QuietKeys DEF SameKeys
<1>4. ASSUME pw' = [pw EXCEPT ![c] = IdlePw] PROVE KeyInv'
  <2>1. PwOthers(c) /\ pw'[c].pc = "idle" /\ pw'[c].ver = 0
    BY <1>4, PwMoves
  <2> QED
    BY <1>0, <1>2, <1>3, <2>1 DEF ChangerIsCurrent
<1>5. ASSUME NEW pc \in PwPC, PwGoto(c, pc), pw[c].pc # "idle",
             pc = "write" => user.pending = NoWrapper \/ pw[c].pending # 0
      PROVE  KeyInv'
  <2>1. /\ PwOthers(c) /\ pw'[c].pc = pc /\ pw'[c].key = pw[c].key
        /\ pw'[c].ver = pw[c].ver /\ pw'[c].pending = pw[c].pending
    BY <1>5, PwMoves
  <2>2. ChangerIsCurrent(c)'
    BY <1>0, <1>1, <1>5, <2>1 DEF ChangerIsCurrent, Current
  <2> QED
    BY <1>3, <2>1, <2>2
<1>6. CASE PwHold(c)
  <2>1. /\ PwOthers(c) /\ pw'[c].pc = "lock" /\ pw'[c].key = user.wrapper.key
        /\ pw'[c].ver = user.ver /\ pw'[c].pending = user.pending.key
    BY <1>6, PwMoves
  <2> QED
    BY <1>0, <1>2, <1>3, <2>1 DEF ChangerIsCurrent
<1>7. CASE PwLock(c)
  BY <1>4, <1>5, <1>7 DEF PwLock, PwPC
<1>8. CASE PwGuard(c)
  <2>1. PICK pc \in {"release", "write"} :
          PwGoto(c, pc) /\ (pc = "write" => user.pending = NoWrapper \/ pw[c].pending # 0)
    BY <1>8 DEF PwGuard
  <2> QED
    BY <1>5, <1>8, <2>1 DEF PwGuard, PwPC
<1>9. CASE PwRelease(c) \/ CrashPw(c)
  BY <1>4, <1>9 DEF PwRelease, CrashPw
<1> QED
  BY <1>6, <1>7, <1>8, <1>9

\* The write: both wrappers are sealed anew.  The key does not change; a pending
\* key may, for the one the page had seen, and is then known to be lost.
LEMMA PwWriteKeys ==
    ASSUME TypeOK, KeyInv, LockNamesHolder, NEW c \in Changers, PwWrite(c)
    PROVE  KeyInv'
<1>0. /\ row' = row /\ wr' = wr /\ rot' = rot /\ hold' = hold
      /\ pw[c].pc = "write" /\ lock = c
  BY DEF PwWrite, LockNamesHolder
<1>1. /\ PwOthers(c) /\ pw'[c].pc = "release" /\ pw'[c].key = pw[c].key
      /\ pw'[c].ver = pw[c].ver /\ pw'[c].pending = pw[c].pending
  BY PwMoves DEF PwWrite, PwPC
<1>2. user'.ver = user.ver /\ user'.wrapper.key = user.wrapper.key
  <2>1. CASE Current(pw[c].ver)
    <3> DEFINE cred == user.cred + 1
    <3>1. user' = [user EXCEPT !.cred = cred,
                               !.wrapper = [key |-> pw[c].key, cred |-> cred],
                               !.pending = IF @ = NoWrapper THEN @
                                           ELSE [key |-> pw[c].pending, cred |-> cred]]
      BY <2>1 DEF PwWrite
    <3> HIDE DEF cred
    <3>2. /\ user'.ver = user.ver /\ user'.wrapper = [key |-> pw[c].key, cred |-> cred]
          /\ user'.pending = IF user.pending = NoWrapper THEN user.pending
                             ELSE [key |-> pw[c].pending, cred |-> cred]
      BY <3>1 DEF TypeOK, UserRec
    <3>3. pw[c].key = user.wrapper.key
      BY <1>0, <2>1 DEF KeyInv, ChangerIsCurrent
    <3> QED
      BY <3>2, <3>3
  <2>2. CASE ~Current(pw[c].ver)
    BY <2>2 DEF PwWrite
  <2> QED
    BY <2>1, <2>2
<1>3. \A w \in Writers : WriterIsCurrent(w)'
  BY <1>0, <1>2 DEF KeyInv, WriterIsCurrent, Current, Live
<1>4. \A h \in Holders : HolderIsCurrent(h)'
  BY <1>0, <1>2 DEF KeyInv, HolderIsCurrent, Current
<1>5. ASSUME NEW b \in Changers PROVE ChangerIsCurrent(b)'
  <2>1. /\ pw[b].ver <= user.ver
        /\ pw[b].pc # "idle" /\ pw[b].ver = user.ver =>
             pw[b].key = user.wrapper.key
    BY DEF KeyInv, ChangerIsCurrent, Current
  <2>2. pw'[b].pc # "write"
    BY <1>0, <1>1 DEF LockNamesHolder, PwOthers
  <2>3. /\ pw'[b].ver = pw[b].ver /\ pw'[b].key = pw[b].key /\ pw'[b].pending = pw[b].pending
        /\ pw'[b].pc # "idle" => pw[b].pc # "idle"
    BY <1>0, <1>1 DEF PwOthers
  <2> QED
    BY <1>2, <2>1, <2>2, <2>3 DEF ChangerIsCurrent, Current
<1>6. ASSUME NEW r \in Rotators PROVE RotatorIsCurrent(r)' /\ GuardStands(r)' /\ CoversRows(r)'
  <2>1. rot'[r] = rot[r] /\ rot[r].pc \in {"idle", "held", "read", "lock"}
    BY <1>0, RotationAssumption DEF LockNamesHolder
  <2>2. RotatorIsCurrent(r)'
    BY <1>2, <2>1 DEF KeyInv, RotatorIsCurrent, Current
  <2>3. GuardStands(r)'
    BY <2>1 DEF GuardStands
  <2> QED
    BY <2>1, <2>2, <2>3, NextForms
<1>7. \A x, k : Kept(x, k) => KeptNext(x, k)
  <2>1. /\ lost'.asked = lost.asked /\ lost'.rows = lost.rows
        /\ lost'.carried = IF user'.pending.key = user.pending.key THEN lost.carried
                           ELSE lost.carried \cup {user.pending.key}
    BY LossMoves
  <2>2. \A k : Known(k) => KnownNext(k)
    BY <1>2, <2>1 DEF Known, KnownNext
  <2>3. \A x, k : Unconfirmed(x, k) => UnconfirmedNext(x, k)
    BY <1>0, <2>1 DEF Unconfirmed, Confirming, UnconfirmedNext, ConfirmingNext
  <2> QED
    BY <2>2, <2>3 DEF Kept, KeptNext
<1>8. ASSUME NEW x \in Rows PROVE KeysKept(x)'
  <2>1. row[x].key # 0 =>
          /\ Kept(x, row[x].key)
          /\ \A r \in Rotators : rot[r].ver = user.ver =>
              Kept(x, rot[r].seen[x].key) /\ Kept(x, rot[r].snap[x].key)
    BY DEF KeyInv, KeysKept, Live, Current
  <2> QED
    BY <1>0, <1>2, <1>7, <2>1, NextForms
<1> QED
  BY <1>3, <1>4, <1>5, <1>6, <1>8 DEF KeyInv

\* Every step of a password change keeps KeyInv.
LEMMA ChangerKeys ==
    ASSUME TypeOK, KeyInv, LockNamesHolder, NEW c \in Changers, PwStep(c)
    PROVE  KeyInv'
BY PwChecksKeys, PwWriteKeys DEF PwStep

\* As many ids as rows, and every id a row: every row is named.
LEMMA CoversExactly ==
    ASSUME NEW r \in Rotators, NEW stored, Covers(r, stored),
           \A x \in Payload(r) : stored[x].key # 0
    PROVE  \A x \in Rows : stored[x].key # 0 => x \in Payload(r)
<1> DEFINE I == {x \in Items : stored[x].key # 0}
           D == {x \in Docs : stored[x].key # 0}
<1>1. IsFiniteSet(Items) /\ IsFiniteSet(Docs)
  BY RotationAssumption, FS_Subset DEF Rows
<1>2. IsFiniteSet(I) /\ IsFiniteSet(D)
  <2>1. I \in SUBSET Items /\ D \in SUBSET Docs
    OBVIOUS
  <2> QED
    BY <1>1, <2>1, FS_Subset
<1>3. Payload(r) \cap Items \in SUBSET I /\ Payload(r) \cap Docs \in SUBSET D
  OBVIOUS
<1>4. /\ Cardinality(I) = Cardinality(Payload(r) \cap Items)
      /\ Cardinality(D) = Cardinality(Payload(r) \cap Docs)
  BY DEF Covers, Count
<1> HIDE DEF I, D
<1>5. I = Payload(r) \cap Items /\ D = Payload(r) \cap Docs
  BY <1>2, <1>3, <1>4, FS_Subset
<1> QED
  BY <1>5 DEF I, D, Rows

\* A step of one rotation that changes no key and no row.
StaysCurrent(r) ==
    /\ RotatorIsCurrent(r)' /\ GuardStands(r)' /\ CoversRows(r)'
    /\ \A x \in Rows : Live(x) /\ rot'[r].ver = user.ver =>
         Kept(x, rot'[r].seen[x].key) /\ Kept(x, rot'[r].snap[x].key)

\* Such a step keeps KeyInv if the rotation stays current.
LEMMA RotQuietKeys ==
    ASSUME TypeOK, KeyInv, SameKeys, row' = row, wr' = wr, hold' = hold, pw' = pw,
           NEW r \in Rotators, Others(r), StaysCurrent(r)
    PROVE  KeyInv'
<1>1. /\ \A h \in Holders : HolderIsCurrent(h)'
      /\ \A c \in Changers : ChangerIsCurrent(c)'
  BY DEF KeyInv, HolderIsCurrent, ChangerIsCurrent, Current, SameKeys
<1> QED
  BY <1>1, QuietKeys DEF Others, StaysCurrent

\* A rotation that forgets, or goes on, as the guard lets it.
LEMMA RotGoesOn ==
    ASSUME TypeOK, KeyInv, SameKeys, NEW r \in Rotators
    PROVE  /\ Blank(r) => StaysCurrent(r)
           /\ /\ Keeps(r) /\ rot[r].pc \notin {"idle", "lower", "release"}
              /\ GuardStands(r)' /\ CoversRows(r)'
              => StaysCurrent(r)
           /\ /\ Keeps(r) /\ rot[r].pc \notin {"idle", "lower", "release"}
              /\ GuardStands(r)' /\ rot'[r].pc \notin {"write", "commit"}
              => StaysCurrent(r)
<1>1. user.ver \in Nat
  BY FieldTypes
<1>2. ASSUME Blank(r) PROVE StaysCurrent(r)
  <2>1. RotatorIsCurrent(r)' /\ GuardStands(r)'
    BY <1>1, <1>2 DEF Blank, RotatorIsCurrent, GuardStands, SameKeys
  <2>2. CoversRows(r)'
    BY <1>2, NextForms DEF Blank
  <2>3. \A x \in Rows : Kept(x, rot'[r].seen[x].key) /\ Kept(x, rot'[r].snap[x].key)
    BY <1>2 DEF Blank, NoRow, Kept, Known
  <2> QED
    BY <2>1, <2>2, <2>3 DEF StaysCurrent
<1>3. ASSUME Keeps(r), rot[r].pc \notin {"idle", "lower", "release"}, GuardStands(r)', CoversRows(r)'
      PROVE  StaysCurrent(r)
  <2>1. RotatorIsCurrent(r)'
    BY <1>3 DEF Keeps, Sends, KeyInv, RotatorIsCurrent, Current, SameKeys
  <2>2. \A x \in Rows : Live(x) /\ rot'[r].ver = user.ver =>
          Kept(x, rot'[r].seen[x].key) /\ Kept(x, rot'[r].snap[x].key)
    BY <1>3 DEF Keeps, Sends, KeyInv, KeysKept, Current
  <2> QED
    BY <1>3, <2>1, <2>2 DEF StaysCurrent
<1>4. rot'[r].pc \notin {"write", "commit"} => CoversRows(r)'
  BY NextForms
<1> QED
  BY <1>2, <1>3, <1>4

\* Reading, checking, waiting and leaving.
LEMMA RotWaitsKeys ==
    ASSUME TypeOK, TypeOK', EditInv, KeyInv, NEW r \in Rotators,
           \/ RotHold(r) \/ RotEnumerate(r) \/ RotAuth(r) \/ RotLock(r) \/ RotGuard(r)
           \/ RotSnapshot(r) \/ RotCover(r) \/ RotUndo(r) \/ RotRestored(r)
           \/ RotRaise(r) \/ RotTxnBegin(r) \/ RotLower(r) \/ RotRelease(r) \/ CrashRot(r)
    PROVE  KeyInv'
<1>0. row' = row /\ wr' = wr /\ hold' = hold /\ pw' = pw /\ SameKeys
  <2>1. /\ row' = row /\ wr' = wr /\ hold' = hold /\ pw' = pw /\ lost' = lost
        /\ \/ user' = user \/ user' = [user EXCEPT !.fence = FALSE]
           \/ user' = [user EXCEPT !.fence = TRUE]
    BY DEF RotHold, RotEnumerate, RotAuth, RotLock, RotGuard, RotSnapshot, RotCover,
           RotUndo, RotRestored, RotRaise, RotTxnBegin, RotLower, RotRelease, CrashRot
  <2> QED
    BY <2>1 DEF TypeOK, UserRec, SameKeys
<1> DEFINE Goal == Others(r) /\ StaysCurrent(r)
<1> SUFFICES Goal
  BY <1>0, RotQuietKeys
<1>a. /\ user.ver \in Nat
      /\ \A x \in Rows : rot[r].done[x] # 0 => rot[r].pc \in {"write", "undo", "restore"}
      /\ \A x \in Rows : Live(x) => Kept(x, row[x].key)
      /\ \A x \in Rows : Kept(x, 0)
  BY FieldTypes DEF EditInv, PutsBackWhatWasRead, KeyInv, KeysKept, Kept, Known
<1>b. ASSUME rot' = [rot EXCEPT ![r] = IdleRot] PROVE Goal
  BY <1>0, <1>b, RotStops, RotGoesOn
<1>c. ASSUME NEW pc \in {"lower", "release"}, RotGoto(r, pc) PROVE Goal
  BY <1>0, <1>c, RotMoves, RotGoesOn DEF RotPC
<1>d. ASSUME NEW pc \in {"lock", "guard"}, RotGoto(r, pc), rot[r].pc \in {"read", "lock"}
      PROVE  Goal
  <2>1. Others(r) /\ Keeps(r) /\ rot'[r].pc = pc
    BY <1>d, RotMoves DEF RotPC
  <2>2. GuardStands(r)'
    BY <1>d, <2>1 DEF GuardStands
  <2> QED
    BY <1>0, <1>d, <2>1, <2>2, RotGoesOn
<1>g. /\ Sends(r) /\ rot'[r].pc \in {"raise", "txn", "commit", "snap", "fence"}
      /\ Current(rot[r].ver) /\ (rot[r].mode = "reseal" => user.wrapper = rot[r].new)
      /\ rot[r].mode # "discard" => user.pending \in {NoWrapper, rot[r].new}
      => GuardStands(r)'
  BY <1>0 DEF GuardStands, Current, SameKeys, Sends
<1>h. ASSUME Sends(r), rot[r].pc \in {"snap", "txn"}, rot'[r].pc \in {"fence", "commit"},
             rot'[r].snap = row, Others(r)
      PROVE  Goal
  <2>1. RotatorIsCurrent(r)'
    BY <1>0, <1>h DEF Sends, KeyInv, RotatorIsCurrent, Current, SameKeys
  <2>2. GuardStands(r)'
    BY <1>g, <1>h DEF KeyInv, GuardStands
  <2>3. CoversRows(r)'
    BY <1>0, <1>h, NextForms
  <2>4. \A x \in Rows : Live(x) /\ rot'[r].ver = user.ver =>
          Kept(x, rot'[r].seen[x].key) /\ Kept(x, rot'[r].snap[x].key)
    BY <1>a, <1>h DEF Sends, KeyInv, KeysKept, Current
  <2> QED
    BY <1>h, <2>1, <2>2, <2>3, <2>4 DEF StaysCurrent
<1>1. CASE RotHold(r)
  <2>1. /\ Others(r) /\ rot'[r].pc = "held" /\ rot'[r].mode \in Modes
        /\ rot'[r].held = user.wrapper.key /\ rot'[r].ver = user.ver
        /\ \A x \in Rows : rot'[r].seen[x] = NoRow /\ rot'[r].snap[x] = NoRow
    BY <1>1, RotBegins
  <2>2. RotatorIsCurrent(r)' /\ GuardStands(r)'
    BY <1>0, <1>a, <2>1 DEF RotatorIsCurrent, GuardStands, SameKeys
  <2>3. CoversRows(r)'
    BY <2>1, NextForms
  <2>4. \A x \in Rows : Kept(x, rot'[r].seen[x].key) /\ Kept(x, rot'[r].snap[x].key)
    BY <1>a, <2>1 DEF NoRow
  <2> QED
    BY <2>1, <2>2, <2>3, <2>4 DEF StaysCurrent
<1>2. CASE RotEnumerate(r)
  <2>1. /\ Others(r) /\ rot'[r].pc = "read"
        /\ rot'[r].mode = rot[r].mode /\ rot'[r].held = rot[r].held
        /\ rot'[r].ver = rot[r].ver /\ rot'[r].snap = rot[r].snap
        /\ \A x \in Rows : rot'[r].seen[x] = IF Live(x) THEN row[x] ELSE NoRow
    BY <1>2, RotReads
  <2>2. rot[r].pc = "held"
    BY <1>2 DEF RotEnumerate
  <2>3. RotatorIsCurrent(r)' /\ GuardStands(r)'
    BY <1>0, <2>1, <2>2 DEF RotatorIsCurrent, GuardStands, SameKeys, KeyInv, Current
  <2>4. CoversRows(r)'
    BY <2>1, NextForms
  <2>5. \A x \in Rows : Live(x) /\ rot'[r].ver = user.ver =>
          Kept(x, rot'[r].seen[x].key) /\ Kept(x, rot'[r].snap[x].key)
    BY <1>a, <2>1 DEF KeyInv, KeysKept, Current
  <2> QED
    BY <2>1, <2>3, <2>4, <2>5 DEF StaysCurrent
<1>3. CASE RotAuth(r)
  <2>1. CASE user.cred = rot[r].cred
    <3>1. rot' = [rot EXCEPT ![r] = [rot[r] EXCEPT !.pc = "lock"]] /\ rot[r].pc = "read"
      BY <1>3, <2>1 DEF RotAuth
    <3>2. RotGoto(r, "lock")
      BY <3>1 DEF RotGoto
    <3> QED
      BY <1>d, <3>1, <3>2
  <2>2. CASE user.cred # rot[r].cred
    BY <1>b, <1>3, <2>2 DEF RotAuth, TypeOK
  <2> QED
    BY <2>1, <2>2
<1>4. CASE RotLock(r)
  BY <1>b, <1>d, <1>4 DEF RotLock
<1>5. CASE RotGuard(r)
  <2>1. CASE \E pc \in {"raise", "snap"} :
               /\ RotGoto(r, pc) /\ Current(rot[r].ver)
               /\ rot[r].mode = "reseal" => user.wrapper = rot[r].new
               /\ user.pending \in {NoWrapper, rot[r].new} \/ rot[r].mode = "discard"
    <3>1. PICK pc \in {"raise", "snap"} : RotGoto(r, pc)
      BY <2>1
    <3>2. Others(r) /\ Keeps(r) /\ rot'[r].pc = pc
      BY <3>1, RotMoves DEF RotPC
    <3>3. GuardStands(r)'
      BY <1>g, <2>1, <3>2 DEF Keeps
    <3>4. rot[r].pc = "guard"
      BY <1>5 DEF RotGuard
    <3> QED
      BY <1>0, <3>2, <3>3, <3>4, RotGoesOn
  <2> QED
    BY <1>c, <1>5, <2>1 DEF RotGuard
<1>6. CASE RotSnapshot(r)
  <2>1. CASE RotGoto(r, "release")
    BY <1>c, <2>1
  <2>2. CASE rot' = [rot EXCEPT ![r].pc = "fence", ![r].snap = row]
    <3>1. Others(r) /\ Sends(r) /\ rot'[r].pc = "fence" /\ rot'[r].snap = row
      BY <2>2, RotSnaps DEF RotPC
    <3> QED
      BY <1>h, <1>6, <3>1 DEF RotSnapshot
  <2> QED
    BY <1>6, <2>1, <2>2 DEF RotSnapshot
<1>7. CASE RotCover(r)
  <2>1. CASE RotGoto(r, "write") /\ Covers(r, row)
    <3>1. Others(r) /\ Keeps(r) /\ rot'[r].pc = "write" /\ rot[r].pc = "cover"
      BY <1>7, <2>1, RotMoves DEF RotCover, RotPC
    <3>2. GuardStands(r)'
      BY <1>0, <3>1 DEF KeyInv, GuardStands, Current, SameKeys, Keeps, Sends
    <3>3. \A x \in Rows : rot'[r].done[x] = 0 /\ rot'[r].seen[x].key = rot[r].seen[x].key
      BY <1>a, <3>1 DEF Keeps, Sends
    <3>4. CASE \E x \in Rows : rot[r].seen[x].key # 0 /\ row[x].key = 0
      <4>1. CoversRows(r)'
        BY <1>0, <3>1, <3>3, <3>4, NextForms
      <4> QED
        BY <1>0, <3>1, <3>2, <4>1, RotGoesOn
    <3>5. CASE \A x \in Rows : rot[r].seen[x].key # 0 => row[x].key # 0
      <4>1. \A x \in Rows : row[x].key # 0 => rot[r].seen[x].key # 0
        BY <2>1, <3>5, CoversExactly DEF Payload
      <4>2. CoversRows(r)'
        BY <1>0, <3>1, <3>3, <4>1, NextForms
      <4> QED
        BY <1>0, <3>1, <3>2, <4>2, RotGoesOn
    <3> QED
      BY <3>4, <3>5
  <2> QED
    BY <1>c, <1>7, <2>1 DEF RotCover
<1>8. CASE RotUndo(r)
  <2>1. CASE RotGoto(r, "restore") /\ rot[r].mode # "reseal" /\ user.wrapper # rot[r].new
    <3>1. Others(r) /\ Keeps(r) /\ rot'[r].pc = "restore" /\ rot[r].pc = "undo"
      BY <1>8, <2>1, RotMoves DEF RotUndo, RotPC
    <3>2. Current(rot[r].ver)
      BY <2>1, <3>1 DEF KeyInv, GuardStands
    <3>3. GuardStands(r)'
      BY <1>0, <3>1, <3>2 DEF GuardStands, Current, SameKeys, Keeps, Sends
    <3> QED
      BY <1>0, <3>1, <3>3, RotGoesOn
  <2> QED
    BY <1>c, <1>8, <2>1 DEF RotUndo
<1>9. CASE RotRestored(r) \/ RotLower(r)
  BY <1>c, <1>9 DEF RotRestored, RotLower
<1>10. CASE RotRaise(r)
  <2>1. Others(r) /\ Keeps(r) /\ rot'[r].pc = "txn" /\ rot[r].pc = "raise"
    BY <1>10, RotMoves DEF RotRaise, RotPC
  <2>2. GuardStands(r)'
    BY <1>g, <2>1 DEF KeyInv, GuardStands, Keeps
  <2> QED
    BY <1>0, <2>1, <2>2, RotGoesOn
<1>11. CASE RotTxnBegin(r)
  <2>1. Others(r) /\ Sends(r) /\ rot'[r].pc = "commit" /\ rot'[r].snap = row
    BY <1>11, RotSnaps DEF RotTxnBegin, RotPC
  <2> QED
    BY <1>h, <1>11, <2>1 DEF RotTxnBegin
<1>12. CASE RotRelease(r) \/ CrashRot(r)
  BY <1>b, <1>12 DEF RotRelease, CrashRot
<1> QED
  BY <1>1, <1>2, <1>3, <1>4, <1>5, <1>6, <1>7, <1>8, <1>9, <1>10, <1>11, <1>12

\* Nobody else is inside while a rotation has the lock.
LEMMA RotatorAlone ==
    ASSUME LockNamesHolder, NEW r \in Rotators, lock = r
    PROVE  /\ \A h \in Holders : hold[h].pc # "write"
           /\ \A c \in Changers : pw[c].pc # "write"
           /\ \A q \in Rotators \ {r} : rot[q].pc \notin
                {"raise", "txn", "commit", "snap", "fence", "cover", "write", "undo", "restore"}
BY RotationAssumption DEF LockNamesHolder

\* The fence and the pending wrapper: the one it replaces is the same, or
\* abandoned by name.
LEMMA RotFenceKeys ==
    ASSUME TypeOK, KeyInv, LockNamesHolder, NEW r \in Rotators, RotFence(r)
    PROVE  KeyInv'
<1>0. /\ row' = row /\ wr' = wr /\ hold' = hold /\ pw' = pw
      /\ rot[r].pc = "fence" /\ lock = r
  BY DEF RotFence, LockNamesHolder
<1>1. Others(r) /\ Keeps(r) /\ rot'[r].pc = "cover"
  BY RotMoves DEF RotFence, RotPC
<1>2. /\ user'.wrapper = user.wrapper /\ user'.ver = user.ver
      /\ user'.pending = IF rot[r].mode = "reseal" THEN user.pending ELSE rot[r].new
  <2>1. CASE rot[r].mode = "reseal"
    BY <2>1 DEF RotFence, TypeOK, UserRec
  <2>2. CASE rot[r].mode # "reseal"
    <3>1. user' = [user EXCEPT !.fence = TRUE, !.pending = rot[r].new]
      BY <2>2 DEF RotFence
    <3> QED
      BY <2>2, <3>1 DEF TypeOK, UserRec
  <2> QED
    BY <2>1, <2>2
<1>3. /\ Current(rot[r].ver)
      /\ rot[r].mode = "reseal" => user.wrapper = rot[r].new
      /\ rot[r].mode # "discard" => user.pending \in {NoWrapper, rot[r].new}
  BY <1>0 DEF KeyInv, GuardStands
<1>4. /\ lost'.rows = lost.rows /\ lost'.carried = lost.carried /\ lost.asked \subseteq lost'.asked
      /\ rot[r].mode = "discard" => user.pending = NoWrapper \/ user.pending.key \in lost'.asked
  BY LossMoves
<1>5. \A k : Known(k) => KnownNext(k)
  <2>1. KnownNext(user.pending.key)
    BY <1>2, <1>3, <1>4 DEF KnownNext, NoWrapper
  <2> QED
    BY <1>2, <1>4, <2>1 DEF Known, KnownNext
<1>6. \A x, k : Kept(x, k) => KeptNext(x, k)
  BY <1>0, <1>4, <1>5 DEF Kept, KeptNext, Unconfirmed, Confirming, UnconfirmedNext, ConfirmingNext
<1>7. \A w \in Writers : WriterIsCurrent(w)'
  BY <1>0, <1>2 DEF KeyInv, WriterIsCurrent, Current, Live
<1>8. \A h \in Holders : HolderIsCurrent(h)'
  BY <1>0, <1>2 DEF KeyInv, HolderIsCurrent, Current
<1>9. ASSUME NEW c \in Changers PROVE ChangerIsCurrent(c)'
  <2>1. /\ pw[c].ver <= user.ver
        /\ pw[c].pc # "idle" /\ pw[c].ver = user.ver =>
             pw[c].key = user.wrapper.key
    BY DEF KeyInv, ChangerIsCurrent, Current
  <2>2. pw[c].pc # "write"
    BY <1>0, RotatorAlone
  <2>3. pw'[c] = pw[c]
    BY <1>0
  <2> QED
    BY <1>2, <2>1, <2>2, <2>3 DEF ChangerIsCurrent, Current
<1>10. ASSUME NEW q \in Rotators PROVE RotatorIsCurrent(q)' /\ GuardStands(q)' /\ CoversRows(q)'
  <2>1. CASE q = r
    <3>1. RotatorIsCurrent(r)'
      BY <1>0, <1>1, <1>2 DEF KeyInv, RotatorIsCurrent, Current, Keeps, Sends
    <3>2. GuardStands(r)'
      BY <1>1, <1>2, <1>3 DEF GuardStands, Current, Keeps, Sends
    <3>3. CoversRows(r)'
      BY <1>1, NextForms
    <3> QED
      BY <2>1, <3>1, <3>2, <3>3
  <2>2. CASE q # r
    <3>1. rot'[q] = rot[q] /\ rot[q].pc \notin
            {"raise", "txn", "commit", "snap", "fence", "cover", "write", "undo", "restore"}
      BY <1>0, <1>1, <2>2, RotatorAlone DEF Others
    <3>2. RotatorIsCurrent(q)'
      BY <1>2, <3>1 DEF KeyInv, RotatorIsCurrent, Current
    <3> QED
      BY <3>1, <3>2, NextForms DEF GuardStands
  <2> QED
    BY <2>1, <2>2
<1>11. ASSUME NEW x \in Rows PROVE KeysKept(x)'
  <2>1. row[x].key # 0 =>
          /\ Kept(x, row[x].key)
          /\ \A q \in Rotators : rot[q].ver = user.ver =>
              Kept(x, rot[q].seen[x].key) /\ Kept(x, rot[q].snap[x].key)
    BY DEF KeyInv, KeysKept, Live, Current
  <2>2. \A q \in Rotators : /\ rot'[q].ver = rot[q].ver /\ rot'[q].seen = rot[q].seen
                            /\ rot'[q].snap = rot[q].snap
    BY <1>1 DEF Others, Keeps, Sends
  <2> QED
    BY <1>0, <1>2, <1>6, <2>1, <2>2, NextForms
<1> QED
  BY <1>7, <1>8, <1>9, <1>10, <1>11 DEF KeyInv

\* A row the sequential path stores or puts back.
LEMMA RotStoreKeys ==
    ASSUME TypeOK, TypeOK', KeyInv, LockNamesHolder, NEW r \in Rotators, lock = r,
           user' = user, lost' = lost, wr' = wr, hold' = hold, pw' = pw,
           Others(r), Sends(r), rot'[r].snap = rot[r].snap, rot[r].pc \in {"write", "restore"},
           NEW x \in Rows, Live(x), RowsBut(x), row'[x].v = row[x].v + 1, Kept(x, row'[x].key),
           GuardStands(r)', CoversRows(r)'
    PROVE  KeyInv'
<1>1. \A y \in Rows : row[y].v \in Nat
  BY FieldTypes
<1>2. \A y \in Rows : Advances(y)
  <2>1. row[x].v < row[x].v + 1 /\ row[x].v <= row[x].v + 1 /\ \A y \in Rows : row[y].v <= row[y].v
    BY <1>1
  <2> QED
    BY <2>1 DEF RowsBut, Advances
<1>3. \A w \in Writers : WriterIsCurrent(w)'
  BY <1>2, WriterWaits
<1>4. /\ \A h \in Holders : HolderIsCurrent(h)'
      /\ \A c \in Changers : ChangerIsCurrent(c)'
  BY DEF KeyInv, HolderIsCurrent, ChangerIsCurrent, Current
<1>5. ASSUME NEW q \in Rotators PROVE RotatorIsCurrent(q)' /\ GuardStands(q)' /\ CoversRows(q)'
  <2>1. CASE q = r
    BY <2>1 DEF KeyInv, RotatorIsCurrent, Current, Sends
  <2>2. CASE q # r
    <3>1. rot'[q] = rot[q] /\ rot[q].pc \notin
            {"raise", "txn", "commit", "snap", "fence", "cover", "write", "undo", "restore"}
      BY <2>2, RotatorAlone DEF Others
    <3>2. RotatorIsCurrent(q)'
      BY <3>1 DEF KeyInv, RotatorIsCurrent, Current
    <3> QED
      BY <3>1, <3>2, NextForms DEF GuardStands
  <2> QED
    BY <2>1, <2>2
<1>6. \A y, k : Kept(y, k) => KeptNext(y, k)
  BY DEF Kept, Known, KeptNext, KnownNext, Unconfirmed, Confirming, UnconfirmedNext, ConfirmingNext
<1>7. ASSUME NEW y \in Rows PROVE KeysKept(y)'
  <2>1. row[y].key # 0 =>
          /\ Kept(y, row[y].key)
          /\ \A q \in Rotators : rot[q].ver = user.ver =>
              Kept(y, rot[q].seen[y].key) /\ Kept(y, rot[q].snap[y].key)
    BY DEF KeyInv, KeysKept, Live, Current
  <2>2. \A q \in Rotators : /\ rot'[q].ver = rot[q].ver /\ rot'[q].seen = rot[q].seen
                            /\ rot'[q].snap = rot[q].snap
    BY DEF Others, Sends
  <2>3. row'[y].key # 0 => row[y].key # 0 /\ Kept(y, row'[y].key)
    BY <2>1 DEF RowsBut, Live
  <2> QED
    BY <1>6, <2>1, <2>2, <2>3, NextForms
<1> QED
  BY <1>3, <1>4, <1>5, <1>7 DEF KeyInv

\* What a rotation stores opens with its new key, or is kept as it was read.
LEMMA ResealedKept ==
    ASSUME KeyInv, NEW r \in Rotators, NEW x \in Payload(r), Live(x),
           rot[r].pc \in {"write", "commit"}, rot[r].pc = "commit" => rot[r].mode = "reseal"
    PROVE  Kept(x, rot[r].new.key) /\ Kept(x, rot[r].seen[x].key)
<1>1. /\ Current(rot[r].ver)
      /\ rot[r].mode = "reseal" => user.wrapper = rot[r].new
      /\ rot[r].mode # "reseal" => user.pending = rot[r].new
  BY DEF KeyInv, GuardStands
<1>2. Kept(x, rot[r].new.key)
  BY <1>1 DEF Kept, Known
<1>3. Kept(x, rot[r].seen[x].key)
  BY <1>1 DEF KeyInv, KeysKept, Payload
<1> QED
  BY <1>2, <1>3

\* One row rewritten by the sequential path, or an error.
LEMMA RotWriteKeys ==
    ASSUME TypeOK, TypeOK', KeyInv, LockNamesHolder, NEW r \in Rotators, RotWrite(r)
    PROVE  KeyInv'
<1>0. /\ rot[r].pc = "write" /\ lock = r
      /\ user' = user /\ lost' = lost /\ wr' = wr /\ hold' = hold /\ pw' = pw
  BY DEF RotWrite, LockNamesHolder
<1>1. PICK x \in Turn(r) :
        \/ /\ ReadPin(r, x, row[x])
           /\ row' = [row EXCEPT ![x] = Resealed(r, x)]
           /\ rot' = [rot EXCEPT ![r].done[x] = Resealed(r, x).at]
        \/ row' = row /\ RotGoto(r, "undo")
        \/ /\ ReadPin(r, x, row[x])
           /\ row' = [row EXCEPT ![x] = Resealed(r, x)]
           /\ RotGoto(r, "undo")
  BY DEF RotWrite
<1>2. x \in Payload(r) /\ x \in Rows /\ rot[r].done[x] = 0
  BY <1>1 DEF Turn, Pending, Payload
<1>3. /\ Current(rot[r].ver)
      /\ rot[r].mode = "reseal" => user.wrapper = rot[r].new
      /\ rot[r].mode # "discard" => user.pending \in {NoWrapper, rot[r].new}
      /\ rot[r].mode # "reseal" => user.pending = rot[r].new
  BY <1>0 DEF KeyInv, GuardStands
<1>4. ASSUME RotGoto(r, "undo")
      PROVE  Others(r) /\ Keeps(r) /\ rot'[r].pc = "undo" /\ GuardStands(r)' /\ CoversRows(r)'
  <2>1. Others(r) /\ Keeps(r) /\ rot'[r].pc = "undo"
    BY <1>4, RotMoves DEF RotPC
  <2>2. GuardStands(r)'
    BY <1>0, <1>3, <2>1 DEF GuardStands, Current, Keeps, Sends
  <2> QED
    BY <2>1, <2>2, NextForms
<1>5. CASE row' = row /\ RotGoto(r, "undo")
  <2>1. SameKeys
    BY <1>0 DEF SameKeys
  <2>2. StaysCurrent(r)
    BY <1>0, <1>4, <1>5, <2>1, RotGoesOn
  <2> QED
    BY <1>0, <1>4, <1>5, <2>1, <2>2, RotQuietKeys
<1>6. CASE ReadPin(r, x, row[x]) /\ row' = [row EXCEPT ![x] = Resealed(r, x)]
  <2>1. RowsBut(x) /\ ResealedRow(r, x) /\ Live(x)
    BY <1>2, <1>6, RowEffects DEF ReadPin, Live
  <2>2. /\ row'[x].v = row[x].v + 1
        /\ row'[x].key = IF x \in Opened(r) THEN rot[r].new.key ELSE rot[r].seen[x].key
    BY <2>1 DEF ResealedRow
  <2>3. Kept(x, row'[x].key)
    BY <1>0, <1>2, <2>1, <2>2, ResealedKept
  <2>4. CASE RotGoto(r, "undo")
    BY <1>0, <1>2, <1>4, <2>1, <2>2, <2>3, <2>4, RotStoreKeys DEF Keeps
  <2>5. CASE rot' = [rot EXCEPT ![r].done[x] = Resealed(r, x).at]
    <3> DEFINE at == Resealed(r, x).at
    <3>1. at \in Nat
      BY <1>2, WrittenTypes DEF RowRec
    <3> HIDE DEF at
    <3>2. /\ Others(r) /\ Sends(r) /\ rot'[r].pc = "write" /\ rot'[r].snap = rot[r].snap
          /\ \A y \in Rows : rot'[r].done[y] = IF y = x THEN at ELSE rot[r].done[y]
      BY <1>0, <1>2, <2>5, <3>1, RotMarks DEF at
    <3>3. GuardStands(r)'
      BY <1>0, <1>3, <3>2 DEF GuardStands, Current, Sends
    <3>4. Opened(r)' = Opened(r)
      BY <3>2 DEF Opened, Payload, Sends
    <3>5. NoWriterNext(x)
      <4>1. ASSUME NEW w \in Writers, wr[w].row = x PROVE wr[w].v < row'[x].v
        <5>1. wr[w].v <= row[x].v /\ wr[w].v \in Nat /\ row[x].v \in Nat
          BY <1>2, <4>1, FieldTypes, RequestFields DEF KeyInv, WriterIsCurrent
        <5> QED
          BY <2>2, <5>1
      <4> QED
        BY <1>0, <4>1 DEF NoWriterNext
    <3>6. \A y \in Rows \ {x} : /\ row'[y] = row[y]
                                /\ NoWriterAt(y) => NoWriterNext(y)
                                /\ Unfinished(y) => UnfinishedNext(y)
      BY <1>0, <2>1 DEF RowsBut, NoWriterAt, NoWriterNext, Unfinished, UnfinishedNext,
                        Unconfirmed, Confirming, UnconfirmedNext, ConfirmingNext
    <3>7. CoversRows(r)
      BY DEF KeyInv
    <3>8. \A y \in Rows : rot'[r].done[y] # 0 /\ row'[y].key # 0 =>
            /\ row'[y].key = IF y \in Opened(r) THEN rot[r].new.key ELSE rot[r].seen[y].key
            /\ NoWriterNext(y)
      BY <1>0, <2>2, <3>2, <3>5, <3>6, <3>7, NowForms DEF Rewritten
    <3>9. \/ \E y \in Rows : rot[r].seen[y].key # 0 /\ rot'[r].done[y] = 0 /\ row'[y].key = 0
          \/ \A y \in Rows : rot[r].seen[y].key = 0 /\ row'[y].key # 0 => UnfinishedNext(y)
      <4>1. rot[r].seen[x].key # 0 /\ row[x].key # 0
        BY <1>2, <2>1 DEF Payload, Live
      <4>2. CASE \E y \in Rows : rot[r].seen[y].key # 0 /\ rot[r].done[y] = 0 /\ row[y].key = 0
        <5>1. PICK y \in Rows : rot[r].seen[y].key # 0 /\ rot[r].done[y] = 0 /\ row[y].key = 0
          BY <4>2
        <5>2. y # x
          BY <4>1, <5>1
        <5> QED
          BY <3>2, <3>6, <5>1, <5>2
      <4>3. CASE \A y \in Rows : rot[r].seen[y].key = 0 /\ row[y].key # 0 => Unfinished(y)
        BY <3>6, <4>1, <4>3
      <4> QED
        BY <1>0, <3>7, <4>2, <4>3, NowForms
    <3>10. CoversRows(r)'
      BY <3>2, <3>4, <3>8, <3>9, NextForms DEF Sends
    <3> QED
      BY <1>0, <1>2, <2>1, <2>2, <2>3, <3>2, <3>3, <3>10, RotStoreKeys
  <2> QED
    BY <1>1, <1>5, <1>6, <2>4, <2>5
<1> QED
  BY <1>1, <1>5, <1>6

\* One row put back by the rollback.
LEMMA RotRestoreKeys ==
    ASSUME TypeOK, TypeOK', KeyInv, LockNamesHolder, NEW r \in Rotators, RotRestore(r)
    PROVE  KeyInv'
<1>0. /\ rot[r].pc = "restore" /\ lock = r
      /\ user' = user /\ lost' = lost /\ wr' = wr /\ hold' = hold /\ pw' = pw
  BY DEF RotRestore, LockNamesHolder
<1>1. PICK x \in Rows :
        /\ rot[r].done[x] # 0
        /\ rot' = [rot EXCEPT ![r].done[x] = 0]
        /\ \/ /\ Live(x)
              /\ row' = [row EXCEPT ![x] = [rot[r].snap[x] EXCEPT !.v = row[x].v + 1]]
           \/ row' = row
  BY DEF RotRestore
<1>2. Others(r) /\ Sends(r) /\ rot'[r].pc = "restore" /\ rot'[r].snap = rot[r].snap
  BY <1>0, <1>1, RotMarks
<1>3. Current(rot[r].ver)
  BY <1>0 DEF KeyInv, GuardStands
<1>4. GuardStands(r)'
  BY <1>0, <1>2, <1>3 DEF GuardStands, Current, Sends
<1>5. CoversRows(r)'
  BY <1>2, NextForms
<1>6. CASE row' = row
  <2>1. SameKeys
    BY <1>0 DEF SameKeys
  <2>2. RotatorIsCurrent(r)'
    BY <1>0, <1>2 DEF KeyInv, RotatorIsCurrent, Current, Sends
  <2>3. \A y \in Rows : Live(y) /\ rot'[r].ver = user.ver =>
          Kept(y, rot'[r].seen[y].key) /\ Kept(y, rot'[r].snap[y].key)
    BY <1>2 DEF Sends, KeyInv, KeysKept, Current
  <2>4. StaysCurrent(r)
    BY <1>4, <1>5, <2>2, <2>3 DEF StaysCurrent
  <2> QED
    BY <1>0, <1>2, <1>6, <2>1, <2>4, RotQuietKeys
<1>7. CASE /\ Live(x)
           /\ row' = [row EXCEPT ![x] = [rot[r].snap[x] EXCEPT !.v = row[x].v + 1]]
  <2>1. PutBack(r, x)
    BY <1>7, RowEffects
  <2>2. Kept(x, row'[x].key)
    BY <1>3, <1>7, <2>1 DEF PutBack, KeyInv, KeysKept
  <2> QED
    BY <1>0, <1>2, <1>4, <1>5, <1>7, <2>1, <2>2, RotStoreKeys DEF PutBack
<1> QED
  BY <1>1, <1>6, <1>7

\* A row the page could not open and sends back as it was: its key is not the
\* old one nor the new one.
LEMMA UnopenedKept ==
    ASSUME KeyInv, NEW r \in Rotators, NEW x \in Payload(r), x \notin Opened(r), Live(x),
           rot[r].pc \in {"write", "commit"}
    PROVE  \/ rot[r].seen[x].key \in lost.asked \cup lost.carried
           \/ Unconfirmed(x, rot[r].seen[x].key)
           \/ /\ rot[r].pc = "commit" /\ rot[r].mode = "discard" /\ user.pending # NoWrapper
              /\ rot[r].seen[x].key = user.pending.key
<1> DEFINE k == rot[r].seen[x].key
<1>1. /\ Current(rot[r].ver)
      /\ rot[r].mode # "discard" => user.pending \in {NoWrapper, rot[r].new}
      /\ rot[r].pc = "write" /\ rot[r].mode # "reseal" => user.pending = rot[r].new
  BY DEF KeyInv, GuardStands
<1>2. Kept(x, k) /\ k # 0
  BY <1>1 DEF KeyInv, KeysKept, Payload
<1>3. rot[r].held = user.wrapper.key
  BY <1>1 DEF KeyInv, RotatorIsCurrent
<1>4. k # user.wrapper.key /\ k # rot[r].new.key
  BY <1>3 DEF Opened
<1> QED
  BY <1>1, <1>2, <1>4 DEF Kept, Known, NoWrapper

\* The new wrapper is stored and the generation moves: nobody else is current,
\* and every row opens with it, or is about to be taken back.
LEMMA RotCommitKeys ==
    ASSUME TypeOK, TypeOK', KeyInv, LockNamesHolder, NEW r \in Rotators, lock = r,
           wr' = wr, hold' = hold, pw' = pw, rot[r].pc \in {"write", "commit"},
           user'.wrapper = rot[r].new, user'.ver = user.ver + 1,
           lost.asked \subseteq lost'.asked, lost'.carried = lost.carried, lost'.rows = lost.rows,
           rot[r].pc = "commit" /\ rot[r].mode = "discard" /\ user.pending # NoWrapper =>
                user.pending.key \in lost'.asked,
           Others(r), Blank(r) \/ (Keeps(r) /\ rot'[r].pc = "undo"),
           \A x \in Rows :
             /\ row[x].v <= row'[x].v
             /\ row'[x].key # 0 =>
                  /\ NoWriterNext(x)
                  /\ \/ row'[x].key = rot[r].new.key
                     \/ /\ x \in Payload(r) \ Opened(r) /\ Live(x)
                        /\ row'[x].key = rot[r].seen[x].key
                     \/ UnconfirmedNext(x, row'[x].key)
    PROVE  KeyInv'
<1>0. user.ver \in Nat /\ user.ver < user'.ver /\ user'.ver \in Nat
  BY FieldTypes
<1>1. ASSUME NEW w \in Writers PROVE WriterIsCurrent(w)'
  <2> DEFINE x == wr[w].row
  <2>1. /\ x \in Rows /\ wr[w].ver \in Nat /\ wr[w].v \in Nat
        /\ row[x].v \in Nat
    BY FieldTypes, RequestFields
  <2>2. row'[x].v \in Nat
    BY <2>1 DEF TypeOK, RowRec
  <2>3. /\ wr[w].ver <= user.ver /\ wr[w].v <= row[x].v
        /\ wr[w].pc \in {"recheck", "write"} => 1 <= wr[w].v
    BY DEF KeyInv, WriterIsCurrent
  <2>4. wr[w].ver <= user'.ver /\ wr[w].ver # user'.ver /\ wr[w].v <= row'[x].v
    BY <1>0, <2>1, <2>2, <2>3
  <2>5. wr[w].pc = "write" /\ row'[x].key # 0 => row'[x].v # wr[w].v
    BY <2>1, <2>2 DEF NoWriterNext
  <2> QED
    BY <2>3, <2>4, <2>5 DEF WriterIsCurrent, Current, Live
<1>2. ASSUME NEW h \in Holders PROVE HolderIsCurrent(h)'
  <2>1. hold[h].ver \in Nat /\ hold[h].ver <= user.ver /\ hold[h].pc # "write"
    BY RequestFields, RotatorAlone DEF KeyInv, HolderIsCurrent
  <2>2. hold[h].ver <= user'.ver /\ hold[h].ver # user'.ver
    BY <1>0, <2>1
  <2> QED
    BY <2>1, <2>2 DEF HolderIsCurrent, Current
<1>3. ASSUME NEW c \in Changers PROVE ChangerIsCurrent(c)'
  <2>1. pw[c].ver \in Nat /\ pw[c].ver <= user.ver /\ pw[c].pc # "write"
    BY RequestFields, RotatorAlone DEF KeyInv, ChangerIsCurrent
  <2>2. pw[c].ver <= user'.ver /\ pw[c].ver # user'.ver
    BY <1>0, <2>1
  <2> QED
    BY <2>1, <2>2 DEF ChangerIsCurrent, Current
<1>4. ASSUME NEW q \in Rotators
      PROVE  /\ RotatorIsCurrent(q)' /\ GuardStands(q)' /\ CoversRows(q)'
             /\ \A x \in Rows :
                  \/ rot'[q].ver # user'.ver
                  \/ rot'[q].seen[x].key = 0 /\ rot'[q].snap[x].key = 0
  <2>1. rot[q].ver \in Nat /\ rot[q].ver <= user.ver /\ rot[q].mode \in Modes \cup {"fresh"}
    BY RequestFields DEF KeyInv, RotatorIsCurrent
  <2>2. rot[q].ver <= user'.ver /\ rot[q].ver # user'.ver
    BY <1>0, <2>1
  <2>3. CASE q # r
    <3>1. rot'[q] = rot[q] /\ rot[q].pc \notin
            {"raise", "txn", "commit", "snap", "fence", "cover", "write", "undo", "restore"}
      BY <2>3, RotatorAlone DEF Others
    <3>2. RotatorIsCurrent(q)' /\ GuardStands(q)'
      BY <2>1, <2>2, <3>1 DEF RotatorIsCurrent, GuardStands, Current
    <3> QED
      BY <2>2, <3>1, <3>2, NextForms
  <2>4. CASE q = r /\ Blank(r)
    <3>1. RotatorIsCurrent(r)' /\ GuardStands(r)'
      BY <1>0, <2>4 DEF Blank, RotatorIsCurrent, GuardStands
    <3> QED
      BY <2>4, <3>1, NextForms DEF Blank, NoRow
  <2>5. CASE q = r /\ Keeps(r) /\ rot'[r].pc = "undo"
    <3>1. RotatorIsCurrent(r)' /\ GuardStands(r)'
      BY <2>1, <2>2, <2>5 DEF Keeps, Sends, RotatorIsCurrent, GuardStands, Current
    <3> QED
      BY <2>2, <2>5, <3>1, NextForms DEF Keeps, Sends
  <2> QED
    BY <2>3, <2>4, <2>5
<1>5. ASSUME NEW x \in Rows PROVE KeysKept(x)'
  <2>1. \A k : Unconfirmed(x, k) => UnconfirmedNext(x, k)
    BY DEF Unconfirmed, Confirming, UnconfirmedNext, ConfirmingNext
  <2>2. row'[x].key # 0 => KeptNext(x, row'[x].key)
    BY <2>1, UnopenedKept DEF KeptNext, KnownNext
  <2>3. KeptNext(x, 0)
    BY DEF KeptNext, KnownNext
  <2> QED
    BY <1>4, <2>2, <2>3, NextForms
<1> QED
  BY <1>1, <1>2, <1>3, <1>4, <1>5 DEF KeyInv

\* What a commit leaves of the account: a re-seal changes no key.
LEMMA CommittedUser ==
    ASSUME TypeOK, NEW r \in Rotators, NEW f \in BOOLEAN, user' = Committed(r, f)
    PROVE  /\ rot[r].mode = "reseal" =>
                /\ user'.wrapper = user.wrapper /\ user'.pending = user.pending
                /\ user'.ver = user.ver
           /\ rot[r].mode # "reseal" =>
                user'.wrapper = rot[r].new /\ user'.ver = user.ver + 1
<1>1. CASE rot[r].mode = "reseal"
  BY <1>1 DEF Committed, TypeOK, UserRec
<1>2. CASE rot[r].mode # "reseal"
  <2>1. user' = [user EXCEPT !.wrapper = rot[r].new, !.ver = @ + 1, !.pending = NoWrapper,
                             !.fence = f]
    BY <1>2 DEF Committed
  <2> QED
    BY <1>2, <2>1 DEF TypeOK, UserRec
<1> QED
  BY <1>1, <1>2

\* The sequential path's last write.
LEMMA RotKeyWriteKeys ==
    ASSUME TypeOK, TypeOK', KeyInv, LockNamesHolder, NEW r \in Rotators, RotKeyWrite(r)
    PROVE  KeyInv'
<1>0. /\ rot[r].pc = "write" /\ lock = r /\ Pending(r) = {} /\ row' = row
      /\ lost' = lost /\ wr' = wr /\ hold' = hold /\ pw' = pw
  BY DEF RotKeyWrite, LockNamesHolder
<1>1. /\ Others(r)
      /\ Blank(r) \/ (Keeps(r) /\ rot'[r].pc = "undo")
  BY RotMoves DEF RotKeyWrite, RotPC
<1>2. (user' = user /\ Keeps(r) /\ rot'[r].pc = "undo") \/ user' = Committed(r, FALSE)
  BY RotMoves DEF RotKeyWrite, RotPC
<1>3. CASE (user' = user /\ Keeps(r) /\ rot'[r].pc = "undo") \/ rot[r].mode = "reseal"
  <2>1. SameKeys
    BY <1>0, <1>2, <1>3, CommittedUser DEF SameKeys
  <2>2. Current(rot[r].ver)
    BY <1>0 DEF KeyInv, GuardStands
  <2>3. Keeps(r) /\ rot'[r].pc = "undo" => GuardStands(r)'
    BY <2>1, <2>2 DEF GuardStands, Current, SameKeys, Keeps, Sends
  <2>4. StaysCurrent(r)
    BY <1>0, <1>1, <2>1, <2>3, RotGoesOn
  <2> QED
    BY <1>0, <1>1, <2>1, <2>4, RotQuietKeys
<1>4. CASE user' = Committed(r, FALSE) /\ rot[r].mode # "reseal"
  <2>1. user'.wrapper = rot[r].new /\ user'.ver = user.ver + 1
    BY <1>4, CommittedUser
  <2>2. \A x \in Rows : row'[x] = row[x] /\ row[x].v <= row'[x].v
    BY <1>0, FieldTypes
  <2>3. CoversRows(r)
    BY DEF KeyInv
  <2>4. \A x \in Rows : rot[r].seen[x].key # 0 => rot[r].done[x] # 0
    BY <1>0 DEF Pending, Payload
  <2>5. /\ \A x \in Rows : rot[r].done[x] # 0 /\ row[x].key # 0 => Rewritten(r, x)
        /\ \A x \in Rows : rot[r].seen[x].key = 0 /\ row[x].key # 0 => Unfinished(x)
    BY <1>0, <2>3, <2>4, NowForms
  <2>6. \A x \in Rows : /\ NoWriterAt(x) => NoWriterNext(x)
                        /\ Unfinished(x) => UnfinishedNext(x)
    BY <1>0 DEF NoWriterAt, NoWriterNext, Unfinished, UnfinishedNext, Unconfirmed, Confirming, UnconfirmedNext, ConfirmingNext
  <2>7. ASSUME NEW x \in Rows, row'[x].key # 0
        PROVE  /\ NoWriterNext(x)
               /\ \/ row'[x].key = rot[r].new.key
                  \/ /\ x \in Payload(r) \ Opened(r) /\ Live(x)
                     /\ row'[x].key = rot[r].seen[x].key
                  \/ UnconfirmedNext(x, row'[x].key)
    <3>1. CASE rot[r].seen[x].key = 0
      BY <2>2, <2>5, <2>6, <2>7, <3>1 DEF UnfinishedNext
    <3>2. CASE rot[r].seen[x].key # 0
      <4>1. Rewritten(r, x)
        BY <2>2, <2>4, <2>5, <2>7, <3>2
      <4> QED
        BY <2>2, <2>6, <2>7, <3>2, <4>1 DEF Rewritten, Payload, Live
    <3> QED
      BY <3>1, <3>2
  <2> QED
    BY <1>0, <1>1, <2>1, <2>2, <2>7, RotCommitKeys
<1> QED
  BY <1>2, <1>3, <1>4

\* A re-seal in one transaction: many rows, and no key.
LEMMA RotResealKeys ==
    ASSUME TypeOK, TypeOK', KeyInv, LockNamesHolder, NEW r \in Rotators, lock = r,
           SameKeys, wr' = wr, hold' = hold, pw' = pw,
           rot[r].pc = "commit", rot[r].mode = "reseal", Others(r), Blank(r), TxnRows(r),
           \A x \in Payload(r) : Live(x)
    PROVE  KeyInv'
<1>1. \A x \in Rows : row[x].v \in Nat
  BY FieldTypes
<1>2. \A x \in Rows : Advances(x)
  <2>1. \A x \in Rows : row[x].v < row[x].v + 1 /\ row[x].v <= row[x].v + 1 /\ row[x].v <= row[x].v
    BY <1>1
  <2> QED
    BY <2>1 DEF TxnRows, ResealedRow, Advances
<1>3. \A w \in Writers : WriterIsCurrent(w)'
  BY <1>2, WriterWaits DEF SameKeys
<1>4. /\ \A h \in Holders : HolderIsCurrent(h)'
      /\ \A c \in Changers : ChangerIsCurrent(c)'
  BY DEF KeyInv, HolderIsCurrent, ChangerIsCurrent, Current, SameKeys
<1>5. StaysCurrent(r)
  BY RotGoesOn
<1>6. ASSUME NEW q \in Rotators PROVE RotatorIsCurrent(q)' /\ GuardStands(q)' /\ CoversRows(q)'
  <2>1. CASE q = r
    BY <1>5, <2>1 DEF StaysCurrent
  <2>2. CASE q # r
    <3>1. rot'[q] = rot[q] /\ rot[q].pc \notin
            {"raise", "txn", "commit", "snap", "fence", "cover", "write", "undo", "restore"}
      BY <2>2, RotatorAlone DEF Others
    <3>2. RotatorIsCurrent(q)'
      BY <3>1 DEF KeyInv, RotatorIsCurrent, Current, SameKeys
    <3> QED
      BY <3>1, <3>2, NextForms DEF GuardStands
  <2> QED
    BY <2>1, <2>2
<1>7. \A x, k : Kept(x, k) => KeptNext(x, k)
  BY DEF Kept, Known, KeptNext, KnownNext, Unconfirmed, Confirming, UnconfirmedNext, ConfirmingNext, SameKeys
<1>8. ASSUME NEW x \in Rows PROVE KeysKept(x)'
  <2>1. row'[x].key # 0 => row[x].key # 0 /\ Kept(x, row'[x].key)
    <3>1. CASE x \in Payload(r)
      <4>1. Kept(x, rot[r].new.key) /\ Kept(x, rot[r].seen[x].key) /\ row[x].key # 0
        BY <3>1, ResealedKept DEF Live
      <4> QED
        BY <3>1, <4>1 DEF TxnRows, ResealedRow
    <3>2. CASE x \notin Payload(r)
      BY <3>2 DEF TxnRows, KeyInv, KeysKept, Live
    <3> QED
      BY <3>1, <3>2
  <2>2. ASSUME row[x].key # 0, NEW q \in Rotators, rot'[q].ver = user'.ver
        PROVE  Kept(x, rot'[q].seen[x].key) /\ Kept(x, rot'[q].snap[x].key)
    <3>1. CASE q = r
      BY <2>2, <3>1, <1>5 DEF StaysCurrent, Live, SameKeys
    <3>2. CASE q # r
      BY <2>2, <3>2 DEF Others, KeyInv, KeysKept, Live, Current, SameKeys
    <3> QED
      BY <3>1, <3>2
  <2> QED
    BY <1>7, <2>1, <2>2, NextForms
<1> QED
  BY <1>3, <1>4, <1>6, <1>8 DEF KeyInv

\* A transaction that commits, aborts or starts over.
LEMMA RotTxnKeys ==
    ASSUME TypeOK, TypeOK', KeyInv, LockNamesHolder, NEW r \in Rotators, RotTxnCommit(r)
    PROVE  KeyInv'
<1>0. rot[r].pc = "commit" /\ lock = r /\ wr' = wr /\ hold' = hold /\ pw' = pw
  BY DEF RotTxnCommit, LockNamesHolder
<1>1. CASE user' = user /\ row' = row /\ lost' = lost
  <2>1. SameKeys
    BY <1>1 DEF SameKeys
  <2>2. RotGoto(r, "txn") \/ RotGoto(r, "lower")
    BY DEF RotTxnCommit
  <2>3. Others(r) /\ (Blank(r) \/ (Keeps(r) /\ rot'[r].pc = "txn"))
    BY <2>2, RotMoves DEF RotPC
  <2>4. Keeps(r) /\ rot'[r].pc = "txn" => GuardStands(r)'
    BY <1>0, <1>1 DEF KeyInv, GuardStands, Current, Keeps, Sends
  <2>5. StaysCurrent(r)
    BY <1>0, <2>1, <2>3, <2>4, RotGoesOn
  <2> QED
    BY <1>0, <1>1, <2>1, <2>3, <2>5, RotQuietKeys
<1>2. CASE /\ RotGoto(r, "lower") /\ TxnAccepts(r)
           /\ \A x \in Payload(r) : row[x] = rot[r].snap[x]
           /\ row' = [x \in Rows |-> IF x \in Payload(r) THEN Resealed(r, x) ELSE row[x]]
           /\ user' = Committed(r, user.fence)
           /\ lost' = Abandoning(r)
  <2>1. TxnRows(r)
    BY <1>2, TxnRowEffects
  <2>2. Others(r) /\ Blank(r)
    BY <1>2, RotMoves DEF RotPC
  <2>3. \A x \in Payload(r) : rot[r].snap[x].key # 0 /\ Live(x) /\ x \in Rows
    BY <1>2 DEF TxnAccepts, ReadPin, Live, Payload
  <2>4. user.fence \in BOOLEAN /\ \A x \in Rows : row[x].v \in Nat
    BY FieldTypes
  <2>5. CASE rot[r].mode = "reseal"
    <3>1. SameKeys
      BY <1>2, <2>4, <2>5, CommittedUser DEF SameKeys, Abandoning
    <3> QED
      BY <1>0, <2>1, <2>2, <2>3, <2>5, <3>1, RotResealKeys
  <2>6. CASE rot[r].mode # "reseal"
    <3>1. user'.wrapper = rot[r].new /\ user'.ver = user.ver + 1
      BY <1>2, <2>4, <2>6, CommittedUser
    <3>2. \A x \in Rows : row[x].v <= row'[x].v
      BY <2>1, <2>4 DEF TxnRows, ResealedRow
    <3>3. \A x \in Rows : rot[r].snap[x].key # 0 => x \in Payload(r)
      BY <1>2, <2>3, CoversExactly DEF TxnAccepts
    <3>4. \A x \in Rows \ Payload(r) : row[x].key # 0 => Unfinished(x)
      <4>1. CoversRows(r)
        BY DEF KeyInv
      <4> QED
        BY <1>0, <3>3, <4>1, NowForms
    <3>6. /\ lost.asked \subseteq lost'.asked
          /\ lost'.carried = lost.carried /\ lost'.rows = lost.rows
          /\ rot[r].mode = "discard" /\ user.pending # NoWrapper => user.pending.key \in lost'.asked
      BY <1>2, LossMoves
    <3>5. ASSUME NEW x \in Rows, row'[x].key # 0
          PROVE  /\ NoWriterNext(x)
                 /\ \/ row'[x].key = rot[r].new.key
                    \/ /\ x \in Payload(r) \ Opened(r) /\ Live(x)
                       /\ row'[x].key = rot[r].seen[x].key
                    \/ UnconfirmedNext(x, row'[x].key)
      <4>1. CASE x \in Payload(r)
        <5>1. row'[x].v = row[x].v + 1
          BY <2>1, <4>1 DEF TxnRows, ResealedRow
        <5>2. ASSUME NEW w \in Writers, wr[w].row = x PROVE wr[w].v < row'[x].v
          <6>1. wr[w].v <= row[x].v /\ wr[w].v \in Nat
            BY <5>2, RequestFields DEF KeyInv, WriterIsCurrent
          <6> QED
            BY <2>4, <5>1, <6>1
        <5>3. NoWriterNext(x)
          BY <1>0, <5>2 DEF NoWriterNext
        <5> QED
          BY <2>1, <2>3, <4>1, <5>3 DEF TxnRows, ResealedRow
      <4>2. CASE x \notin Payload(r)
        <5>1. row'[x] = row[x] /\ Unfinished(x)
          BY <2>1, <3>4, <3>5, <4>2 DEF TxnRows
        <5> QED
          BY <1>0, <3>6, <5>1 DEF Unfinished, Unconfirmed, Confirming, UnconfirmedNext, ConfirmingNext, NoWriterAt, NoWriterNext
      <4> QED
        BY <4>1, <4>2
    <3> QED
      BY <1>0, <2>2, <3>1, <3>2, <3>5, <3>6, RotCommitKeys
  <2> QED
    BY <2>5, <2>6
<1> QED
  BY <1>1, <1>2 DEF RotTxnCommit

\* Every step of a rotation keeps KeyInv.
LEMMA RotatorKeys ==
    ASSUME TypeOK, TypeOK', EditInv, KeyInv, LockNamesHolder, NEW r \in Rotators, RotStep(r)
    PROVE  KeyInv'
BY RotWaitsKeys, RotFenceKeys, RotWriteKeys, RotKeyWriteKeys, RotRestoreKeys, RotTxnKeys
DEF RotStep, RotSequential, RotTransactional

\* Every step keeps KeyInv, as long as no login has lowered the fence of a rotation.
LEMMA KeysStep ==
    ASSUME SafeEdits, KeyInv, ~lost.fence, [Next]_vars
    PROVE  KeyInv'
<1>1. TypeOK /\ LockNamesHolder /\ FenceCoversRotation /\ EditInv
  BY DEF SafeEdits, ExclusionInv
<1>2. TypeOK'
  BY SafeEditsStep DEF SafeEdits, ExclusionInv
<1>3. CASE Next
  BY <1>1, <1>2, <1>3, WriterKeys, DeleteKeys, HolderKeys, ChangerKeys, RotatorKeys, LoginKeys
  DEF Next
<1>4. CASE UNCHANGED vars
  <2>1. /\ SameKeys /\ row' = row /\ wr' = wr /\ rot' = rot
        /\ user' = user /\ hold' = hold /\ pw' = pw
    BY <1>4 DEF vars, SameKeys
  <2>2. /\ \A h \in Holders : HolderIsCurrent(h)'
        /\ \A c \in Changers : ChangerIsCurrent(c)'
    BY <2>1 DEF KeyInv, HolderIsCurrent, ChangerIsCurrent, Current
  <2> QED
    BY <1>1, <2>1, <2>2, QuietKeys
<1> QED
  BY <1>3, <1>4

\* The initial states satisfy KeyInv.
LEMMA KeysInit == Init => KeyInv
<1> SUFFICES ASSUME Init PROVE KeyInv
  OBVIOUS
<1>1. TypeOK
  BY SafeEditsInit DEF SafeEdits, ExclusionInv
<1>2. /\ user.wrapper.key = 1 /\ user.ver = 0
      /\ \A x \in Rows : row[x].key \in {0, 1} /\ row[x].v \in Nat
  BY FieldTypes, <1>1 DEF Init, NoRow
<1>3. \A w \in Writers : wr[w].pc = "idle" /\ wr[w].ver = 0 /\ wr[w].v = 0 /\ wr[w].row \in Rows
  BY FieldTypes, <1>1 DEF Init, IdleWr
<1>4. \A w \in Writers : WriterIsCurrent(w)
  BY <1>2, <1>3 DEF WriterIsCurrent
<1>5. /\ \A h \in Holders : hold[h].pc = "idle" /\ hold[h].ver = 0
      /\ \A c \in Changers : pw[c].pc = "idle" /\ pw[c].ver = 0
  BY DEF Init, IdleHold, IdlePw
<1>6. /\ \A h \in Holders : HolderIsCurrent(h)
      /\ \A c \in Changers : ChangerIsCurrent(c)
  BY <1>2, <1>5 DEF HolderIsCurrent, ChangerIsCurrent
<1>7. \A r \in Rotators :
        /\ rot[r].pc = "idle" /\ rot[r].ver = 0 /\ rot[r].mode = "fresh"
        /\ \A x \in Rows : rot[r].seen[x] = NoRow /\ rot[r].snap[x] = NoRow
  BY DEF Init, IdleRot
<1>8. \A r \in Rotators : RotatorIsCurrent(r) /\ GuardStands(r) /\ CoversRows(r)
  BY <1>2, <1>7 DEF RotatorIsCurrent, GuardStands, CoversRows
<1>9. \A x \in Rows : KeysKept(x)
  BY <1>2, <1>7 DEF KeysKept, Kept, Known, NoRow
<1> QED
  BY <1>4, <1>6, <1>8, <1>9 DEF KeyInv

\* A pending wrapper opens, or is known not to, after every step: a rotation stores
\* one, a password change seals it anew, a commit removes it.
LEMMA PendingStep ==
    ASSUME TypeOK, PendingOpens, [Next]_vars
    PROVE  PendingOpens' /\ (lost.fence => lost'.fence)
<1>1. ASSUME user'.pending = user.pending, user'.cred = user.cred, lost' = lost
      PROVE  PendingOpens' /\ (lost.fence => lost'.fence)
  BY <1>1 DEF PendingOpens
<1>2. ASSUME NEW b \in BOOLEAN, user' = [user EXCEPT !.fence = b]
      PROVE  user'.pending = user.pending /\ user'.cred = user.cred
  BY <1>2 DEF TypeOK, UserRec
<1>3. ASSUME NEW r \in Rotators, NEW b \in BOOLEAN, user' = Committed(r, b),
             lost'.outdated = lost.outdated
      PROVE  PendingOpens'
  <2>1. CASE rot[r].mode = "reseal"
    <3>1. user'.pending = user.pending /\ user'.cred = user.cred
      BY <1>2, <1>3, <2>1 DEF Committed
    <3> QED
      BY <1>3, <3>1 DEF PendingOpens
  <2>2. CASE rot[r].mode # "reseal"
    <3>1. user'.pending = NoWrapper
      BY <1>3, <2>2 DEF Committed, TypeOK, UserRec
    <3> QED
      BY <3>1 DEF PendingOpens
  <2> QED
    BY <2>1, <2>2
<1>4. ASSUME NEW w \in Writers, WrStep(w)
      PROVE  PendingOpens' /\ (lost.fence => lost'.fence)
  <2>1. CASE WrWithdrawFails(w)
    <3>1. lost'.outdated = lost.outdated /\ lost'.fence = lost.fence /\ user' = user
      BY <2>1, LossMoves DEF WrWithdrawFails
    <3> QED
      BY <3>1 DEF PendingOpens
  <2>2. CASE user' = user /\ lost' = lost
    BY <1>1, <2>2
  <2> QED
    BY <1>4, <2>1, <2>2
    DEF WrStep, WrHold, WrFence, WrVersion, WrInsert, WrConfirm, WrWithdraw, WrMeasure, WrRecheck,
        WrWrite
<1>5. ASSUME NEW h \in Holders, HoldStep(h)
      PROVE  PendingOpens' /\ (lost.fence => lost'.fence)
  <2>1. user' = user /\ lost' = lost
    BY <1>5 DEF HoldStep, HoldBegin, HoldFenceFirst, HoldLock, HoldFence, HoldVersion, HoldWrite,
                HoldRelease, CrashHold
  <2> QED
    BY <1>1, <2>1
<1>6. ASSUME NEW c \in Changers, PwStep(c)
      PROVE  PendingOpens' /\ (lost.fence => lost'.fence)
  <2>1. CASE PwWrite(c)
    <3>1. lost'.outdated = lost.outdated /\ lost'.fence = lost.fence
      BY <2>1, LossMoves
    <3>2. CASE Current(pw[c].ver)
      <4> DEFINE cred == user.cred + 1
      <4>1. user' = [user EXCEPT !.cred = cred,
                                 !.wrapper = [key |-> pw[c].key, cred |-> cred],
                                 !.pending = IF @ = NoWrapper THEN @
                                             ELSE [key |-> pw[c].pending, cred |-> cred]]
        BY <2>1, <3>2 DEF PwWrite
      <4> HIDE DEF cred
      <4>2. /\ user'.cred = cred
            /\ user'.pending = IF user.pending = NoWrapper THEN user.pending
                               ELSE [key |-> pw[c].pending, cred |-> cred]
        BY <4>1 DEF TypeOK, UserRec
      <4> QED
        BY <3>1, <4>2 DEF PendingOpens
    <3>3. CASE ~Current(pw[c].ver)
      <4>1. user' = user
        BY <2>1, <3>3 DEF PwWrite
      <4> QED
        BY <3>1, <4>1 DEF PendingOpens
    <3> QED
      BY <3>2, <3>3
  <2>2. CASE user' = user /\ lost' = lost
    BY <1>1, <2>2
  <2> QED
    BY <1>6, <2>1, <2>2 DEF PwStep, PwHold, PwLock, PwGuard, PwRelease, CrashPw
<1>7. ASSUME NEW r \in Rotators, RotStep(r)
      PROVE  PendingOpens' /\ (lost.fence => lost'.fence)
  <2>1. CASE RotFence(r)
    <3>1. /\ lost'.fence = lost.fence
          /\ lost'.outdated = IF rot[r].mode # "reseal" /\ rot[r].new.cred # user.cred
                              THEN lost.outdated \cup {rot[r].new.key} ELSE lost.outdated
      BY <2>1, LossMoves
    <3>2. CASE rot[r].mode = "reseal"
      <4>1. user'.pending = user.pending /\ user'.cred = user.cred
        BY <1>2, <2>1, <3>2 DEF RotFence
      <4> QED
        BY <3>1, <3>2, <4>1 DEF PendingOpens
    <3>3. CASE rot[r].mode # "reseal"
      <4>1. user' = [user EXCEPT !.fence = TRUE, !.pending = rot[r].new]
        BY <2>1, <3>3 DEF RotFence
      <4>2. user'.pending = rot[r].new /\ user'.cred = user.cred
        BY <4>1 DEF TypeOK, UserRec
      <4> QED
        BY <3>1, <3>3, <4>2 DEF PendingOpens
    <3> QED
      BY <3>2, <3>3
  <2>2. CASE RotKeyWrite(r)
    <3>1. lost' = lost /\ (user' = user \/ user' = Committed(r, FALSE))
      BY <2>2 DEF RotKeyWrite
    <3> QED
      BY <1>1, <1>3, <3>1
  <2>3. CASE RotTxnCommit(r)
    <3>1. \/ lost' = lost /\ user' = user
          \/ lost' = Abandoning(r) /\ user' = Committed(r, user.fence)
      BY <2>3 DEF RotTxnCommit
    <3>2. lost' = Abandoning(r) => lost'.outdated = lost.outdated /\ lost'.fence = lost.fence
      BY LossMoves
    <3>3. user.fence \in BOOLEAN
      BY FieldTypes
    <3> QED
      BY <1>1, <1>3, <3>1, <3>2, <3>3
  <2>4. CASE RotRaise(r) \/ RotLower(r)
    <3>1. /\ lost' = lost
          /\ user' = user \/ \E b \in BOOLEAN : user' = [user EXCEPT !.fence = b]
      BY <2>4 DEF RotRaise, RotLower
    <3> QED
      BY <1>1, <1>2, <3>1
  <2>5. CASE user' = user /\ lost' = lost
    BY <1>1, <2>5
  <2> QED
    BY <1>7, <2>1, <2>2, <2>3, <2>4, <2>5
    DEF RotStep, RotSequential, RotTransactional, RotHold, RotEnumerate, RotAuth, RotLock, RotGuard,
        RotSnapshot, RotCover, RotWrite, RotUndo, RotRestore, RotRestored, RotTxnBegin, RotRelease,
        CrashRot
<1>8. CASE LoginLower
  <2>1. lost'.outdated = lost.outdated /\ (lost.fence => lost'.fence)
    BY <1>8, LossMoves
  <2>2. user'.pending = user.pending /\ user'.cred = user.cred
    BY <1>2, <1>8 DEF LoginLower
  <2> QED
    BY <2>1, <2>2 DEF PendingOpens
<1>9. CASE (\E x \in Rows : RowDelete(x)) \/ LoginDecide \/ LoginEnds \/ LockLapses \/ UNCHANGED vars
  <2>1. user' = user /\ lost' = lost
    BY <1>9 DEF RowDelete, LoginDecide, LoginEnds, LockLapses, vars
  <2> QED
    BY <1>1, <2>1
<1> QED
  BY <1>4, <1>5, <1>6, <1>7, <1>8, <1>9 DEF Next

\* The whole invariant of the rotation (bulkReEncrypt beside every other write
\* of ciphertext), for any rows, requests and bounds: exclusion, no edit undone,
\* no pending wrapper that silently does not open and, until a login lowers the
\* fence of a running rotation, no key forgotten.
THEOREM RotationInvHolds == Spec => []RotationInv
<1>1. Init => RotationInv
  BY SafeEditsInit, KeysInit DEF RotationInv, SafeEdits, Init, PendingOpens
<1>2. RotationInv /\ [Next]_vars => RotationInv'
  <2> SUFFICES ASSUME RotationInv, [Next]_vars PROVE RotationInv'
    OBVIOUS
  <2>1. SafeEdits /\ TypeOK /\ PendingOpens
    BY DEF RotationInv, SafeEdits, ExclusionInv
  <2>2. SafeEdits'
    BY <2>1, SafeEditsStep
  <2>3. PendingOpens' /\ (lost.fence => lost'.fence)
    BY <2>1, PendingStep
  <2>4. ~lost.fence => KeyInv'
    BY <2>1, KeysStep DEF RotationInv
  <2> QED
    BY <2>2, <2>3, <2>4 DEF RotationInv, SafeEdits
<1> QED
  BY <1>1, <1>2, PTL DEF Spec

\* Every stored row opens with the current key, or with the pending one and the
\* password that signs in, unless it is being taken back (controllerHelpers.ts:812-836)
\* or lost in one of the five ways the model names: for any rows, requests, crashes
\* and errors, and with no assumption on how they interleave.
THEOREM EveryRowOpensHolds == Spec => []EveryRowOpens
<1>1. RotationInv => EveryRowOpens
  <2> SUFFICES ASSUME RotationInv, NEW x \in Rows, Live(x), ~lost.fence
               PROVE  \/ Spoken(x)
                      \/ <<x, row[x].key>> \in lost.rows
                      \/ row[x].key \in lost.carried \cup lost.outdated
    BY DEF EveryRowOpens
  <2>1. Kept(x, row[x].key)
    BY DEF RotationInv, KeyInv, KeysKept
  <2>2. CASE Unconfirmed(x, row[x].key)
    BY <2>2 DEF Unconfirmed, Spoken
  <2>3. CASE row[x].key = user.wrapper.key
    BY <2>3 DEF Spoken, Opens
  <2>4. CASE row[x].key = user.pending.key
    <3>1. user.pending # NoWrapper
      BY <2>4 DEF Live, NoWrapper
    <3>2. user.pending.cred = user.cred \/ user.pending.key \in lost.outdated
      BY <3>1 DEF RotationInv, PendingOpens
    <3> QED
      BY <2>4, <3>2 DEF Spoken, Opens
  <2>5. CASE row[x].key \in lost.asked \cup lost.carried
    BY <2>5 DEF Spoken
  <2> QED
    BY <2>1, <2>2, <2>3, <2>4, <2>5 DEF Kept, Known, Live
<1> QED
  BY <1>1, RotationInvHolds, PTL

=============================================================================
