------------------------ MODULE DocumentBudgetProofs ------------------------
(***************************************************************************)
(* BudgetInv is an inductive invariant of DocumentBudget, whatever the     *)
(* limits, the sizes and the number of requests.  From it: the quota, and  *)
(* the bound a rotation payload relies on.                                 *)
(***************************************************************************)
EXTENDS DocumentBudget, FiniteSetTheorems, TLAPS

\* Every set of transfers is finite, and so has a cardinality.
LEMMA SubsetsAreFinite ==
    ASSUME NEW S \in SUBSET Transfers
    PROVE  IsFiniteSet(S) /\ Cardinality(S) \in Nat
BY BudgetAssumption, FS_Subset, FS_CardinalityType

\* A smaller set of transfers is no larger.
LEMMA SmallerCount ==
    ASSUME NEW S \in SUBSET Transfers, NEW T \in SUBSET S
    PROVE  Cardinality(T) <= Cardinality(S)
BY SubsetsAreFinite, FS_Subset

\* At most one transfer is between its two writes, because the completion that
\* claims it holds the account's rotation lock: the three counts add up.
LEMMA HeldIsCounted ==
    ASSUME TypeOK, LocksNameHolders
    PROVE  Cardinality(Held) <= Cardinality(Live) + Cardinality(Documents) + 1
<1>1. Claimed \subseteq {rotLock}
  BY DEF LocksNameHolders, Claimed
<1>2. IsFiniteSet(Claimed) /\ Cardinality(Claimed) <= 1 /\ Cardinality(Claimed) \in Nat
  <2>1. IsFiniteSet({rotLock}) /\ Cardinality({rotLock}) = 1
    BY FS_Singleton
  <2>2. IsFiniteSet(Claimed) /\ Cardinality(Claimed) <= Cardinality({rotLock})
    BY <1>1, <2>1, FS_Subset
  <2>3. Cardinality(Claimed) \in Nat
    BY <2>2, FS_CardinalityType
  <2> QED
    BY <2>1, <2>2, <2>3
<1>3. IsFiniteSet(Live) /\ Cardinality(Live) \in Nat
  BY SubsetsAreFinite DEF Live
<1>4. IsFiniteSet(Documents) /\ Cardinality(Documents) \in Nat
  BY SubsetsAreFinite DEF Documents
<1>5. /\ IsFiniteSet(Live \cup Documents)
      /\ Cardinality(Live \cup Documents) <= Cardinality(Live) + Cardinality(Documents)
      /\ Cardinality(Live \cup Documents) \in Nat
  <2>1. Cardinality(Live \cap Documents) \in Nat
    BY SubsetsAreFinite DEF Live
  <2>2. /\ IsFiniteSet(Live \cup Documents)
        /\ Cardinality(Live \cup Documents) =
             Cardinality(Live) + Cardinality(Documents) - Cardinality(Live \cap Documents)
    BY <1>3, <1>4, FS_Union
  <2>3. Cardinality(Live \cup Documents) \in Nat
    BY <2>2, FS_CardinalityType
  <2> QED
    BY <1>3, <1>4, <2>1, <2>2, <2>3
<1>6. Cardinality((Live \cup Documents) \cup Claimed)
        <= Cardinality(Live \cup Documents) + Cardinality(Claimed)
  <2>1. Cardinality((Live \cup Documents) \cap Claimed) \in Nat
    BY SubsetsAreFinite DEF Claimed
  <2>2. Cardinality((Live \cup Documents) \cup Claimed) =
           Cardinality(Live \cup Documents) + Cardinality(Claimed)
             - Cardinality((Live \cup Documents) \cap Claimed)
    BY <1>2, <1>5, FS_Union
  <2> QED
    BY <1>2, <1>5, <2>1, <2>2
<1>7. Cardinality(Held) <= Cardinality((Live \cup Documents) \cup Claimed)
  <2>1. Held \subseteq (Live \cup Documents) \cup Claimed
    BY DEF Held, Live, Documents, Claimed
  <2>2. (Live \cup Documents) \cup Claimed \subseteq Transfers
    BY DEF Live, Documents, Claimed
  <2> QED
    BY <2>1, <2>2, SmallerCount
<1>8. /\ Cardinality(Held) \in Nat
      /\ Cardinality((Live \cup Documents) \cup Claimed) \in Nat
  BY SubsetsAreFinite DEF Held, Live, Documents, Claimed
<1> QED
  BY <1>2, <1>3, <1>4, <1>5, <1>6, <1>7, <1>8

LEMMA CountTypes ==
    /\ Cardinality(Held) \in Nat /\ Cardinality(Live) \in Nat /\ Cardinality(Documents) \in Nat
    /\ MaxDocs \in Nat \ {0} /\ MaxConc \in Nat \ {0}
BY BudgetAssumption, SubsetsAreFinite DEF Held, Live, Documents

LEMMA InitEstablishesBudget == Init => BudgetInv
<1> SUFFICES ASSUME Init PROVE BudgetInv
  OBVIOUS
<1>1. TypeOK
  BY BudgetAssumption DEF Init, TypeOK, States, Stages, OpenPC
<1>2. LocksNameHolders /\ ReadingIsSafe /\ CommittedWithinQuota
  BY BudgetAssumption DEF Init, LocksNameHolders, ReadingIsSafe, CommittedWithinQuota
<1>3. OpenerHasRoom
  BY DEF Init, OpenerHasRoom
<1>4. RotationCanNameEveryDocument
  <2>1. Held = {}
    BY DEF Init, Held
  <2> QED
    BY <2>1, FS_EmptySet, CountTypes DEF RotationCanNameEveryDocument
<1> QED
  BY <1>1, <1>2, <1>3, <1>4 DEF BudgetInv

\* The types, the locks and the quota: what the counts do not enter into.
LEMMA QuotaPart ==
    ASSUME BudgetInv, Next
    PROVE  /\ TypeOK' /\ LocksNameHolders' /\ ReadingIsSafe'
           /\ CommittedWithinQuota'
<1> USE BudgetAssumption DEF BudgetInv, TypeOK, LocksNameHolders, ReadingIsSafe,
        CommittedWithinQuota, States, Stages, OpenPC
<1>1. ASSUME NEW o \in Openers, OpenLock(o)
      PROVE  /\ TypeOK' /\ LocksNameHolders' /\ ReadingIsSafe'
             /\ CommittedWithinQuota'
  BY <1>1 DEF OpenLock, OpenGoto
<1>2. ASSUME NEW o \in Openers, OpenCountLive(o)
      PROVE  /\ TypeOK' /\ LocksNameHolders' /\ ReadingIsSafe'
             /\ CommittedWithinQuota'
  BY <1>2 DEF OpenCountLive, OpenGoto
<1>3. ASSUME NEW o \in Openers, OpenCountDocuments(o)
      PROVE  /\ TypeOK' /\ LocksNameHolders' /\ ReadingIsSafe'
             /\ CommittedWithinQuota'
  BY <1>3 DEF OpenCountDocuments, OpenGoto
<1>4. ASSUME NEW o \in Openers, OpenReadInFlight(o)
      PROVE  /\ TypeOK' /\ LocksNameHolders' /\ ReadingIsSafe'
             /\ CommittedWithinQuota'
  BY <1>4 DEF OpenReadInFlight, OpenGoto
<1>5. ASSUME NEW o \in Openers, OpenReadCommitted(o)
      PROVE  /\ TypeOK' /\ LocksNameHolders' /\ ReadingIsSafe'
             /\ CommittedWithinQuota'
  BY <1>5 DEF OpenReadCommitted, OpenGoto
<1>6. ASSUME NEW o \in Openers, OpenCreate(o)
      PROVE  /\ TypeOK' /\ LocksNameHolders' /\ ReadingIsSafe'
             /\ CommittedWithinQuota'
  BY <1>6 DEF OpenCreate, OpenGoto
<1>7. ASSUME NEW o \in Openers, OpenUnlock(o)
      PROVE  /\ TypeOK' /\ LocksNameHolders' /\ ReadingIsSafe'
             /\ CommittedWithinQuota'
  BY <1>7 DEF OpenUnlock, OpenGoto
<1>8. ASSUME NEW t \in Transfers, CompleteCheck(t)
      PROVE  /\ TypeOK' /\ LocksNameHolders' /\ ReadingIsSafe'
             /\ CommittedWithinQuota'
  BY <1>8 DEF CompleteCheck
<1>9. ASSUME NEW t \in Transfers, CompleteLock(t)
      PROVE  /\ TypeOK' /\ LocksNameHolders' /\ ReadingIsSafe'
             /\ CommittedWithinQuota'
  BY <1>9 DEF CompleteLock
<1>10. ASSUME NEW t \in Transfers, CompleteQuota(t)
      PROVE  /\ TypeOK' /\ LocksNameHolders' /\ ReadingIsSafe'
             /\ CommittedWithinQuota'
  BY <1>10 DEF CompleteQuota
<1>11. ASSUME NEW t \in Transfers, CompleteClaim(t)
      PROVE  /\ TypeOK' /\ LocksNameHolders' /\ ReadingIsSafe'
             /\ CommittedWithinQuota'
  BY <1>11 DEF CompleteClaim
<1>12. ASSUME NEW t \in Transfers, CompleteInsert(t)
      PROVE  /\ TypeOK' /\ LocksNameHolders' /\ ReadingIsSafe'
             /\ CommittedWithinQuota'
  BY <1>12 DEF CompleteInsert
<1>13. ASSUME NEW t \in Transfers, CompleteFails(t)
      PROVE  /\ TypeOK' /\ LocksNameHolders' /\ ReadingIsSafe'
             /\ CommittedWithinQuota'
  BY <1>13 DEF CompleteFails
<1>14. ASSUME NEW t \in Transfers, RowGone(t)
      PROVE  /\ TypeOK' /\ LocksNameHolders' /\ ReadingIsSafe'
             /\ CommittedWithinQuota'
  BY <1>14 DEF RowGone
<1>15. ASSUME NEW t \in Transfers, Lapse(t)
      PROVE  /\ TypeOK' /\ LocksNameHolders' /\ ReadingIsSafe'
             /\ CommittedWithinQuota'
  BY <1>15 DEF Lapse
<1>16. ASSUME NEW t \in Transfers, Purge(t)
      PROVE  /\ TypeOK' /\ LocksNameHolders' /\ ReadingIsSafe'
             /\ CommittedWithinQuota'
  BY <1>16 DEF Purge
<1> QED
  BY <1>1, <1>2, <1>3, <1>4, <1>5, <1>6, <1>7, <1>8,
     <1>9, <1>10, <1>11, <1>12, <1>13, <1>14, <1>15, <1>16
     DEF Next, OpenStep, TransferStep

\* A completion, a cancel, an expiry and a purge only ever lower the counts.
LEMMA TransferStepsLower ==
    ASSUME BudgetInv, NEW t \in Transfers, TransferStep(t)
    PROVE  Held' \subseteq Held /\ Live' \subseteq Live /\ open' = open
<1> USE DEF BudgetInv, TypeOK, Held, Live
<1>1. CASE CompleteCheck(t)
  BY <1>1 DEF CompleteCheck
<1>2. CASE CompleteLock(t)
  BY <1>2 DEF CompleteLock
<1>3. CASE CompleteQuota(t)
  BY <1>3 DEF CompleteQuota
<1>4. CASE CompleteClaim(t)
  BY <1>4 DEF CompleteClaim
<1>5. CASE CompleteInsert(t)
  BY <1>5 DEF CompleteInsert
<1>6. CASE CompleteFails(t)
  BY <1>6 DEF CompleteFails
<1>7. CASE RowGone(t)
  BY <1>7 DEF RowGone
<1>8. CASE Lapse(t)
  BY <1>8 DEF Lapse
<1>9. CASE Purge(t)
  BY <1>9 DEF Purge
<1> QED
  BY <1>1, <1>2, <1>3, <1>4, <1>5, <1>6, <1>7, <1>8, <1>9 DEF TransferStep

\* The counts: an opener's readings stay upper bounds until its row is in.
LEMMA CountPart ==
    ASSUME BudgetInv, Next
    PROVE  OpenerHasRoom' /\ RotationCanNameEveryDocument'
<1>0. /\ TypeOK /\ LocksNameHolders /\ OpenerHasRoom /\ RotationCanNameEveryDocument
      /\ LocksNameHolders'
  BY QuotaPart DEF BudgetInv
<1>1. ASSUME NEW t \in Transfers, TransferStep(t)
      PROVE  OpenerHasRoom' /\ RotationCanNameEveryDocument'
  <2>1. Held' \subseteq Held /\ Live' \subseteq Live /\ open' = open
    BY <1>1, TransferStepsLower
  <2>2. Cardinality(Held') <= Cardinality(Held) /\ Cardinality(Live') <= Cardinality(Live)
    BY <2>1, SmallerCount DEF Held, Live
  <2>3. Cardinality(Held') \in Nat /\ Cardinality(Live') \in Nat
    BY SubsetsAreFinite DEF Held, Live
  <2> QED
    BY <1>0, <2>1, <2>2, <2>3, CountTypes DEF OpenerHasRoom, RotationCanNameEveryDocument
<1>2. ASSUME NEW o \in Openers, OpenCreate(o)
      PROVE  OpenerHasRoom' /\ RotationCanNameEveryDocument'
  <2>1. Cardinality(Held) <= MaxDocs + MaxConc - 1
    BY <1>0, <1>2 DEF OpenCreate, OpenerHasRoom
  <2>2. \A p \in Openers : open'[p] \in {"idle", "unlock"}
    BY <1>0, <1>2, BudgetAssumption DEF OpenCreate, OpenGoto, TypeOK, LocksNameHolders
  <2>3. \/ Held' = Held
        \/ \E t \in Transfers : Held' = Held \cup {t}
    BY <1>0, <1>2 DEF OpenCreate, Held, TypeOK
  <2>4. Cardinality(Held') <= Cardinality(Held) + 1
    <3>1. IsFiniteSet(Held)
      BY SubsetsAreFinite DEF Held
    <3>2. ASSUME NEW t \in Transfers PROVE Cardinality(Held \cup {t}) <= Cardinality(Held) + 1
      <4>1. \/ Cardinality(Held \cup {t}) = Cardinality(Held)
            \/ Cardinality(Held \cup {t}) = Cardinality(Held) + 1
        BY <3>1, FS_AddElement
      <4> QED
        BY <4>1, CountTypes
    <3> QED
      BY <2>3, <3>2, CountTypes
  <2>5. Cardinality(Held') \in Nat
    BY SubsetsAreFinite DEF Held
  <2> QED
    BY <2>1, <2>2, <2>4, <2>5, CountTypes DEF OpenerHasRoom, RotationCanNameEveryDocument
<1>3. ASSUME NEW o \in Openers, OpenStep(o), ~OpenCreate(o)
      PROVE  OpenerHasRoom' /\ RotationCanNameEveryDocument'
  <2>1. st' = st /\ late' = late
    BY <1>3 DEF OpenStep, OpenLock, OpenCountLive, OpenCountDocuments, OpenReadInFlight,
       OpenReadCommitted, OpenUnlock
  <2>2. Held' = Held /\ Live' = Live /\ Documents' = Documents
    BY <2>1 DEF Held, Live, Documents
  <2>3. \A p \in Openers : p # o => open'[p] = open[p]
    BY <1>0, <1>3 DEF OpenStep, OpenLock, OpenCountLive, OpenCountDocuments, OpenReadInFlight,
       OpenReadCommitted, OpenUnlock, OpenGoto, TypeOK
  <2>4. open'[o] = "docs" => Cardinality(Live) <= MaxConc - 1
    BY <1>0, <1>3, CountTypes DEF OpenStep, OpenLock, OpenCountLive, OpenCountDocuments,
       OpenReadInFlight, OpenReadCommitted, OpenUnlock, OpenGoto, TypeOK
  <2>5. open'[o] \in {"inflight", "bytes", "create"} =>
            Cardinality(Held) <= MaxDocs + MaxConc - 1
    <3>1. CASE OpenCountDocuments(o)
      <4>1. open'[o] = "inflight" => Cardinality(Documents) <= MaxDocs - 1
        BY <1>0, <3>1, CountTypes DEF OpenCountDocuments, OpenGoto, TypeOK
      <4>2. Cardinality(Live) <= MaxConc - 1
        BY <1>0, <3>1 DEF OpenCountDocuments, OpenerHasRoom
      <4>3. open'[o] \in {"inflight", "unlock"}
        BY <1>0, <3>1 DEF OpenCountDocuments, OpenGoto, TypeOK
      <4> QED
        BY <1>0, <4>1, <4>2, <4>3, HeldIsCounted, CountTypes
    <3>2. CASE ~OpenCountDocuments(o)
      BY <1>0, <1>3, <3>2 DEF OpenStep, OpenLock, OpenCountLive, OpenReadInFlight,
         OpenReadCommitted, OpenUnlock, OpenGoto, TypeOK, OpenerHasRoom
    <3> QED
      BY <3>1, <3>2
  <2> QED
    BY <1>0, <2>2, <2>3, <2>4, <2>5 DEF OpenerHasRoom, RotationCanNameEveryDocument
<1> QED
  BY <1>1, <1>2, <1>3 DEF Next

\* BudgetInv holds in every reachable state.
THEOREM BudgetInvHolds == Spec => []BudgetInv
<1>1. BudgetInv /\ [Next]_vars => BudgetInv'
  <2> SUFFICES ASSUME BudgetInv, [Next]_vars PROVE BudgetInv'
    OBVIOUS
  <2>1. CASE Next
    BY <2>1, CountPart, QuotaPart DEF BudgetInv
  <2>2. CASE UNCHANGED vars
    BY <2>2 DEF vars, BudgetInv, TypeOK, LocksNameHolders, ReadingIsSafe, CommittedWithinQuota,
       OpenerHasRoom, RotationCanNameEveryDocument, Held, Live
  <2> QED
    BY <2>1, <2>2
<1> QED
  BY InitEstablishesBudget, <1>1, PTL DEF Spec

\* However completions, opens and purges of an account interleave, its
\* documents stay within its quota.
THEOREM QuotaHolds == Spec => []CommittedWithinQuota
<1>1. BudgetInv => CommittedWithinQuota
  BY DEF BudgetInv
<1> QED
  BY BudgetInvHolds, <1>1, PTL

\* As long as no completion outlives its staging row, an account never
\* outgrows the rotation payload that has to name all its documents.
THEOREM RotationPayloadSuffices == Spec => []RotationCanNameEveryDocument
<1>1. BudgetInv => RotationCanNameEveryDocument
  BY DEF BudgetInv
<1> QED
  BY BudgetInvHolds, <1>1, PTL
=============================================================================
