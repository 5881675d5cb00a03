-------------------------- MODULE VaultQuotaProofs --------------------------
(***************************************************************************)
(* CountersCover is an inductive invariant of VaultQuota, whatever the     *)
(* rows, the limits and the number of requests, and VaultQuota implements  *)
(* VaultLedger. The argument goes through the ledger: a step of a request  *)
(* is shown to be a step of the ledger (or none), and every step of the    *)
(* ledger keeps the counters above the rows and the promises.              *)
(***************************************************************************)
EXTENDS VaultQuota, FiniteSetTheorems, TLAPS

-----------------------------------------------------------------------------
(* Totals *)

\* What a value adds to a tally.
Pos(n) == IF n > 0 THEN n ELSE 0

\* A cell belongs to one element of the set.
LEMMA CellsMember ==
    ASSUME NEW S, NEW f, NEW p
    PROVE  p \in Cells(f, S) <=> \E x \in S : p \in {x} \X (1..f[x])
BY DEF Cells

\* The cells of one element.
LEMMA CellsOfOne ==
    ASSUME NEW f, NEW x
    PROVE  Cells(f, {x}) = {x} \X (1..f[x])
BY Zenon DEF Cells

\* A finite set of integers has finitely many cells.
LEMMA CellsFinite ==
    ASSUME NEW S, IsFiniteSet(S), NEW f, \A x \in S : f[x] \in Int
    PROVE  IsFiniteSet(Cells(f, S))
<1> DEFINE T == {{x} \X (1..f[x]) : x \in S}
<1> DEFINE g == [x \in S |-> {x} \X (1..f[x])]
<1>1. g \in Surjection(S, T)
  BY DEF Surjection
<1>2. IsFiniteSet(T)
  <2> HIDE DEF g, T
  <2> QED BY <1>1, FS_Surjection
<1>3. \A t \in T : IsFiniteSet(t)
  <2> SUFFICES ASSUME NEW x \in S PROVE IsFiniteSet({x} \X (1..f[x]))
    OBVIOUS
  <2>1. IsFiniteSet({x})
    BY FS_Singleton
  <2>2. IsFiniteSet(1..f[x])
    BY FS_Interval
  <2> QED BY <2>1, <2>2, FS_Product
<1>4. IsFiniteSet(UNION T)
  <2> HIDE DEF T
  <2> QED BY <1>2, <1>3, FS_UNION
<1> QED BY <1>4 DEF Cells

\* A tally is a natural number.
LEMMA TallyNat ==
    ASSUME NEW S, IsFiniteSet(S), NEW f, \A x \in S : f[x] \in Int
    PROVE  Tally(f, S) \in Nat
BY CellsFinite, FS_CardinalityType DEF Tally

\* A tally depends on the values over its set only.
LEMMA TallySame ==
    ASSUME NEW S, NEW f, NEW g, \A x \in S : f[x] = g[x]
    PROVE  Tally(f, S) = Tally(g, S)
<1>1. {{x} \X (1..f[x]) : x \in S} = {{x} \X (1..g[x]) : x \in S}
  OBVIOUS
<1> QED BY <1>1 DEF Tally, Cells

\* The tally of two disjoint sets.
LEMMA TallySplit ==
    ASSUME NEW S, IsFiniteSet(S), NEW T \in SUBSET S, NEW f, \A x \in S : f[x] \in Int
    PROVE  Tally(f, S) = Tally(f, S \ T) + Tally(f, T)
<1> DEFINE A == Cells(f, S \ T)
<1> DEFINE B == Cells(f, T)
<1>1. IsFiniteSet(S \ T) /\ IsFiniteSet(T)
  BY FS_Subset, FS_Difference
<1>2. IsFiniteSet(A) /\ IsFiniteSet(B)
  BY <1>1, CellsFinite
<1>3. A \cap B = {}
  <2> SUFFICES ASSUME NEW p, p \in A, p \in B PROVE FALSE
    OBVIOUS
  <2>1. PICK x \in S \ T : p \in {x} \X (1..f[x])
    BY CellsMember
  <2>2. PICK y \in T : p \in {y} \X (1..f[y])
    BY CellsMember
  <2>3. p[1] = x /\ p[1] = y
    BY <2>1, <2>2
  <2> QED BY <2>3
<1>4. Cells(f, S) = A \cup B
  <2>1. S = (S \ T) \cup T
    OBVIOUS
  <2>2. \A U, V : Cells(f, U \cup V) = Cells(f, U) \cup Cells(f, V)
    <3> SUFFICES ASSUME NEW U, NEW V, NEW p
                 PROVE  p \in Cells(f, U \cup V) <=> p \in Cells(f, U) \/ p \in Cells(f, V)
      OBVIOUS
    <3> QED BY CellsMember
  <2> QED BY <2>1, <2>2
<1>5. Cardinality(A \cup B) = Cardinality(A) + Cardinality(B) - Cardinality(A \cap B)
  <2> HIDE DEF A, B
  <2> QED BY <1>2, FS_Union
<1>6. Cardinality(A) \in Nat /\ Cardinality(B) \in Nat
  <2> HIDE DEF A, B
  <2> QED BY <1>2, FS_CardinalityType
<1> HIDE DEF A, B
<1>7. Cardinality(Cells(f, S)) = Cardinality(A) + Cardinality(B)
  BY <1>3, <1>4, <1>5, <1>6, FS_EmptySet
<1> QED BY <1>7 DEF Tally, A, B

\* The tally of a set over which the value is the same.
LEMMA TallyConstant ==
    ASSUME NEW T, IsFiniteSet(T), NEW f, NEW n \in Nat, \A x \in T : f[x] = n
    PROVE  Tally(f, T) = n * Cardinality(T)
<1>1. Cells(f, T) = T \X (1..n)
  <2> SUFFICES ASSUME NEW p PROVE p \in Cells(f, T) <=> p \in T \X (1..n)
    OBVIOUS
  <2>1. p \in Cells(f, T) <=> \E x \in T : p \in {x} \X (1..n)
    BY CellsMember
  <2> QED BY <2>1
<1>2. IsFiniteSet(1..n) /\ Cardinality(1..n) = n
  BY FS_Interval
<1>3. Cardinality(T \X (1..n)) = Cardinality(T) * Cardinality(1..n)
  BY <1>2, FS_Product
<1>4. Cardinality(T) \in Nat
  BY FS_CardinalityType
<1> QED BY <1>1, <1>2, <1>3, <1>4 DEF Tally

\* The tally of one element: its value, or nothing when that is negative.
LEMMA TallyOne ==
    ASSUME NEW f, NEW x, f[x] \in Int
    PROVE  Tally(f, {x}) = Pos(f[x])
<1>1. IsFiniteSet({x}) /\ Cardinality({x}) = 1
  BY FS_Singleton
<1>2. IsFiniteSet(1..f[x]) /\ Cardinality(1..f[x]) = Pos(f[x])
  BY FS_Interval DEF Pos
<1>3. Cardinality({x} \X (1..f[x])) = Cardinality({x}) * Cardinality(1..f[x])
  BY <1>1, <1>2, FS_Product
<1>4. \A n \in Int : 1 * n = n
  OBVIOUS
<1>5. Pos(f[x]) \in Int
  BY DEF Pos
<1> QED BY <1>1, <1>2, <1>3, <1>4, <1>5, CellsOfOne DEF Tally

\* When one value changes, the tally changes by as much.
LEMMA TallyChange ==
    ASSUME NEW S, IsFiniteSet(S), NEW x \in S,
           NEW f, \A y \in S : f[y] \in Int,
           NEW g, g[x] \in Int, \A y \in S \ {x} : g[y] = f[y]
    PROVE  Tally(g, S) = Tally(f, S) - Pos(f[x]) + Pos(g[x])
<1>1. Tally(f, S) = Tally(f, S \ {x}) + Tally(f, {x})
  BY TallySplit
<1>2. Tally(g, S) = Tally(g, S \ {x}) + Tally(g, {x})
  <2>1. \A y \in S : g[y] \in Int
    OBVIOUS
  <2> QED BY <2>1, TallySplit
<1>3. Tally(g, S \ {x}) = Tally(f, S \ {x})
  BY TallySame
<1>4. Tally(f, {x}) = Pos(f[x]) /\ Tally(g, {x}) = Pos(g[x])
  BY TallyOne
<1>0. IsFiniteSet(S \ {x})
  BY FS_RemoveElement
<1>5. Tally(f, S \ {x}) \in Int /\ Pos(f[x]) \in Int /\ Pos(g[x]) \in Int
  BY <1>0, TallyNat DEF Pos
<1> QED BY <1>1, <1>2, <1>3, <1>4, <1>5

-----------------------------------------------------------------------------
(* What the rows amount to *)

\* What a row of a size adds to the counters; a size of 0 is no row.
Amount(id, size) == IF size = 0 THEN Zero ELSE RowOf(id, size)

\* The sets of ids are finite and apart.
LEMMA IdSets ==
    /\ IsFiniteSet(Items) /\ IsFiniteSet(Folders) /\ Items \cap Folders = {}
    /\ Items \subseteq Ids /\ Folders \subseteq Ids /\ IsFiniteSet(Ids)
    /\ IsFiniteSet(Ops)
BY QuotaAssumption, FS_Union DEF Ids

\* A row has at least one byte.
LEMMA SizesAreNat == Sizes \subseteq Nat /\ 0 \notin Sizes
BY QuotaAssumption

\* The fields of a row.
LEMMA RowIsTyped ==
    \A r \in RowValues : r.size \in Nat /\ r.v \in Nat /\ r.inc \in Nat /\ (r.size \in Sizes \/ r.size = 0)
<1> SUFFICES ASSUME NEW r \in RowValues
             PROVE  r.size \in Nat /\ r.v \in Nat /\ r.inc \in Nat /\ (r.size \in Sizes \/ r.size = 0)
  OBVIOUS
<1>1. r.size \in {0} \cup Sizes /\ r.v \in Nat /\ r.inc \in Nat
  BY DEF RowValues
<1>2. r.size = 0 \/ r.size \in Sizes
  BY <1>1, Zenon
<1>3. r.size \in Nat
  <2>1. CASE r.size = 0
    BY <2>1
  <2>2. CASE r.size \in Sizes
    BY <2>2, SizesAreNat, Zenon
  <2> QED BY <1>2, <2>1, <2>2
<1> QED BY <1>1, <1>2, <1>3, Zenon

\* The rows have their type.
LEMMA RowsTyped ==
    ASSUME TypeOK
    PROVE  rows \in [Ids -> RowValues]
BY DEF TypeOK

\* The bytes and the rows of a set of ids.
LEMMA SizeOfNat ==
    ASSUME rows \in [Ids -> RowValues], NEW S \in SUBSET Ids, IsFiniteSet(S)
    PROVE  SizeOf(S) \in Nat /\ RowsIn(S) \in Nat
<1>1. \A id \in S : [i \in S |-> rows[i].size][id] \in Int
  BY RowIsTyped
<1>2. SizeOf(S) \in Nat
  BY <1>1, TallyNat DEF SizeOf
<1>3. IsFiniteSet({id \in S : Exists(id)})
  BY FS_Subset
<1> QED BY <1>2, <1>3, FS_CardinalityType DEF RowsIn

\* The stored totals, by dimension.
LEMMA StoredParts ==
    ASSUME rows \in [Ids -> RowValues]
    PROVE  /\ Stored \in [Dims -> Nat]
           /\ ItemTotals \in [Dims -> Nat] /\ FolderTotals \in [Dims -> Nat]
           /\ Stored["bytes"] = SizeOf(Items) + SizeOf(Folders)
           /\ Stored["item"] = RowsIn(Items) /\ Stored["folder"] = RowsIn(Folders)
<1>1. /\ SizeOf(Items) \in Nat /\ RowsIn(Items) \in Nat
      /\ SizeOf(Folders) \in Nat /\ RowsIn(Folders) \in Nat
  BY IdSets, SizeOfNat
<1> QED BY <1>1 DEF Stored, ItemTotals, FolderTotals, Plus, Dims

\* Rows that are left alone leave the totals alone.
LEMMA StoredSame ==
    ASSUME rows' = rows
    PROVE  Stored' = Stored /\ ItemTotals' = ItemTotals /\ FolderTotals' = FolderTotals
BY DEF Stored, ItemTotals, FolderTotals, SizeOf, RowsIn, Exists

\* One row changes: the bytes and the rows of a set of ids.
LEMMA RowChangeIn ==
    ASSUME TypeOK, NEW id \in Ids, NEW new \in RowValues, rows' = [rows EXCEPT ![id] = new],
           NEW S \in SUBSET Ids, IsFiniteSet(S)
    PROVE  /\ SizeOf(S)' = SizeOf(S) + (IF id \in S THEN new.size - rows[id].size ELSE 0)
           /\ RowsIn(S)' = RowsIn(S) + (IF id \in S
                                        THEN (IF new.size = 0 THEN 0 ELSE 1)
                                               - (IF rows[id].size = 0 THEN 0 ELSE 1)
                                        ELSE 0)
<1> DEFINE f == [i \in S |-> rows[i].size]
<1> DEFINE g == [i \in S |-> rows'[i].size]
<1>0. /\ rows \in [Ids -> RowValues]
      /\ \A i \in Ids : rows[i].size \in Nat
      /\ new.size \in Nat
  BY RowsTyped, RowIsTyped
<1>1. \A i \in S : f[i] \in Int
  BY <1>0
<1>2. SizeOf(S) \in Nat /\ RowsIn(S) \in Nat
  BY RowsTyped, SizeOfNat
<1>3. SizeOf(S)' = SizeOf(S) + (IF id \in S THEN new.size - rows[id].size ELSE 0)
  <2>1. SizeOf(S) = Tally(f, S) /\ SizeOf(S)' = Tally(g, S)
    BY DEF SizeOf
  <2>2. CASE id \in S
    <3>1. g[id] = new.size /\ f[id] = rows[id].size /\ \A i \in S \ {id} : g[i] = f[i]
      BY <2>2, <1>0
    <3>2. g[id] \in Int
      BY <3>1, <1>0
    <3>3. Tally(g, S) = Tally(f, S) - Pos(f[id]) + Pos(g[id])
      <4> HIDE DEF f, g
      <4> QED BY <2>2, <3>1, <3>2, <1>1, TallyChange
    <3>4. Pos(f[id]) = rows[id].size /\ Pos(g[id]) = new.size
      BY <3>1, <1>0 DEF Pos
    <3> HIDE DEF f, g
    <3> QED BY <2>1, <2>2, <3>3, <3>4, <1>0, <1>2
  <2>3. CASE id \notin S
    <3>1. \A i \in S : g[i] = f[i]
      BY <2>3, <1>0
    <3>2. Tally(g, S) = Tally(f, S)
      <4> HIDE DEF f, g
      <4> QED BY <3>1, TallySame
    <3> HIDE DEF f, g
    <3> QED BY <2>1, <2>3, <3>2, <1>2
  <2> QED BY <2>2, <2>3
<1>4. RowsIn(S)' = RowsIn(S) + (IF id \in S
                                THEN (IF new.size = 0 THEN 0 ELSE 1)
                                       - (IF rows[id].size = 0 THEN 0 ELSE 1)
                                ELSE 0)
  <2> DEFINE R == {i \in S : rows[i].size > 0}
  <2> DEFINE Q == {i \in S : rows'[i].size > 0}
  <2>1. RowsIn(S) = Cardinality(R) /\ RowsIn(S)' = Cardinality(Q)
    BY DEF RowsIn, Exists
  <2>2. IsFiniteSet(R)
    BY FS_Subset
  <2>3. CASE id \in S /\ new.size > 0
    <3>1. Q = R \cup {id} /\ (id \in R <=> rows[id].size # 0)
      BY <2>3, <1>0
    <3>2. Cardinality(R \cup {id}) = IF id \in R THEN Cardinality(R) ELSE Cardinality(R) + 1
      <4> HIDE DEF R
      <4> QED BY <2>2, FS_AddElement
    <3> HIDE DEF R, Q
    <3> QED BY <2>1, <2>3, <3>1, <3>2, <1>0, <1>2
  <2>4. CASE id \in S /\ new.size = 0
    <3>1. Q = R \ {id} /\ (id \in R <=> rows[id].size # 0)
      BY <2>4, <1>0
    <3>2. Cardinality(R \ {id}) = IF id \in R THEN Cardinality(R) - 1 ELSE Cardinality(R)
      <4> HIDE DEF R
      <4> QED BY <2>2, FS_RemoveElement
    <3> HIDE DEF R, Q
    <3> QED BY <2>1, <2>4, <3>1, <3>2, <1>0, <1>2
  <2>5. CASE id \notin S
    <3>1. Q = R
      BY <2>5, <1>0
    <3> HIDE DEF R, Q
    <3> QED BY <2>1, <2>5, <3>1, <1>2
  <2> QED BY <2>3, <2>4, <2>5, <1>0
<1> QED BY <1>3, <1>4

\* One row changes: the totals change by what it now adds and no longer adds.
LEMMA RowChange ==
    ASSUME TypeOK, NEW id \in Ids, NEW new \in RowValues, rows' = [rows EXCEPT ![id] = new]
    PROVE  /\ Stored' \in [Dims -> Int]
           /\ \A d \in Dims :
                Stored'[d] = Stored[d] + Amount(id, new.size)[d] - Amount(id, rows[id].size)[d]
<1>1. Items \in SUBSET Ids /\ Folders \in SUBSET Ids /\ IsFiniteSet(Items) /\ IsFiniteSet(Folders)
      /\ (id \in Items <=> id \notin Folders)
  BY IdSets DEF Ids
<1>2. new.size \in Nat /\ rows[id].size \in Nat
  BY RowsTyped, RowIsTyped
<1>3. /\ SizeOf(Items)' = SizeOf(Items) + (IF id \in Items THEN new.size - rows[id].size ELSE 0)
      /\ RowsIn(Items)' = RowsIn(Items) + (IF id \in Items
                              THEN (IF new.size = 0 THEN 0 ELSE 1) - (IF rows[id].size = 0 THEN 0 ELSE 1)
                              ELSE 0)
  BY <1>1, RowChangeIn
<1>4. /\ SizeOf(Folders)' = SizeOf(Folders) + (IF id \in Folders THEN new.size - rows[id].size ELSE 0)
      /\ RowsIn(Folders)' = RowsIn(Folders) + (IF id \in Folders
                              THEN (IF new.size = 0 THEN 0 ELSE 1) - (IF rows[id].size = 0 THEN 0 ELSE 1)
                              ELSE 0)
  BY <1>1, RowChangeIn
<1>5. /\ SizeOf(Items) \in Nat /\ RowsIn(Items) \in Nat
      /\ SizeOf(Folders) \in Nat /\ RowsIn(Folders) \in Nat
  BY IdSets, RowsTyped, SizeOfNat
<1>6. Stored' = [d \in Dims |-> CASE d = "bytes" -> SizeOf(Items)' + SizeOf(Folders)'
                                  [] d = "item" -> RowsIn(Items)' + 0
                                  [] d = "folder" -> 0 + RowsIn(Folders)']
  BY DEF Stored, ItemTotals, FolderTotals, Plus, Dims
<1>7. \A n \in Nat : /\ Amount(id, n)["bytes"] = n
                     /\ Amount(id, n)["item"] = (IF id \in Items /\ n # 0 THEN 1 ELSE 0)
                     /\ Amount(id, n)["folder"] = (IF id \in Folders /\ n # 0 THEN 1 ELSE 0)
  BY <1>1 DEF Amount, RowOf, Zero, Dims, KindOf
<1>8. Stored["bytes"] = SizeOf(Items) + SizeOf(Folders)
      /\ Stored["item"] = RowsIn(Items) /\ Stored["folder"] = RowsIn(Folders)
  BY RowsTyped, StoredParts
<1>9. Stored' \in [Dims -> Int]
  BY <1>3, <1>4, <1>5, <1>6, <1>2 DEF Dims
<1>10. Stored'["bytes"] = Stored["bytes"] + Amount(id, new.size)["bytes"] - Amount(id, rows[id].size)["bytes"]
  BY <1>1, <1>2, <1>3, <1>4, <1>5, <1>6, <1>7, <1>8 DEF Dims
<1>11. Stored'["item"] = Stored["item"] + Amount(id, new.size)["item"] - Amount(id, rows[id].size)["item"]
  BY <1>1, <1>2, <1>3, <1>4, <1>5, <1>6, <1>7, <1>8 DEF Dims
<1>12. Stored'["folder"] = Stored["folder"] + Amount(id, new.size)["folder"] - Amount(id, rows[id].size)["folder"]
  BY <1>1, <1>2, <1>3, <1>4, <1>5, <1>6, <1>7, <1>8 DEF Dims
<1> QED BY <1>9, <1>10, <1>11, <1>12 DEF Dims

\* Rows of one size are inserted together: the bytes and the rows of a set of ids.
LEMMA RowsAddedIn ==
    ASSUME TypeOK, NEW T \in SUBSET Ids, NEW n \in Sizes, \A id \in T : ~Exists(id),
           rows' = [id \in Ids |-> IF id \in T THEN Inserted(id, n) ELSE rows[id]],
           NEW S \in SUBSET Ids, IsFiniteSet(S)
    PROVE  /\ SizeOf(S)' = SizeOf(S) + n * Cardinality(T \cap S)
           /\ RowsIn(S)' = RowsIn(S) + Cardinality(T \cap S)
<1> DEFINE f == [i \in S |-> rows[i].size]
<1> DEFINE g == [i \in S |-> rows'[i].size]
<1> DEFINE U == T \cap S
<1>0. /\ n \in Nat /\ n > 0
      /\ \A i \in Ids : rows[i].size \in Nat /\ rows'[i].size = IF i \in T THEN n ELSE rows[i].size
      /\ \A i \in T : rows[i].size = 0
  BY SizesAreNat, RowsTyped, RowIsTyped DEF Inserted, Exists
<1>1. IsFiniteSet(U) /\ U \in SUBSET S /\ Cardinality(U) \in Nat /\ IsFiniteSet(S \ U)
  BY FS_Subset, FS_CardinalityType, FS_Difference
<1>2. SizeOf(S) \in Nat /\ RowsIn(S) \in Nat
  BY RowsTyped, SizeOfNat
<1>3. /\ \A i \in S : f[i] \in Int /\ g[i] \in Int
      /\ \A i \in S \ U : g[i] = f[i]
      /\ \A i \in U : g[i] = n /\ f[i] = 0
  BY <1>0
<1>4. SizeOf(S)' = SizeOf(S) + n * Cardinality(U)
  <2>1. SizeOf(S) = Tally(f, S) /\ SizeOf(S)' = Tally(g, S)
    BY DEF SizeOf
  <2> HIDE DEF f, g, U
  <2>2. Tally(f, S) = Tally(f, S \ U) + Tally(f, U) /\ Tally(g, S) = Tally(g, S \ U) + Tally(g, U)
    BY <1>1, <1>3, TallySplit
  <2>3. Tally(g, S \ U) = Tally(f, S \ U)
    BY <1>3, TallySame
  <2>4. Tally(f, U) = 0 * Cardinality(U) /\ Tally(g, U) = n * Cardinality(U)
    BY <1>0, <1>1, <1>3, TallyConstant
  <2>5. Tally(f, S \ U) \in Nat
    BY <1>1, <1>3, TallyNat
  <2>6. 0 * Cardinality(U) = 0 /\ n * Cardinality(U) \in Int
    BY <1>0, <1>1
  <2> QED BY <2>1, <2>2, <2>3, <2>4, <2>5, <2>6
<1>5. RowsIn(S)' = RowsIn(S) + Cardinality(U)
  <2> DEFINE R == {i \in S : rows[i].size > 0}
  <2> DEFINE Q == {i \in S : rows'[i].size > 0}
  <2>1. RowsIn(S) = Cardinality(R) /\ RowsIn(S)' = Cardinality(Q)
    BY DEF RowsIn, Exists
  <2>2. IsFiniteSet(R)
    BY FS_Subset
  <2>3. Q = R \cup U /\ R \cap U = {}
    BY <1>0
  <2> HIDE DEF R, Q, U
  <2>4. Cardinality(R \cup U) = Cardinality(R) + Cardinality(U) - Cardinality(R \cap U)
    BY <1>1, <2>2, FS_Union
  <2> QED BY <1>1, <1>2, <2>1, <2>3, <2>4, FS_EmptySet
<1> QED BY <1>4, <1>5

\* Rows of one size are inserted together: the totals grow by what was predicted.
LEMMA RowsAdded ==
    ASSUME TypeOK, NEW T \in SUBSET Ids, NEW n \in Sizes, \A id \in T : ~Exists(id),
           rows' = [id \in Ids |-> IF id \in T THEN Inserted(id, n) ELSE rows[id]]
    PROVE  /\ Stored' \in [Dims -> Int]
           /\ Stored'["bytes"] = Stored["bytes"] + n * Cardinality(T)
           /\ Stored'["item"] = Stored["item"] + Cardinality(T \cap Items)
           /\ Stored'["folder"] = Stored["folder"] + Cardinality(T \cap Folders)
<1>1. Items \in SUBSET Ids /\ Folders \in SUBSET Ids /\ IsFiniteSet(Items) /\ IsFiniteSet(Folders)
  BY IdSets
<1>2. /\ SizeOf(Items)' = SizeOf(Items) + n * Cardinality(T \cap Items)
      /\ RowsIn(Items)' = RowsIn(Items) + Cardinality(T \cap Items)
  BY <1>1, RowsAddedIn
<1>3. /\ SizeOf(Folders)' = SizeOf(Folders) + n * Cardinality(T \cap Folders)
      /\ RowsIn(Folders)' = RowsIn(Folders) + Cardinality(T \cap Folders)
  BY <1>1, RowsAddedIn
<1>4. /\ SizeOf(Items) \in Nat /\ RowsIn(Items) \in Nat
      /\ SizeOf(Folders) \in Nat /\ RowsIn(Folders) \in Nat
  BY IdSets, RowsTyped, SizeOfNat
<1>5. Stored' = [d \in Dims |-> CASE d = "bytes" -> SizeOf(Items)' + SizeOf(Folders)'
                                  [] d = "item" -> RowsIn(Items)' + 0
                                  [] d = "folder" -> 0 + RowsIn(Folders)']
  BY DEF Stored, ItemTotals, FolderTotals, Plus, Dims
<1>6. /\ IsFiniteSet(T \cap Items) /\ IsFiniteSet(T \cap Folders)
      /\ Cardinality(T \cap Items) \in Nat /\ Cardinality(T \cap Folders) \in Nat
  BY <1>1, FS_Intersection, FS_CardinalityType
<1>7. Cardinality(T) = Cardinality(T \cap Items) + Cardinality(T \cap Folders)
  <2>1. T = (T \cap Items) \cup (T \cap Folders) /\ (T \cap Items) \cap (T \cap Folders) = {}
    BY IdSets DEF Ids
  <2>2. Cardinality((T \cap Items) \cup (T \cap Folders))
          = Cardinality(T \cap Items) + Cardinality(T \cap Folders)
              - Cardinality((T \cap Items) \cap (T \cap Folders))
    BY <1>6, FS_Union
  <2>3. Cardinality((T \cap Items) \cap (T \cap Folders)) = 0
    BY <2>1, FS_EmptySet
  <2>4. Cardinality(T) = Cardinality((T \cap Items) \cup (T \cap Folders))
    BY <2>1, Zenon
  <2> QED BY <2>2, <2>3, <2>4, <1>6
<1>8. n \in Nat
  BY SizesAreNat
<1>9. n * Cardinality(T) = n * Cardinality(T \cap Items) + n * Cardinality(T \cap Folders)
  BY <1>6, <1>7, <1>8
<1>10. n * Cardinality(T \cap Items) \in Int /\ n * Cardinality(T \cap Folders) \in Int
  BY <1>6, <1>8
<1>11. Stored["bytes"] = SizeOf(Items) + SizeOf(Folders)
      /\ Stored["item"] = RowsIn(Items) /\ Stored["folder"] = RowsIn(Folders)
  BY RowsTyped, StoredParts
<1> QED BY <1>2, <1>3, <1>4, <1>5, <1>6, <1>9, <1>10, <1>11 DEF Dims

-----------------------------------------------------------------------------
(* The ledger *)

\* The requests have their type.
LEMMA OpsTyped ==
    ASSUME TypeOK
    PROVE  op \in [Ops -> OpValues]
BY DEF TypeOK

\* The fields of a request.
LEMMA OpIsTyped ==
    ASSUME NEW x \in OpValues
    PROVE  /\ x.pc \in Pcs /\ x.kind \in Kinds /\ x.todo \subseteq Ids /\ x.done \subseteq Ids
           /\ x.measure \in RowValues /\ x.tries \in 0..Attempts
           /\ x.resv \in Amounts /\ x.landed \in Amounts /\ x.total \in Amounts
           /\ (x.size = 0 \/ x.size \in Sizes) /\ x.size \in Nat
<1>1. /\ x.pc \in Pcs /\ x.kind \in Kinds /\ x.todo \subseteq Ids /\ x.done \subseteq Ids
      /\ x.measure \in RowValues /\ x.tries \in 0..Attempts
      /\ x.resv \in Amounts /\ x.landed \in Amounts /\ x.total \in Amounts
      /\ x.size \in {0} \cup Sizes
  BY DEF OpValues
<1>2. x.size = 0 \/ x.size \in Sizes
  BY <1>1, Zenon
<1>3. x.size \in Nat
  <2>1. CASE x.size = 0
    BY <2>1
  <2>2. CASE x.size \in Sizes
    BY <2>2, SizesAreNat, Zenon
  <2> QED BY <1>2, <2>1, <2>2
<1> QED BY <1>1, <1>2, <1>3, Zenon

\* Amounts add up to amounts.
LEMMA AmountsAdd ==
    /\ Zero \in Amounts
    /\ \A x, y \in Amounts : Plus(x, y) \in Amounts /\ Minus(x, y) \in Amounts
    /\ \A n \in Int : Bytes(n) \in Amounts /\ Growth(n) \in Amounts
    /\ \A id \in Ids, n \in Int : RowOf(id, n) \in Amounts
BY DEF Zero, Amounts, Dims, Plus, Minus, Bytes, Growth, RowOf, KindOf

\* The state as the ledger sees it has the ledger's types.
LEMMA LedgerTyped ==
    TypeOK => Stored \in Amounts /\ LedgerCounter \in Amounts /\ LedgerClaims \in [Ops -> Amounts]
<1> SUFFICES ASSUME TypeOK
             PROVE  Stored \in Amounts /\ LedgerCounter \in Amounts /\ LedgerClaims \in [Ops -> Amounts]
  OBVIOUS
<1>1. Stored \in Amounts
  BY RowsTyped, StoredParts DEF Amounts
<1>2. counter \in Amounts
  BY DEF TypeOK
<1>3. LedgerCounter \in Amounts
  BY <1>1, <1>2 DEF LedgerCounter, Amounts
<1>4. \A o \in Ops : Minus(op[o].resv, op[o].landed) \in Amounts
  BY OpsTyped, OpIsTyped, AmountsAdd
<1> QED BY <1>1, <1>3, <1>4, AmountsAdd DEF LedgerClaims

\* The same after a step.
LEMMA LedgerTypedNext ==
    ASSUME TypeOK'
    PROVE  Stored' \in Amounts /\ LedgerCounter' \in Amounts /\ LedgerClaims' \in [Ops -> Amounts]
<1>1. (TypeOK => Stored \in Amounts /\ LedgerCounter \in Amounts /\ LedgerClaims \in [Ops -> Amounts])'
  BY LedgerTyped, PTL
<1> QED BY <1>1 DEF Amounts, Dims

\* The ledger counts claims as the rows are counted.
LEMMA ClaimedIs ==
    ASSUME NEW d
    PROVE  Ledger!Claimed(d) = Tally([o \in Ops |-> LedgerClaims[o][d]], Ops)
BY Zenon DEF Ledger!Claimed, Ledger!Tally, Ledger!Cells, Ledger!Cardinality, Cardinality, Tally, Cells

\* What is claimed is a natural number.
LEMMA ClaimedNat ==
    ASSUME TypeOK, NEW d \in Dims
    PROVE  Ledger!Claimed(d) \in Nat
<1>1. \A o \in Ops : [p \in Ops |-> LedgerClaims[p][d]][o] \in Int
  BY LedgerTyped DEF Amounts
<1> QED BY <1>1, IdSets, TallyNat, ClaimedIs

\* One claim changes: the total changes by its positive part.
LEMMA ClaimChange ==
    ASSUME TypeOK, TypeOK', NEW o \in Ops, NEW d \in Dims,
           \A p \in Ops \ {o} : LedgerClaims'[p] = LedgerClaims[p]
    PROVE  Ledger!Claimed(d)'
             = Ledger!Claimed(d) - Pos(LedgerClaims[o][d]) + Pos(LedgerClaims'[o][d])
<1> DEFINE f == [p \in Ops |-> LedgerClaims[p][d]]
<1> DEFINE g == [p \in Ops |-> LedgerClaims'[p][d]]
<1>1. \A p \in Ops : f[p] \in Int
  BY LedgerTyped DEF Amounts
<1>2. g[o] \in Int
  <2>1. LedgerClaims' \in [Ops -> Amounts]
    BY LedgerTypedNext
  <2> QED BY <2>1 DEF Amounts
<1>3. \A p \in Ops \ {o} : g[p] = f[p]
  OBVIOUS
<1>4. Ledger!Claimed(d) = Tally(f, Ops)
  BY ClaimedIs
<1>5. Ledger!Claimed(d)' = Tally(g, Ops)
  BY Zenon DEF Ledger!Claimed, Ledger!Tally, Ledger!Cells, Ledger!Cardinality, Cardinality, Tally, Cells
<1>6. Tally(g, Ops) = Tally(f, Ops) - Pos(f[o]) + Pos(g[o])
  <2> HIDE DEF f, g
  <2> QED BY <1>1, <1>2, <1>3, IdSets, TallyChange
<1> QED BY <1>4, <1>5, <1>6

\* The limits are numbers.
LEMMA LimitTyped == Limit \in Amounts
BY QuotaAssumption DEF Limit, Amounts, Dims

\* A step keeps the counter above the rows and the promises, and those within the limit.
Keeps(d) ==
    /\ Ledger!Covered(d) => Ledger!Covered(d)'
    /\ Ledger!Covered(d) /\ Ledger!Within(d) => Ledger!Within(d)'

\* What is covered, in numbers.
LEMMA CoveredIs ==
    ASSUME NEW d
    PROVE  /\ Ledger!Covered(d) <=> Stored[d] + Ledger!Claimed(d) <= LedgerCounter[d]
           /\ Ledger!Covered(d)' <=> Stored'[d] + Ledger!Claimed(d)' <= LedgerCounter'[d]
           /\ Ledger!Within(d) <=> Stored[d] + Ledger!Claimed(d) <= Limit[d]
           /\ Ledger!Within(d)' <=> Stored'[d] + Ledger!Claimed(d)' <= Limit[d]
BY DEF Ledger!Covered, Ledger!Within, Limit

\* The values of one dimension, before and after a step of one request.
LEMMA NumbersOf ==
    ASSUME TypeOK, TypeOK', NEW o \in Ops, NEW d \in Dims,
           \A p \in Ops \ {o} : LedgerClaims'[p] = LedgerClaims[p]
    PROVE  /\ Stored[d] \in Int /\ Stored'[d] \in Int /\ Limit[d] \in Int
           /\ LedgerCounter[d] \in Int /\ LedgerCounter'[d] \in Int
           /\ LedgerClaims[o][d] \in Int /\ LedgerClaims'[o][d] \in Int
           /\ Ledger!Claimed(d) \in Nat
           /\ Ledger!Claimed(d)'
                = Ledger!Claimed(d) - Pos(LedgerClaims[o][d]) + Pos(LedgerClaims'[o][d])
<1>1. Stored \in Amounts /\ LedgerCounter \in Amounts /\ LedgerClaims \in [Ops -> Amounts]
  BY LedgerTyped
<1>2. Stored' \in Amounts /\ LedgerCounter' \in Amounts /\ LedgerClaims' \in [Ops -> Amounts]
  BY LedgerTypedNext
<1> QED BY <1>1, <1>2, ClaimedNat, ClaimChange, LimitTyped DEF Amounts

\* A promise within the limit.
LEMMA PromiseKeeps ==
    ASSUME TypeOK, TypeOK', NEW o \in Ops, Ledger!Promise(o), NEW d \in Dims
    PROVE  Keeps(d)
<1>1. /\ LedgerClaims[o][d] = 0 /\ Stored' = Stored
      /\ LedgerClaims'[o][d] = LedgerCounter'[d] - LedgerCounter[d]
      /\ LedgerCounter'[d] - LedgerCounter[d] >= 0
      /\ LedgerCounter'[d] - LedgerCounter[d] > 0 => LedgerCounter'[d] <= Limit[d]
      /\ \A p \in Ops \ {o} : LedgerClaims'[p] = LedgerClaims[p]
  BY LedgerTyped DEF Ledger!Promise, Ledger!Zero, Ledger!Minus, Ledger!NonNegative, Limit
<1> QED BY <1>1, NumbersOf, CoveredIs DEF Keeps, Pos

\* A write out of the writer's own promise.
LEMMA WriteKeeps ==
    ASSUME TypeOK, TypeOK', NEW o \in Ops, Ledger!Write(o), NEW d \in Dims
    PROVE  Keeps(d)
<1>1. /\ LedgerCounter' = LedgerCounter
      /\ Stored'[d] - Stored[d] > 0 => Stored'[d] - Stored[d] <= LedgerClaims[o][d]
      /\ LedgerClaims[o][d] - (Stored'[d] - Stored[d]) - LedgerClaims'[o][d] >= 0
      /\ \A p \in Ops \ {o} : LedgerClaims'[p] = LedgerClaims[p]
  BY LedgerTyped DEF Ledger!Write, Ledger!Minus, Ledger!NonNegative
<1> QED BY <1>1, NumbersOf, CoveredIs DEF Keeps, Pos

\* A rotation, for the rows: it changes none of their numbers.
LEMMA ResealKeeps ==
    ASSUME TypeOK, TypeOK', NEW o \in Ops, Ledger!Reseal(o), NEW d \in Dims \ {"bytes"}
    PROVE  Keeps(d)
<1>1. /\ LedgerCounter' = LedgerCounter
      /\ Stored'[d] = Stored[d]
      /\ LedgerClaims'[o][d] = LedgerClaims[o][d] - (Stored'[d] - Stored[d])
      /\ \A p \in Ops \ {o} : LedgerClaims'[p] = LedgerClaims[p]
  BY LedgerTyped DEF Ledger!Reseal, Ledger!Minus
<1> QED BY <1>1, NumbersOf, CoveredIs DEF Keeps, Pos

\* What is left of a promise is handed back.
LEMMA HandBackKeeps ==
    ASSUME TypeOK, TypeOK', NEW o \in Ops, Ledger!HandBack(o), NEW d \in Dims
    PROVE  Keeps(d)
<1>1. /\ Stored' = Stored
      /\ LedgerCounter'[d] = LedgerCounter[d] - LedgerClaims[o][d]
      /\ LedgerClaims'[o][d] = 0
      /\ \A p \in Ops \ {o} : LedgerClaims'[p] = LedgerClaims[p]
  BY LedgerTyped DEF Ledger!HandBack, Ledger!Minus, Ledger!Zero
<1> QED BY <1>1, NumbersOf, CoveredIs DEF Keeps, Pos

\* A promise is forgotten with its request.
LEMMA ForgetKeeps ==
    ASSUME TypeOK, TypeOK', NEW o \in Ops, Ledger!Forget(o), NEW d \in Dims
    PROVE  Keeps(d)
<1>1. /\ Stored' = Stored /\ LedgerCounter' = LedgerCounter
      /\ LedgerClaims'[o][d] = 0
      /\ \A p \in Ops \ {o} : LedgerClaims'[p] = LedgerClaims[p]
  BY LedgerTyped DEF Ledger!Forget, Ledger!Zero
<1> QED BY <1>1, NumbersOf, CoveredIs DEF Keeps, Pos

\* Nothing the ledger sees has changed.
LEMMA StutterKeeps ==
    ASSUME NEW d \in Dims, UNCHANGED Ledger!ledger
    PROVE  Keeps(d)
<1>1. Stored' = Stored /\ LedgerCounter' = LedgerCounter /\ LedgerClaims' = LedgerClaims
  BY DEF Ledger!ledger
<1>2. Ledger!Claimed(d)' = Ledger!Claimed(d)
  BY <1>1 DEF Ledger!Claimed, Ledger!Tally, Ledger!Cells
<1> QED BY <1>1, <1>2, CoveredIs DEF Keeps

\* A tally of nothing is nothing.
LEMMA NobodyClaims ==
    ASSUME NEW d \in Dims, \A o \in Ops : LedgerClaims[o][d] = 0
    PROVE  Ledger!Claimed(d) = 0
<1> DEFINE f == [o \in Ops |-> LedgerClaims[o][d]]
<1>1. Tally(f, Ops) = 0 * Cardinality(Ops)
  <2>1. \A o \in Ops : f[o] = 0
    OBVIOUS
  <2> HIDE DEF f
  <2> QED BY <2>1, IdSets, TallyConstant
<1>2. Cardinality(Ops) \in Nat
  BY IdSets, FS_CardinalityType
<1>3. 0 * Cardinality(Ops) = 0
  BY <1>2
<1>4. Ledger!Claimed(d) = Tally(f, Ops)
  BY ClaimedIs
<1> QED BY <1>1, <1>3, <1>4

\* A recount makes the counters exact: they cover the rows whatever they were before.
LEMMA RecountCovers ==
    ASSUME TypeOK, TypeOK', Ledger!Recount, NEW d \in Dims
    PROVE  Ledger!Covered(d)' /\ (Ledger!Within(d) => Ledger!Within(d)')
<1>1. /\ Stored' = Stored /\ LedgerClaims' = LedgerClaims /\ LedgerCounter' = Stored
      /\ \A o \in Ops : LedgerClaims[o][d] = 0
  BY DEF Ledger!Recount, Ledger!Zero
<1>2. Ledger!Claimed(d)' = Ledger!Claimed(d)
  BY <1>1 DEF Ledger!Claimed, Ledger!Tally, Ledger!Cells
<1>3. Ledger!Claimed(d) = 0
  BY <1>1, NobodyClaims
<1>4. Stored[d] \in Int
  BY LedgerTyped DEF Amounts
<1> QED BY <1>1, <1>2, <1>3, <1>4, CoveredIs

-----------------------------------------------------------------------------
(* Types *)

\* The type of everything but the rows and the requests.
RestOK ==
    /\ counter \in Amounts /\ absent \subseteq Dims /\ quiet \in BOOLEAN
    /\ recount \in RecountValues
    /\ begun \in 0..MaxOps /\ faults \in 0..MaxFaults
    /\ excused \subseteq ever /\ ever \subseteq Excuses

\* The type invariant in three parts: rows, requests, the rest.
LEMMA TypeParts ==
    TypeOK <=> rows \in [Ids -> RowValues] /\ op \in [Ops -> OpValues] /\ RestOK
BY DEF TypeOK, RestOK

\* The same after a step.
LEMMA TypePartsNext ==
    TypeOK' <=> rows' \in [Ids -> RowValues] /\ op' \in [Ops -> OpValues] /\ RestOK'
BY DEF TypeOK, RestOK

\* A step of one request changes its own record only.
Moves(o) == op'[o] \in OpValues /\ op' = [op EXCEPT ![o] = op'[o]]

\* A step of one request leaves all of them typed.
LEMMA MovesTyped ==
    ASSUME TypeOK, NEW o \in Ops, Moves(o)
    PROVE  op' \in [Ops -> OpValues] /\ \A p \in Ops \ {o} : op'[p] = op[p]
BY OpsTyped DEF Moves

\* An idle request has its type.
LEMMA NoOpTyped == NoOp \in OpValues /\ NoMeasure \in RowValues
<1>1. NoMeasure \in RowValues
  BY DEF NoMeasure, RowValues
<1>2. 0 \in 0..Attempts
  BY QuotaAssumption
<1> QED BY <1>1, <1>2, AmountsAdd DEF NoOp, OpValues, Pcs, Kinds

\* A request moves on, or ends.
LEMMA GotoMoves ==
    ASSUME TypeOK, NEW o \in Ops, NEW pc \in Pcs, Goto(o, pc)
    PROVE  Moves(o) /\ op'[o] = [op[o] EXCEPT !.pc = pc]
<1>1. op[o] \in OpValues
  BY OpsTyped
<1>2. op'[o] = [op[o] EXCEPT !.pc = pc] /\ op' = [op EXCEPT ![o] = op'[o]]
  BY OpsTyped DEF Goto
<1>3. [op[o] EXCEPT !.pc = pc] \in OpValues
  BY <1>1 DEF OpValues
<1> QED BY <1>2, <1>3 DEF Moves

\* A request that ends is idle.
LEMMA EndMoves ==
    ASSUME TypeOK, NEW o \in Ops, End(o)
    PROVE  Moves(o) /\ op'[o] = NoOp
BY OpsTyped, NoOpTyped DEF End, Moves

\* Touch keeps the types.
LEMMA TouchTyped ==
    ASSUME RestOK, Touch
    PROVE  quiet' \in BOOLEAN /\ recount' \in RecountValues
BY DEF RestOK, Touch, RecountValues

\* The faults stay within their bound.
LEMMA FaultTyped ==
    ASSUME RestOK, Fault
    PROVE  faults' \in 0..MaxFaults
BY QuotaAssumption DEF RestOK, Fault

\* The correction of a settle keeps the types.
LEMMA CorrectedTyped ==
    ASSUME TypeOK, NEW o \in Ops, Corrected(o)
    PROVE  counter' \in Amounts /\ absent' = absent /\ quiet' \in BOOLEAN /\ recount' \in RecountValues
<1>1. RestOK /\ op[o] \in OpValues
  BY TypeParts
<1>2. Correction(o) \in Amounts
  BY <1>1, OpIsTyped, AmountsAdd DEF Correction
<1>3. counter' \in Amounts /\ absent' = absent
  BY <1>1, <1>2, AmountsAdd DEF Corrected, RestOK
<1>4. quiet' \in BOOLEAN /\ recount' \in RecountValues
  BY <1>1, TouchTyped DEF Corrected, RestOK
<1> QED BY <1>3, <1>4

\* The account keeps its types in every step of a request.
LEMMA OpRest ==
    ASSUME TypeOK, NEW o \in Ops, (\E r \in Requests : Begin(o, r)) \/ OpStep(o) \/ OpFails(o)
    PROVE  RestOK'
<1>0. RestOK /\ op[o] \in OpValues
  BY TypeParts
<1>1. CASE UNCHANGED <<account, begun, faults, history>>
  BY <1>1, <1>0 DEF account, history, RestOK
<1>2. ASSUME NEW r \in Requests, Begin(o, r) PROVE RestOK'
  <2>1. begun < MaxOps /\ begun' = begun + 1 /\ UNCHANGED <<account, faults, history>>
    BY <1>2 DEF Begin
  <2>2. begun' \in 0..MaxOps
    BY <2>1, <1>0, QuotaAssumption DEF RestOK
  <2> QED BY <2>1, <2>2, <1>0 DEF account, history, RestOK
<1>3. CASE UNCHANGED <<account, begun, history>> /\ Fault
  BY <1>3, <1>0, FaultTyped DEF account, history, RestOK
<1>4. CASE Reserve(o)
  <2>1. counter' \in Amounts
    BY <1>4, <1>0, OpIsTyped, AmountsAdd DEF Reserve, RestOK
  <2> QED BY <1>4, <1>0, <2>1, TouchTyped DEF Reserve, RestOK, history
<1>5. CASE Install(o)
  <2>1. CASE UNCHANGED account
    BY <2>1, <1>5, <1>0 DEF Install, account, history, RestOK
  <2>2. CASE counter' = [d \in Dims |-> IF d \in absent THEN op[o].total[d] ELSE counter[d]]
             /\ absent' = {} /\ Touch
    <3>1. counter' \in Amounts
      BY <2>2, <1>0, OpIsTyped DEF Amounts, RestOK
    <3> QED BY <1>5, <2>2, <1>0, <3>1, TouchTyped DEF Install, history, RestOK
  <2> QED BY <1>5, <2>1, <2>2 DEF Install
<1>6. CASE UNCHANGED <<account, begun, faults>> /\ \E X \in SUBSET Excuses : Excuse(X)
  BY <1>6, <1>0 DEF account, RestOK, Excuse
<1>7. CASE Corrected(o) /\ UNCHANGED <<begun, faults, history>>
  BY <1>7, <1>0, CorrectedTyped DEF RestOK, history
<1>8. CASE OpStep(o)
  <2>1. CASE LandedInserts(o) \/ \E id \in Ids, size \in Sizes : Reseal(o, id, size)
    BY <1>6, <2>1 DEF LandedInserts, Reseal, Excuses
  <2>2. CASE Settle(o) \/ SettleThenWithdraw(o) \/ ReleaseAndRetry(o)
    BY <1>7, <2>2 DEF Settle, SettleThenWithdraw, ReleaseAndRetry
  <2>3. CASE ReserveRefused(o) \/ ReserveAbsent(o) \/ CountItems(o) \/ CountFolders(o)
             \/ ImportCommit(o) \/ WalkEnds(o) \/ ResealEnds(o)
    BY <1>1, <2>3 DEF ReserveRefused, ReserveAbsent, CountItems, CountFolders, ImportCommit,
                      WalkEnds, ResealEnds
  <2>4. ASSUME NEW id \in Ids,
               Insert(o, id) \/ Measure(o, id) \/ WritePinned(o, id) \/ PinMissed(o, id) \/ Walk(o, id)
        PROVE  RestOK'
    BY <1>1, <2>4 DEF Insert, Measure, WritePinned, PinMissed, Walk
  <2> QED BY <1>8, <1>4, <1>5, <2>1, <2>2, <2>3, <2>4, Zenon DEF OpStep
<1>9. CASE OpFails(o)
  <2>1. CASE Crash(o) \/ InsertUnknown(o) \/ CommitUnknown(o)
    BY <1>3, <2>1 DEF Crash, InsertUnknown, CommitUnknown
  <2>2. ASSUME NEW id \in Ids, OutcomeUnknown(o, id) \/ WalkUnknown(o, id) PROVE RestOK'
    BY <1>3, <2>2 DEF OutcomeUnknown, WalkUnknown
  <2> QED BY <1>9, <2>1, <2>2 DEF OpFails
<1> QED BY <1>2, <1>8, <1>9

-----------------------------------------------------------------------------
(* The books of a request *)

\* Nothing taken away.
LEMMA MinusZero == \A x \in Amounts : Minus(x, Zero) = x
BY DEF Minus, Zero, Amounts

\* A prediction is an amount, and never negative.
LEMMA PredictedTyped ==
    ASSUME NEW r, r.ids \subseteq Ids, r.size \in Nat
    PROVE  Predicted(r) \in Amounts /\ \A d \in Dims : Predicted(r)[d] >= 0
<1>1. IsFiniteSet(r.ids)
  BY IdSets, FS_Subset
<1>2. Cardinality(r.ids) \in Nat
  BY <1>1, FS_CardinalityType
<1>3. Cardinality(r.ids \cap Items) \in Nat
  <2>1. IsFiniteSet(r.ids \cap Items)
    BY IdSets, FS_Intersection
  <2> QED BY <2>1, FS_CardinalityType
<1>4. Cardinality(r.ids \cap Folders) \in Nat
  <2>1. IsFiniteSet(r.ids \cap Folders)
    BY IdSets, FS_Intersection
  <2> QED BY <2>1, FS_CardinalityType
<1>5. r.size * Cardinality(r.ids) \in Nat
  BY <1>2
<1> QED BY <1>2, <1>3, <1>4, <1>5 DEF Predicted, Amounts, Dims, Zero

\* What a request has still to write is an amount.
LEMMA DueTyped ==
    ASSUME NEW x \in OpValues
    PROVE  Due(x) \in Amounts /\ \A d \in Dims : Due(x)[d] >= 0
<1>1. x.todo \subseteq Ids /\ x.size \in Nat /\ x.measure.size \in Nat
  BY OpIsTyped, RowIsTyped
<1>2. CASE x.kind = "update"
  <2>1. x.size - x.measure.size \in Int
    BY <1>1
  <2>2. \A n \in Int : Growth(n) \in Amounts /\ \A d \in Dims : Growth(n)[d] >= 0
    BY DEF Growth, Bytes, Zero, Amounts, Dims
  <2> QED BY <1>2, <2>1, <2>2 DEF Due
<1>3. CASE x.kind # "update"
  <2> DEFINE r == [kind |-> x.kind, ids |-> x.todo, size |-> x.size]
  <2>1. r.ids \subseteq Ids /\ r.size \in Nat
    BY <1>1
  <2>2. Due(x) = Predicted(r)
    BY <1>3 DEF Due
  <2> HIDE DEF r
  <2> QED BY <2>1, <2>2, PredictedTyped
<1> QED BY <1>2, <1>3

\* An idle request owes nothing and pins nothing.
LEMMA NoOpBalanced == Balanced(NoOp) /\ Pinned(NoOp)
BY DEF Balanced, Pinned, NoOp, KindsAt, Kinds

\* The state between Reserve's first write and the end has no books to balance.
LEMMA FreeBalanced ==
    ASSUME NEW x \in OpValues, Balanced(x), NEW y \in OpValues, y.pc \in {"settle", "walk", "reseal"},
           y.kind = x.kind, y.size = x.size, y.todo \subseteq x.todo
    PROVE  Balanced(y) /\ Pinned(y)
<1>1. y.kind \in KindsAt(y.pc)
  BY OpIsTyped DEF KindsAt
<1> QED BY <1>1 DEF Balanced, Pinned

\* Before the first write only the totals of a first count change.
LEMMA BeforeBalanced ==
    ASSUME NEW x \in OpValues, Balanced(x), NEW y \in OpValues,
           x.pc \in {"reserve", "count", "count2", "install"},
           y.pc \in {"reserve", "count", "count2", "install"},
           y.kind = x.kind, y.size = x.size, y.todo = x.todo, y.measure = x.measure,
           y.resv = x.resv, y.landed = x.landed
    PROVE  Balanced(y) /\ (Pinned(x) => Pinned(y))
<1>1. y.kind \in KindsAt(y.pc)
  BY DEF KindsAt, Balanced
<1>2. Due(y) = Due(x)
  BY DEF Due
<1> QED BY <1>1, <1>2 DEF Balanced, Pinned

\* A row of the prediction is written: the rest is still predicted.
LEMMA DueShrinks ==
    ASSUME NEW x \in OpValues, x.kind \in {"create", "import"}, NEW id \in x.todo,
           NEW y \in OpValues, y.kind = x.kind, y.size = x.size, y.todo = x.todo \ {id}
    PROVE  Due(y) = Minus(Due(x), RowOf(id, x.size))
<1> DEFINE T == x.todo
<1>1. T \subseteq Ids /\ x.size \in Nat /\ id \in Ids
  BY OpIsTyped
<1>2. (id \in Items <=> id \notin Folders)
  BY <1>1, IdSets DEF Ids
<1>3. IsFiniteSet(T) /\ IsFiniteSet(T \cap Items) /\ IsFiniteSet(T \cap Folders)
  BY <1>1, IdSets, FS_Subset, FS_Intersection
<1>4. /\ Cardinality(T) \in Nat /\ Cardinality(T \cap Items) \in Nat /\ Cardinality(T \cap Folders) \in Nat
      /\ Cardinality(T \ {id}) = Cardinality(T) - 1
  BY <1>3, FS_CardinalityType, FS_RemoveElement
<1>5. Cardinality((T \ {id}) \cap Items) = Cardinality(T \cap Items) - (IF id \in Items THEN 1 ELSE 0)
  <2>1. (T \ {id}) \cap Items = (T \cap Items) \ {id}
    OBVIOUS
  <2>2. Cardinality((T \cap Items) \ {id})
          = IF id \in T \cap Items THEN Cardinality(T \cap Items) - 1 ELSE Cardinality(T \cap Items)
    BY <1>3, FS_RemoveElement
  <2>3. id \in T \cap Items <=> id \in Items
    OBVIOUS
  <2>4. Cardinality((T \ {id}) \cap Items) = Cardinality((T \cap Items) \ {id})
    BY <2>1, Zenon
  <2>5. CASE id \in Items
    BY <2>2, <2>3, <2>4, <2>5, <1>4
  <2>6. CASE id \notin Items
    BY <2>2, <2>3, <2>4, <2>6, <1>4
  <2> QED BY <2>5, <2>6
<1>6. Cardinality((T \ {id}) \cap Folders) = Cardinality(T \cap Folders) - (IF id \in Folders THEN 1 ELSE 0)
  <2>1. (T \ {id}) \cap Folders = (T \cap Folders) \ {id}
    OBVIOUS
  <2>2. Cardinality((T \cap Folders) \ {id})
          = IF id \in T \cap Folders THEN Cardinality(T \cap Folders) - 1 ELSE Cardinality(T \cap Folders)
    BY <1>3, FS_RemoveElement
  <2>3. id \in T \cap Folders <=> id \in Folders
    OBVIOUS
  <2>4. Cardinality((T \ {id}) \cap Folders) = Cardinality((T \cap Folders) \ {id})
    BY <2>1, Zenon
  <2>5. CASE id \in Folders
    BY <2>2, <2>3, <2>4, <2>5, <1>4
  <2>6. CASE id \notin Folders
    BY <2>2, <2>3, <2>4, <2>6, <1>4
  <2> QED BY <2>5, <2>6
<1>7. x.size * (Cardinality(T) - 1) = x.size * Cardinality(T) - x.size
  BY <1>1, <1>4
<1>8. Due(x) = [bytes |-> x.size * Cardinality(T), item |-> Cardinality(T \cap Items),
                folder |-> Cardinality(T \cap Folders)]
  BY DEF Due, Predicted
<1>9. Due(y) = [bytes |-> x.size * Cardinality(T \ {id}), item |-> Cardinality((T \ {id}) \cap Items),
                folder |-> Cardinality((T \ {id}) \cap Folders)]
  BY DEF Due, Predicted
<1>10. /\ RowOf(id, x.size) \in Amounts
       /\ RowOf(id, x.size)["bytes"] = x.size
       /\ RowOf(id, x.size)["item"] = (IF id \in Items THEN 1 ELSE 0)
       /\ RowOf(id, x.size)["folder"] = (IF id \in Folders THEN 1 ELSE 0)
  BY <1>1, <1>2 DEF RowOf, Zero, Dims, KindOf, Amounts
<1> HIDE DEF T
<1>11. \A d \in Dims : Due(y)[d] = Due(x)[d] - RowOf(id, x.size)[d]
  BY <1>4, <1>5, <1>6, <1>7, <1>8, <1>9, <1>10 DEF Dims
<1>12. Due(y) \in Amounts
  BY DueTyped
<1> QED BY <1>11, <1>12 DEF Minus, Amounts

\* A request's own record after its step.
Own(o) == Moves(o) /\ Balanced(op'[o]) /\ Pinned(op[o])'

\* What the invariant says of one request.
LEMMA InvParts ==
    ASSUME CountersCover, NEW o \in Ops
    PROVE  TypeOK /\ op[o] \in OpValues /\ Balanced(op[o]) /\ Pinned(op[o])
BY OpsTyped DEF CountersCover

\* Without a pin there is nothing to hold.
LEMMA Unpinned ==
    ASSUME NEW o \in Ops, op'[o].pc \notin {"reserve", "count", "count2", "install", "write"}
    PROVE  Pinned(op[o])'
BY DEF Pinned

\* The end of a request.
LEMMA EndOwn ==
    ASSUME CountersCover, NEW o \in Ops, End(o)
    PROVE  Own(o)
<1>1. Moves(o) /\ op'[o] = NoOp
  BY InvParts, EndMoves
<1>2. op'[o].pc = "idle"
  BY <1>1 DEF NoOp
<1> QED BY <1>1, <1>2, NoOpBalanced, Unpinned DEF Own

\* From its last write on a request has only its correction to make.
LEMMA FreeOwn ==
    ASSUME CountersCover, NEW o \in Ops, Moves(o),
           op'[o].pc \in {"settle", "walk", "reseal"},
           op'[o].kind = op[o].kind, op'[o].size = op[o].size, op'[o].todo \subseteq op[o].todo
    PROVE  Own(o)
<1>1. Balanced(op'[o])
  BY InvParts, FreeBalanced DEF Moves
<1> QED BY <1>1, Unpinned DEF Own

\* A request that goes to its settle.
LEMMA SettleOwn ==
    ASSUME CountersCover, NEW o \in Ops, Goto(o, "settle")
    PROVE  Own(o)
<1>1. Moves(o) /\ op'[o] = [op[o] EXCEPT !.pc = "settle"]
  BY InvParts, GotoMoves DEF Pcs
<1>2. op'[o].pc = "settle" /\ op'[o].kind = op[o].kind /\ op'[o].size = op[o].size /\ op'[o].todo = op[o].todo
  BY <1>1, InvParts DEF OpValues
<1> QED BY <1>1, <1>2, FreeOwn

\* Before its first write a request keeps its prediction and its pin.
LEMMA BeforeOwn ==
    ASSUME CountersCover, NEW o \in Ops, Moves(o), rows' = rows,
           op[o].pc \in {"reserve", "count", "count2", "install"},
           op'[o].pc \in {"reserve", "count", "count2", "install"},
           op'[o].kind = op[o].kind, op'[o].size = op[o].size, op'[o].todo = op[o].todo,
           op'[o].measure = op[o].measure, op'[o].resv = op[o].resv, op'[o].landed = op[o].landed
    PROVE  Own(o)
<1>1. Balanced(op'[o])
  BY InvParts, BeforeBalanced DEF Moves
<1>2. Pinned(op[o])'
  BY InvParts DEF Pinned, PinHolds, Exists
<1> QED BY <1>1, <1>2 DEF Own

\* A request begins with its prediction as its reservation.
LEMMA BeginOwn ==
    ASSUME CountersCover, NEW o \in Ops, NEW r \in Requests, Begin(o, r)
    PROVE  Own(o)
<1>0. TypeOK
  BY InvParts
<1>1. /\ r.kind \in {"create", "update", "remove", "import", "importTxn", "rotate"}
      /\ r.ids \subseteq Ids /\ r.size \in Sizes
      /\ r.kind = "update" => \A a, b \in r.ids : a = b
  BY QuotaAssumption DEF Ids
<1>2. r.size \in Nat
  BY <1>1, SizesAreNat
<1>3. Predicted(r) \in Amounts
  BY <1>1, <1>2, PredictedTyped
<1> DEFINE y == [NoOp EXCEPT !.pc = IF r.kind = "update" THEN "measure" ELSE "reserve",
                 !.kind = r.kind, !.todo = r.ids, !.size = r.size, !.resv = Predicted(r)]
<1>4. /\ y.pc = (IF r.kind = "update" THEN "measure" ELSE "reserve")
      /\ y.kind = r.kind /\ y.todo = r.ids /\ y.size = r.size /\ y.resv = Predicted(r)
      /\ y.landed = Zero
  BY DEF NoOp
<1>5. y \in OpValues
  BY <1>1, <1>3, NoOpTyped DEF OpValues, Pcs, Kinds, NoOp
<1>6. op' = [op EXCEPT ![o] = y] /\ op'[o] = y
  BY <1>0, OpsTyped DEF Begin
<1> HIDE DEF y
<1>7. Moves(o)
  BY <1>5, <1>6 DEF Moves
<1>8. Balanced(y)
  <2>1. y.kind \in KindsAt(y.pc)
    BY <1>1, <1>4 DEF KindsAt, Kinds
  <2>2. y.pc = "reserve" => Minus(y.resv, y.landed) = Due(y)
    BY <1>3, <1>4, MinusZero DEF Due, Predicted
  <2> QED BY <1>1, <1>4, <2>1, <2>2 DEF Balanced
<1>9. Pinned(op[o])'
  BY <1>4, <1>6 DEF Pinned
<1> QED BY <1>6, <1>7, <1>8, <1>9 DEF Own

\* A reservation starts the writes with the prediction intact.
LEMMA ReserveOwn ==
    ASSUME CountersCover, NEW o \in Ops, Reserve(o)
    PROVE  Own(o)
<1>0. TypeOK /\ op[o] \in OpValues /\ Balanced(op[o]) /\ Pinned(op[o]) /\ op[o].pc = "reserve"
      /\ rows' = rows /\ Goto(o, FirstWrite(op[o].kind))
  BY InvParts DEF Reserve, At
<1>1. op[o].kind \in Kinds \ {"none"}
  BY <1>0 DEF Balanced, KindsAt
<1>2. /\ FirstWrite(op[o].kind) \in Pcs
      /\ op[o].kind \in KindsAt(FirstWrite(op[o].kind))
      /\ op[o].kind = "update" <=> FirstWrite(op[o].kind) = "write"
      /\ FirstWrite(op[o].kind) \in {"insert", "write", "walk", "txn", "reseal"}
  BY <1>1 DEF FirstWrite, Pcs, Kinds, KindsAt
<1>3. Moves(o) /\ op'[o] = [op[o] EXCEPT !.pc = FirstWrite(op[o].kind)]
  BY <1>0, <1>2, GotoMoves
<1>4. /\ op'[o].pc = FirstWrite(op[o].kind) /\ op'[o].kind = op[o].kind /\ op'[o].size = op[o].size
      /\ op'[o].todo = op[o].todo /\ op'[o].measure = op[o].measure
      /\ op'[o].resv = op[o].resv /\ op'[o].landed = op[o].landed
  BY <1>0, <1>3 DEF OpValues
<1>5. Due(op'[o]) = Due(op[o])
  BY <1>4 DEF Due
<1>6. Balanced(op'[o])
  BY <1>0, <1>2, <1>4, <1>5 DEF Balanced
<1>7. Pinned(op[o])'
  BY <1>0, <1>4 DEF Pinned, PinHolds, Exists
<1> QED BY <1>3, <1>6, <1>7 DEF Own

\* The steps of an install leave the prediction alone.
LEMMA CountOwn ==
    ASSUME CountersCover, NEW o \in Ops,
           ReserveAbsent(o) \/ CountItems(o) \/ CountFolders(o) \/ Install(o)
    PROVE  Own(o)
<1>0. TypeOK /\ op[o] \in OpValues
  BY InvParts
<1>1. ItemTotals \in Amounts /\ FolderTotals \in Amounts
  BY <1>0, RowsTyped, StoredParts DEF Amounts
<1>2. op[o].total \in Amounts /\ Plus(op[o].total, FolderTotals) \in Amounts
  BY <1>0, <1>1, OpIsTyped, AmountsAdd
<1>3. ASSUME NEW pc \in {"reserve", "count", "count2", "install"}, NEW n \in Amounts,
             rows' = rows, op[o].pc \in {"reserve", "count", "count2", "install"},
             op' = [op EXCEPT ![o].pc = pc, ![o].total = n]
      PROVE  Own(o)
  <2>1. op'[o] = [op[o] EXCEPT !.pc = pc, !.total = n] /\ op' = [op EXCEPT ![o] = op'[o]]
    BY <1>0, <1>3, OpsTyped
  <2>2. op'[o] \in OpValues
    BY <1>0, <2>1 DEF OpValues, Pcs
  <2>3. Moves(o)
    BY <2>1, <2>2 DEF Moves
  <2>4. /\ op'[o].pc = pc /\ op'[o].kind = op[o].kind /\ op'[o].size = op[o].size
        /\ op'[o].todo = op[o].todo /\ op'[o].measure = op[o].measure
        /\ op'[o].resv = op[o].resv /\ op'[o].landed = op[o].landed
    BY <1>0, <2>1 DEF OpValues
  <2> QED BY <1>3, <2>3, <2>4, BeforeOwn
<1>4. CASE ReserveAbsent(o)
  <2>1. Moves(o) /\ op'[o] = [op[o] EXCEPT !.pc = "count"]
    BY <1>0, <1>4, GotoMoves DEF ReserveAbsent, Pcs
  <2>2. /\ op'[o].pc = "count" /\ op'[o].kind = op[o].kind /\ op'[o].size = op[o].size
        /\ op'[o].todo = op[o].todo /\ op'[o].measure = op[o].measure
        /\ op'[o].resv = op[o].resv /\ op'[o].landed = op[o].landed
    BY <1>0, <2>1 DEF OpValues
  <2> QED BY <1>4, <2>1, <2>2, BeforeOwn DEF ReserveAbsent, At
<1>5. CASE CountItems(o)
  BY <1>1, <1>3, <1>5 DEF CountItems, At
<1>6. CASE CountFolders(o)
  <2>1. op' = [op EXCEPT ![o].pc = "install", ![o].total = Plus(op[o].total, FolderTotals)]
    BY <1>0, <1>6, OpsTyped DEF CountFolders
  <2> QED BY <1>2, <1>3, <1>6, <2>1 DEF CountFolders, At
<1>7. CASE Install(o)
  BY <1>3, <1>7, AmountsAdd DEF Install, At
<1> QED BY <1>4, <1>5, <1>6, <1>7

\* An import that was refused a row goes on to measure.
LEMMA LandedOwn ==
    ASSUME CountersCover, NEW o \in Ops, op[o].kind = "import", Goto(o, "landed")
    PROVE  Own(o)
<1>0. TypeOK /\ op[o] \in OpValues /\ Balanced(op[o])
  BY InvParts
<1>1. Moves(o) /\ op'[o] = [op[o] EXCEPT !.pc = "landed"]
  BY <1>0, GotoMoves DEF Pcs
<1>2. op'[o].pc = "landed" /\ op'[o].kind = op[o].kind /\ op'[o].size = op[o].size /\ op'[o].todo = op[o].todo
  BY <1>0, <1>1 DEF OpValues
<1>3. Balanced(op'[o])
  BY <1>0, <1>2 DEF Balanced, KindsAt
<1> QED BY <1>1, <1>2, <1>3, Unpinned DEF Own

\* An inserted row comes out of what was still to write.
LEMMA InsertOwn ==
    ASSUME CountersCover, NEW o \in Ops, NEW id \in Ids, Insert(o, id)
    PROVE  Own(o)
<1>0. /\ TypeOK /\ op[o] \in OpValues /\ Balanced(op[o]) /\ op[o].pc = "insert" /\ id \in op[o].todo
      /\ op \in [Ops -> OpValues]
  BY InvParts, OpsTyped DEF Insert, At
<1>1. /\ op[o].kind \in {"create", "import"} /\ op[o].size \in Sizes
      /\ Minus(op[o].resv, op[o].landed) = Due(op[o])
  BY <1>0 DEF Balanced, KindsAt
<1>2. op[o].resv \in Amounts /\ op[o].landed \in Amounts /\ op[o].size \in Nat /\ op[o].todo \subseteq Ids
      /\ op[o].done \subseteq Ids /\ op[o].measure \in RowValues
  BY <1>0, OpIsTyped
<1>3. RowOf(id, op[o].size) \in Amounts /\ Adding(o, RowOf(id, op[o].size)) \in Amounts
  BY <1>2, AmountsAdd DEF Adding
<1>4. Inserted(id, op[o].size) \in RowValues
  BY <1>0, <1>1, RowsTyped, RowIsTyped DEF Inserted, RowValues
<1>5. CASE ~Exists(id)
  <2> DEFINE y == [op[o] EXCEPT !.todo = @ \ {id}, !.done = @ \cup {id},
                      !.landed = Adding(o, RowOf(id, op[o].size)),
                      !.measure = IF op[o].kind = "create" THEN Inserted(id, op[o].size) ELSE @,
                      !.pc = IF op[o].todo = {id} THEN "settle" ELSE "insert"]
  <2>1. op' = [op EXCEPT ![o] = y] /\ op'[o] = y
    BY <1>0, <1>5 DEF Insert
  <2>2. /\ y.todo = op[o].todo \ {id} /\ y.landed = Adding(o, RowOf(id, op[o].size))
        /\ y.kind = op[o].kind /\ y.size = op[o].size /\ y.resv = op[o].resv
        /\ y.pc = (IF op[o].todo = {id} THEN "settle" ELSE "insert")
    BY <1>0 DEF OpValues
  <2>3. y \in OpValues
    BY <1>0, <1>2, <1>3, <1>4 DEF OpValues, Pcs
  <2> HIDE DEF y
  <2>4. Moves(o)
    BY <2>1, <2>3 DEF Moves
  <2>5. CASE y.pc = "settle"
    BY <2>1, <2>2, <2>4, <2>5, FreeOwn
  <2>6. CASE y.pc = "insert"
    <3>1. Due(y) = Minus(Due(op[o]), RowOf(id, op[o].size))
      BY <1>0, <1>1, <2>2, <2>3, DueShrinks
    <3>2. Minus(y.resv, y.landed) = Minus(Minus(op[o].resv, op[o].landed), RowOf(id, op[o].size))
      BY <1>2, <1>3, <2>2 DEF Minus, Adding, Plus, Amounts
    <3>3. y.kind \in KindsAt(y.pc)
      BY <1>1, <2>2, <2>6 DEF KindsAt
    <3>4. Balanced(y)
      BY <1>1, <2>2, <2>6, <3>1, <3>2, <3>3 DEF Balanced
    <3> QED BY <2>1, <2>4, <2>6, <3>4, Unpinned DEF Own
  <2> QED BY <2>2, <2>5, <2>6
<1>6. CASE Exists(id)
  <2>1. Goto(o, IF op[o].kind = "import" THEN "landed" ELSE "settle")
    BY <1>6 DEF Insert
  <2>2. CASE op[o].kind = "import"
    BY <1>0, <2>1, <2>2, LandedOwn
  <2>3. CASE op[o].kind # "import"
    BY <2>1, <2>3, SettleOwn
  <2> QED BY <2>2, <2>3
<1> QED BY <1>5, <1>6

\* The measure of the landed rows replaces the tally.
LEMMA LandedInsertsOwn ==
    ASSUME CountersCover, NEW o \in Ops, LandedInserts(o)
    PROVE  Own(o) /\ op'[o] = [op[o] EXCEPT !.pc = "settle", !.landed = LandedRows(o)]
<1>0. TypeOK /\ op[o] \in OpValues /\ op \in [Ops -> OpValues]
  BY InvParts, OpsTyped
<1>1. LandedRows(o) \in Amounts
  <2>1. op[o].done \subseteq Ids /\ IsFiniteSet(op[o].done)
    BY <1>0, OpIsTyped, IdSets, FS_Subset
  <2>2. SizeOf(op[o].done) \in Nat /\ RowsIn(op[o].done) \in Nat
    BY <1>0, <2>1, RowsTyped, SizeOfNat
  <2> QED BY <2>2 DEF LandedRows, Amounts, Dims
<1>2. op'[o] = [op[o] EXCEPT !.pc = "settle", !.landed = LandedRows(o)] /\ op' = [op EXCEPT ![o] = op'[o]]
  BY <1>0 DEF LandedInserts
<1>3. op'[o] \in OpValues
  BY <1>0, <1>1, <1>2 DEF OpValues, Pcs
<1>4. Moves(o)
  BY <1>2, <1>3 DEF Moves
<1>5. op'[o].pc = "settle" /\ op'[o].kind = op[o].kind /\ op'[o].size = op[o].size /\ op'[o].todo = op[o].todo
  BY <1>0, <1>2 DEF OpValues
<1> QED BY <1>2, <1>4, <1>5, FreeOwn

\* A commit, or a transaction that was refused.
LEMMA ImportCommitOwn ==
    ASSUME CountersCover, NEW o \in Ops, ImportCommit(o)
    PROVE  Own(o)
<1>0. TypeOK /\ op[o] \in OpValues /\ op \in [Ops -> OpValues] /\ op[o].resv \in Amounts
  BY InvParts, OpsTyped, OpIsTyped
<1>1. CASE op' = [op EXCEPT ![o].pc = "settle", ![o].landed = op[o].resv]
  <2>1. op'[o] = [op[o] EXCEPT !.pc = "settle", !.landed = op[o].resv] /\ op' = [op EXCEPT ![o] = op'[o]]
    BY <1>0, <1>1
  <2>2. op'[o] \in OpValues
    BY <1>0, <2>1 DEF OpValues, Pcs
  <2>3. Moves(o)
    BY <2>1, <2>2 DEF Moves
  <2>4. op'[o].pc = "settle" /\ op'[o].kind = op[o].kind /\ op'[o].size = op[o].size /\ op'[o].todo = op[o].todo
    BY <1>0, <2>1 DEF OpValues
  <2> QED BY <2>3, <2>4, FreeOwn
<1>2. CASE Goto(o, "settle")
  BY <1>2, SettleOwn
<1> QED BY <1>1, <1>2 DEF ImportCommit

\* A measure is a pin, and the growth predicted from it.
LEMMA MeasureOwn ==
    ASSUME CountersCover, NEW o \in Ops, NEW id \in Ids, Measure(o, id)
    PROVE  Own(o)
<1>0. /\ TypeOK /\ op[o] \in OpValues /\ Balanced(op[o]) /\ op[o].pc = "measure" /\ id \in op[o].todo
      /\ op \in [Ops -> OpValues] /\ rows' = rows
  BY InvParts, OpsTyped DEF Measure, At
<1>1. /\ op[o].kind = "update" /\ op[o].size \in Sizes /\ op[o].landed = Zero
      /\ \A a, b \in op[o].todo : a = b
  BY <1>0 DEF Balanced, KindsAt
<1>2. rows[id] \in RowValues /\ rows[id].size \in Nat /\ rows[id].inc \in Nat /\ rows[id].v \in Nat
      /\ op[o].size \in Nat
  BY <1>0, RowsTyped, RowIsTyped, OpIsTyped
<1>3. CASE End(o)
  BY <1>3, EndOwn
<1>4. CASE op' = [op EXCEPT ![o].pc = "reserve", ![o].measure = rows[id],
                             ![o].resv = Growth(op[o].size - rows[id].size)]
  <2> DEFINE g == Growth(op[o].size - rows[id].size)
  <2>1. g \in Amounts
    BY <1>2, AmountsAdd
  <2> HIDE DEF g
  <2>2. op'[o] = [op[o] EXCEPT !.pc = "reserve", !.measure = rows[id], !.resv = g] /\ op' = [op EXCEPT ![o] = op'[o]]
    BY <1>0, <1>4 DEF g
  <2>3. op'[o] \in OpValues
    BY <1>0, <1>2, <2>1, <2>2 DEF OpValues, Pcs
  <2>4. Moves(o)
    BY <2>2, <2>3 DEF Moves
  <2>5. /\ op'[o].pc = "reserve" /\ op'[o].kind = "update" /\ op'[o].size = op[o].size
        /\ op'[o].todo = op[o].todo /\ op'[o].measure = rows[id] /\ op'[o].resv = g
        /\ op'[o].landed = Zero
    BY <1>0, <1>1, <2>2 DEF OpValues
  <2>6. Due(op'[o]) = g
    BY <2>5 DEF Due, g
  <2>7. Minus(op'[o].resv, op'[o].landed) = Due(op'[o])
    BY <2>1, <2>5, <2>6, MinusZero
  <2>8. op'[o].kind \in KindsAt(op'[o].pc)
    BY <2>5 DEF KindsAt, Kinds
  <2>9. Balanced(op'[o])
    BY <1>1, <2>5, <2>7, <2>8 DEF Balanced
  <2>10. \A i \in op[o].todo : i = id
    BY <1>0, <1>1
  <2>11. Pinned(op[o])'
    BY <1>0, <1>2, <2>5, <2>10 DEF Pinned
  <2> QED BY <2>4, <2>9, <2>11 DEF Own
<1> QED BY <1>3, <1>4 DEF Measure

\* A pinned write, or a pin that is missed.
LEMMA WriteOwn ==
    ASSUME CountersCover, NEW o \in Ops, NEW id \in Ids, WritePinned(o, id) \/ PinMissed(o, id)
    PROVE  Own(o)
<1>0. /\ TypeOK /\ op[o] \in OpValues /\ Balanced(op[o]) /\ op[o].pc = "write"
      /\ op \in [Ops -> OpValues]
  BY InvParts, OpsTyped DEF WritePinned, PinMissed, At
<1>1. CASE WritePinned(o, id)
  <2>0. op[o].size \in Nat /\ op[o].measure.size \in Nat
    BY <1>0, OpIsTyped, RowIsTyped
  <2> DEFINE g == Bytes(op[o].size - op[o].measure.size)
  <2>1. g \in Amounts
    BY <2>0, AmountsAdd
  <2> HIDE DEF g
  <2>2. op'[o] = [op[o] EXCEPT !.pc = "settle", !.landed = g] /\ op' = [op EXCEPT ![o] = op'[o]]
    BY <1>0, <1>1 DEF g, WritePinned
  <2>3. op'[o] \in OpValues
    BY <1>0, <2>1, <2>2 DEF OpValues, Pcs
  <2>4. Moves(o)
    BY <2>2, <2>3 DEF Moves
  <2>5. op'[o].pc = "settle" /\ op'[o].kind = op[o].kind /\ op'[o].size = op[o].size /\ op'[o].todo = op[o].todo
    BY <1>0, <2>2 DEF OpValues
  <2> QED BY <2>4, <2>5, FreeOwn
<1>2. CASE PinMissed(o, id)
  <2>1. Moves(o) /\ op'[o] = [op[o] EXCEPT !.pc = "retry"]
    BY <1>0, <1>2, GotoMoves DEF PinMissed, Pcs
  <2>2. /\ op'[o].pc = "retry" /\ op'[o].kind = op[o].kind /\ op'[o].size = op[o].size
        /\ op'[o].todo = op[o].todo /\ op'[o].landed = op[o].landed
    BY <1>0, <2>1 DEF OpValues
  <2>3. op'[o].kind \in KindsAt(op'[o].pc)
    BY <1>0, <2>2 DEF Balanced, KindsAt
  <2>4. Balanced(op'[o])
    BY <1>0, <2>2, <2>3 DEF Balanced
  <2> QED BY <2>1, <2>2, <2>4, Unpinned DEF Own
<1> QED BY <1>1, <1>2

\* A removal, and a rotated row.
LEMMA WalkOwn ==
    ASSUME CountersCover, NEW o \in Ops, NEW id \in Ids, NEW size \in Nat,
           Walk(o, id) \/ Reseal(o, id, size)
    PROVE  Own(o)
<1>0. /\ TypeOK /\ op[o] \in OpValues /\ op \in [Ops -> OpValues]
      /\ op[o].todo \subseteq Ids /\ op[o].landed \in Amounts
  BY InvParts, OpsTyped, OpIsTyped
<1>1. rows[id].size \in Nat /\ size \in Nat
  BY <1>0, RowsTyped, RowIsTyped
<1>2. ASSUME NEW n \in Amounts, op[o].pc \in {"walk", "reseal"},
             op' = [op EXCEPT ![o].todo = @ \ {id}, ![o].landed = Adding(o, n)]
      PROVE  Own(o)
  <2> DEFINE g == Adding(o, n)
  <2>1. g \in Amounts
    BY <1>0, AmountsAdd DEF Adding
  <2> HIDE DEF g
  <2>2. op'[o] = [op[o] EXCEPT !.todo = op[o].todo \ {id}, !.landed = g] /\ op' = [op EXCEPT ![o] = op'[o]]
    BY <1>0, <1>2 DEF g
  <2>3. op'[o] \in OpValues
    BY <1>0, <2>1, <2>2 DEF OpValues
  <2>4. Moves(o)
    BY <2>2, <2>3 DEF Moves
  <2>5. /\ op'[o].pc = op[o].pc /\ op'[o].kind = op[o].kind /\ op'[o].size = op[o].size
        /\ op'[o].todo = op[o].todo \ {id}
    BY <1>0, <2>2 DEF OpValues
  <2> QED BY <1>2, <2>4, <2>5, FreeOwn
<1>3. CASE Walk(o, id)
  <2>1. Removal(id) \in Amounts
    BY <1>1, AmountsAdd DEF Removal
  <2> QED BY <1>2, <1>3, <2>1 DEF Walk, At
<1>4. CASE Reseal(o, id, size)
  <2>1. Bytes(size - rows[id].size) \in Amounts
    BY <1>1, AmountsAdd
  <2> QED BY <1>2, <1>4, <2>1 DEF Reseal, At
<1> QED BY <1>3, <1>4

\* The settle of a created row that is withdrawn.
LEMMA WithdrawOwn ==
    ASSUME CountersCover, NEW o \in Ops, SettleThenWithdraw(o)
    PROVE  Own(o)
<1>0. TypeOK /\ op[o] \in OpValues /\ op \in [Ops -> OpValues]
  BY InvParts, OpsTyped
<1>1. op[o].done \subseteq Ids /\ op[o].measure \in RowValues
  BY <1>0, OpIsTyped
<1>2. PICK id \in op[o].done :
          op' = [op EXCEPT ![o] = [NoOp EXCEPT !.pc = "reserve", !.kind = "withdraw",
                                     !.todo = {id}, !.measure = op[o].measure]]
  BY DEF SettleThenWithdraw
<1> DEFINE y == [NoOp EXCEPT !.pc = "reserve", !.kind = "withdraw", !.todo = {id},
                             !.measure = op[o].measure]
<1>3. y.pc = "reserve" /\ y.kind = "withdraw" /\ y.resv = Zero /\ y.landed = Zero
  BY DEF NoOp
<1>4. y \in OpValues
  <2>1. {id} \subseteq Ids
    BY <1>1
  <2> QED BY <1>1, <2>1, NoOpTyped DEF OpValues, Pcs, Kinds, NoOp
<1>5. op' = [op EXCEPT ![o] = y] /\ op'[o] = y
  BY <1>0, <1>2
<1> HIDE DEF y
<1>6. Due(y) = Zero
  BY <1>3 DEF Due, Predicted
<1>7. Balanced(y)
  BY <1>3, <1>6, MinusZero, AmountsAdd DEF Balanced, KindsAt, Kinds
<1>8. Pinned(op[o])'
  BY <1>3, <1>5 DEF Pinned
<1> QED BY <1>4, <1>5, <1>7, <1>8 DEF Own, Moves

\* A retry measures again, with nothing reserved.
LEMMA RetryOwn ==
    ASSUME CountersCover, NEW o \in Ops, ReleaseAndRetry(o)
    PROVE  Own(o)
<1>0. TypeOK /\ op[o] \in OpValues /\ op \in [Ops -> OpValues] /\ Balanced(op[o]) /\ op[o].pc = "retry"
  BY InvParts, OpsTyped DEF ReleaseAndRetry, At
<1>1. CASE End(o)
  BY <1>1, EndOwn
<1>2. CASE op[o].tries + 1 < Attempts
           /\ op' = [op EXCEPT ![o].pc = "measure", ![o].tries = @ + 1, ![o].resv = Zero]
  <2>1. op[o].tries + 1 \in 0..Attempts
    BY <1>0, <1>2, OpIsTyped, QuotaAssumption
  <2>2. op'[o] = [op[o] EXCEPT !.pc = "measure", !.tries = op[o].tries + 1, !.resv = Zero]
        /\ op' = [op EXCEPT ![o] = op'[o]]
    BY <1>0, <1>2
  <2>3. op'[o] \in OpValues
    BY <1>0, <2>1, <2>2, AmountsAdd DEF OpValues, Pcs
  <2>4. Moves(o)
    BY <2>2, <2>3 DEF Moves
  <2>5. /\ op'[o].pc = "measure" /\ op'[o].kind = op[o].kind /\ op'[o].size = op[o].size
        /\ op'[o].todo = op[o].todo /\ op'[o].landed = op[o].landed
    BY <1>0, <2>2 DEF OpValues
  <2>6. op'[o].kind \in KindsAt(op'[o].pc)
    BY <1>0, <2>5 DEF Balanced, KindsAt
  <2>7. Balanced(op'[o])
    BY <1>0, <2>5, <2>6 DEF Balanced
  <2> QED BY <2>4, <2>5, <2>7, Unpinned DEF Own
<1> QED BY <1>1, <1>2 DEF ReleaseAndRetry

\* An import whose insert lost its reply.
LEMMA InsertUnknownOwn ==
    ASSUME CountersCover, NEW o \in Ops, InsertUnknown(o)
    PROVE  Own(o)
<1>0. /\ TypeOK /\ op[o] \in OpValues /\ op \in [Ops -> OpValues] /\ Balanced(op[o])
      /\ op[o].pc = "insert" /\ op[o].kind = "import"
      /\ op[o].todo \subseteq Ids /\ op[o].done \subseteq Ids
  BY InvParts, OpsTyped, OpIsTyped DEF InsertUnknown, At
<1>1. op'[o] = [op[o] EXCEPT !.pc = "landed", !.done = op[o].done \cup op[o].todo]
      /\ op' = [op EXCEPT ![o] = op'[o]]
  BY <1>0 DEF InsertUnknown
<1>2. op'[o] \in OpValues
  BY <1>0, <1>1 DEF OpValues, Pcs
<1>3. Moves(o)
  BY <1>1, <1>2 DEF Moves
<1>4. op'[o].pc = "landed" /\ op'[o].kind = op[o].kind /\ op'[o].size = op[o].size /\ op'[o].todo = op[o].todo
  BY <1>0, <1>1 DEF OpValues
<1>5. Balanced(op'[o])
  BY <1>0, <1>4 DEF Balanced, KindsAt
<1> QED BY <1>3, <1>4, <1>5, Unpinned DEF Own

\* Whatever a request does, its own record stays in order.
LEMMA StepOwn ==
    ASSUME CountersCover, NEW o \in Ops, (\E r \in Requests : Begin(o, r)) \/ OpStep(o) \/ OpFails(o)
    PROVE  Own(o)
<1>1. ASSUME NEW r \in Requests, Begin(o, r) PROVE Own(o)
  BY <1>1, BeginOwn
<1>2. CASE OpStep(o)
  <2>1. CASE ReserveRefused(o) \/ Settle(o)
    BY <2>1, EndOwn DEF ReserveRefused, Settle
  <2>2. CASE WalkEnds(o) \/ ResealEnds(o)
    BY <2>2, SettleOwn DEF WalkEnds, ResealEnds
  <2>3. ASSUME NEW id \in Ids,
               Insert(o, id) \/ Measure(o, id) \/ WritePinned(o, id) \/ PinMissed(o, id)
        PROVE  Own(o)
    BY <2>3, InsertOwn, MeasureOwn, WriteOwn
  <2>4. ASSUME NEW id \in Ids, Walk(o, id) PROVE Own(o)
    <3>1. 0 \in Nat
      OBVIOUS
    <3> QED BY <2>4, <3>1, WalkOwn
  <2>5. ASSUME NEW id \in Ids, NEW size \in Sizes, Reseal(o, id, size) PROVE Own(o)
    BY <2>5, WalkOwn, SizesAreNat
  <2> QED
    BY <1>2, <2>1, <2>2, <2>3, <2>4, <2>5, ReserveOwn, CountOwn, LandedInsertsOwn, ImportCommitOwn,
       WithdrawOwn, RetryOwn, Zenon DEF OpStep
<1>3. CASE OpFails(o)
  <2>1. CASE Crash(o) \/ CommitUnknown(o) \/ \E id \in Ids : OutcomeUnknown(o, id)
    BY <2>1, EndOwn DEF Crash, CommitUnknown, OutcomeUnknown
  <2>2. CASE \E id \in Ids : WalkUnknown(o, id)
    BY <2>2, SettleOwn DEF WalkUnknown
  <2> QED BY <1>3, <2>1, <2>2, InsertUnknownOwn, Zenon DEF OpFails
<1> QED BY <1>1, <1>2, <1>3

-----------------------------------------------------------------------------
(* The rows move forward *)

\* What a write may do to a row, as a pin sees it.
Succeeds(id) ==
    \/ rows'[id] = rows[id]
    \/ rows'[id].inc > rows[id].inc
    \/ rows'[id].inc = rows[id].inc /\ rows'[id].v > rows[id].v
    \/ rows'[id].inc = rows[id].inc /\ rows'[id].v = rows[id].v /\ rows'[id].size = 0

\* A step leaves the rows typed and each a successor of itself.
RowsMove == rows' \in [Ids -> RowValues] /\ \A id \in Ids : Succeeds(id)

\* The three writes of a row.
LEMMA NewRows ==
    ASSUME TypeOK, NEW id \in Ids, NEW n \in Sizes
    PROVE  /\ Inserted(id, n) \in RowValues /\ Rewritten(id, n) \in RowValues
           /\ Inserted(id, n).size = n /\ Rewritten(id, n).size = n
           /\ Inserted(id, n).inc > rows[id].inc
           /\ Rewritten(id, n).inc = rows[id].inc /\ Rewritten(id, n).v > rows[id].v
<1>1. rows[id] \in RowValues /\ rows[id].v \in Nat /\ rows[id].inc \in Nat
  BY RowsTyped, RowIsTyped
<1>2. /\ Inserted(id, n) \in RowValues /\ Inserted(id, n).size = n
      /\ Inserted(id, n).inc > rows[id].inc
  BY <1>1 DEF Inserted, RowValues
<1>3. /\ Rewritten(id, n).size = n /\ Rewritten(id, n).inc = rows[id].inc
      /\ Rewritten(id, n).v > rows[id].v
  BY <1>1 DEF Rewritten, RowValues
<1>4. Rewritten(id, n) \in RowValues
  <2>1. n \in {0} \cup Sizes /\ rows[id].v + 1 \in Nat
    BY <1>1
  <2> QED BY <1>1, <2>1 DEF Rewritten, RowValues
<1> QED BY <1>2, <1>3, <1>4

\* A removed row keeps its version and its creation.
LEMMA RemovedRow ==
    ASSUME TypeOK, NEW id \in Ids
    PROVE  /\ Removed(id) \in RowValues /\ Removed(id).size = 0
           /\ Removed(id).inc = rows[id].inc /\ Removed(id).v = rows[id].v
<1>1. rows[id] \in RowValues
  BY RowsTyped
<1> QED BY <1>1 DEF Removed, RowValues

\* One row changes.
LEMMA OneRowMoves ==
    ASSUME TypeOK, NEW id \in Ids, NEW new \in RowValues, rows' = [rows EXCEPT ![id] = new],
           \/ new.inc > rows[id].inc
           \/ new.inc = rows[id].inc /\ new.v > rows[id].v
           \/ new.inc = rows[id].inc /\ new.v = rows[id].v /\ new.size = 0
    PROVE  RowsMove
BY RowsTyped DEF RowsMove, Succeeds

\* No row changes.
LEMMA NoRowMoves ==
    ASSUME TypeOK, rows' = rows
    PROVE  RowsMove
BY RowsTyped DEF RowsMove, Succeeds

\* The rows a transaction inserts.
LEMMA ManyRowsMove ==
    ASSUME TypeOK, NEW T \in SUBSET Ids, NEW n \in Sizes,
           rows' = [id \in Ids |-> IF id \in T THEN Inserted(id, n) ELSE rows[id]]
    PROVE  RowsMove
<1>1. \A id \in Ids : Inserted(id, n) \in RowValues /\ Inserted(id, n).inc > rows[id].inc
  BY NewRows
<1> QED BY <1>1, RowsTyped DEF RowsMove, Succeeds

\* A create, an update or an import has a size to write.
LEMMA WriterHasSize ==
    ASSUME CountersCover, NEW o \in Ops, op[o].pc \in {"insert", "write", "txn"}
    PROVE  op[o].size \in Sizes /\ op[o].todo \subseteq Ids
<1>1. op[o] \in OpValues /\ Balanced(op[o])
  BY InvParts
<1>2. op[o].kind \in {"create", "import", "update", "importTxn"}
  BY <1>1 DEF Balanced, KindsAt
<1> QED BY <1>1, <1>2, OpIsTyped DEF Balanced

\* Every step of a request moves the rows forward.
LEMMA StepRows ==
    ASSUME CountersCover, NEW o \in Ops, (\E r \in Requests : Begin(o, r)) \/ OpStep(o) \/ OpFails(o)
    PROVE  RowsMove
<1>0. TypeOK
  BY InvParts
<1>1. CASE rows' = rows
  BY <1>0, <1>1, NoRowMoves
<1>2. ASSUME NEW id \in Ids, op[o].pc \in {"insert", "write"},
             rows' = [rows EXCEPT ![id] = Inserted(id, op[o].size)]
             \/ rows' = [rows EXCEPT ![id] = Rewritten(id, op[o].size)]
      PROVE  RowsMove
  <2>1. op[o].size \in Sizes
    BY <1>2, WriterHasSize
  <2> QED BY <1>0, <1>2, <2>1, NewRows, OneRowMoves
<1>3. ASSUME NEW id \in Ids, rows' = [rows EXCEPT ![id] = Removed(id)] PROVE RowsMove
  BY <1>0, <1>3, RemovedRow, OneRowMoves
<1>4. ASSUME op[o].pc = "txn",
             rows' = [id \in Ids |-> IF id \in op[o].todo THEN Inserted(id, op[o].size) ELSE rows[id]]
      PROVE  RowsMove
  <2>1. op[o].size \in Sizes /\ op[o].todo \in SUBSET Ids
    BY <1>4, WriterHasSize
  <2> QED BY <1>0, <1>4, <2>1, ManyRowsMove
<1>5. CASE \E r \in Requests : Begin(o, r)
  BY <1>1, <1>5 DEF Begin
<1>6. CASE OpStep(o)
  <2>1. CASE Reserve(o) \/ ReserveRefused(o) \/ ReserveAbsent(o) \/ CountItems(o) \/ CountFolders(o)
             \/ Install(o) \/ LandedInserts(o) \/ WalkEnds(o) \/ ResealEnds(o) \/ Settle(o)
             \/ SettleThenWithdraw(o) \/ ReleaseAndRetry(o)
    BY <1>1, <2>1 DEF Reserve, ReserveRefused, ReserveAbsent, CountItems, CountFolders, Install,
         LandedInserts, WalkEnds, ResealEnds, Settle, SettleThenWithdraw, ReleaseAndRetry
  <2>2. CASE ImportCommit(o)
    BY <1>1, <1>4, <2>2, Zenon DEF ImportCommit, At
  <2>3. ASSUME NEW id \in Ids, Insert(o, id) \/ WritePinned(o, id) PROVE RowsMove
    <3>1. op[o].pc \in {"insert", "write"}
      BY <2>3 DEF Insert, WritePinned, At
    <3>2. \/ rows' = rows
          \/ rows' = [rows EXCEPT ![id] = Inserted(id, op[o].size)]
          \/ rows' = [rows EXCEPT ![id] = Rewritten(id, op[o].size)]
      BY <2>3, Zenon DEF Insert, WritePinned
    <3> QED BY <1>1, <1>2, <3>1, <3>2
  <2>4. ASSUME NEW id \in Ids, Measure(o, id) \/ PinMissed(o, id) PROVE RowsMove
    BY <1>1, <2>4 DEF Measure, PinMissed
  <2>5. ASSUME NEW id \in Ids, Walk(o, id) PROVE RowsMove
    BY <1>3, <2>5 DEF Walk
  <2>6. ASSUME NEW id \in Ids, NEW size \in Sizes, Reseal(o, id, size) PROVE RowsMove
    BY <1>0, <2>6, NewRows, OneRowMoves DEF Reseal
  <2> QED BY <1>6, <2>1, <2>2, <2>3, <2>4, <2>5, <2>6, Zenon DEF OpStep
<1>7. CASE OpFails(o)
  <2>1. CASE Crash(o) \/ InsertUnknown(o)
    BY <1>1, <2>1 DEF Crash, InsertUnknown
  <2>2. CASE CommitUnknown(o)
    BY <1>1, <1>4, <2>2, Zenon DEF CommitUnknown, At
  <2>3. ASSUME NEW id \in Ids, OutcomeUnknown(o, id) PROVE RowsMove
    <3>1. op[o].pc \in {"insert", "write"}
      BY <2>3 DEF OutcomeUnknown
    <3>2. \/ rows' = rows
          \/ rows' = [rows EXCEPT ![id] = Inserted(id, op[o].size)]
          \/ rows' = [rows EXCEPT ![id] = Rewritten(id, op[o].size)]
      BY <2>3, Zenon DEF OutcomeUnknown
    <3> QED BY <1>1, <1>2, <3>1, <3>2
  <2>4. ASSUME NEW id \in Ids, WalkUnknown(o, id) PROVE RowsMove
    BY <1>3, <2>4 DEF WalkUnknown
  <2> QED BY <1>7, <2>1, <2>2, <2>3, <2>4, Zenon DEF OpFails
<1> QED BY <1>5, <1>6, <1>7

\* A pin on a row that has moved no longer holds; on one that has not, it is as good.
LEMMA PinsStand ==
    ASSUME TypeOK, RowsMove, NEW p \in Ops, Pinned(op[p]), op'[p] = op[p]
    PROVE  Pinned(op[p])'
<1> SUFFICES ASSUME op[p].kind = "update", op[p].pc \in {"reserve", "count", "count2", "install", "write"},
                    NEW id \in op[p].todo
             PROVE  /\ op[p].measure.inc <= rows'[id].inc
                    /\ op[p].measure.inc = rows'[id].inc => op[p].measure.v <= rows'[id].v
                    /\ PinHolds(id, op[p].measure)' => op[p].measure.size = rows'[id].size
  BY DEF Pinned, PinHolds, Exists
<1>1. id \in Ids /\ op[p].measure \in RowValues
  BY OpsTyped, OpIsTyped
<1>2. /\ op[p].measure.inc \in Nat /\ op[p].measure.v \in Nat
      /\ rows[id].inc \in Nat /\ rows[id].v \in Nat /\ rows[id].size \in Nat
  BY <1>1, RowsTyped, RowIsTyped
<1>3. rows'[id].inc \in Nat /\ rows'[id].v \in Nat /\ rows'[id].size \in Nat
  BY <1>1, RowIsTyped DEF RowsMove
<1>4. /\ op[p].measure.inc <= rows[id].inc
      /\ op[p].measure.inc = rows[id].inc => op[p].measure.v <= rows[id].v
      /\ PinHolds(id, op[p].measure) => op[p].measure.size = rows[id].size
  BY DEF Pinned
<1>5. Succeeds(id)
  BY <1>1 DEF RowsMove
<1> QED BY <1>2, <1>3, <1>4, <1>5 DEF Succeeds, PinHolds, Exists

\* Every step of a request keeps the types and everybody's books.
LEMMA StepBooks ==
    ASSUME CountersCover, NEW o \in Ops, (\E r \in Requests : Begin(o, r)) \/ OpStep(o) \/ OpFails(o)
    PROVE  TypeOK' /\ \A p \in Ops : Balanced(op'[p]) /\ Pinned(op[p])'
<1>0. TypeOK
  BY InvParts
<1>1. Own(o) /\ RowsMove /\ RestOK'
  BY <1>0, StepOwn, StepRows, OpRest
<1>2. op' \in [Ops -> OpValues] /\ \A p \in Ops \ {o} : op'[p] = op[p]
  BY <1>0, <1>1, MovesTyped DEF Own
<1>3. TypeOK'
  BY <1>1, <1>2, TypePartsNext DEF RowsMove
<1>4. ASSUME NEW p \in Ops PROVE Balanced(op'[p]) /\ Pinned(op[p])'
  <2>1. CASE p = o
    BY <1>1, <2>1 DEF Own
  <2>2. CASE p # o
    <3>1. op'[p] = op[p] /\ Balanced(op[p]) /\ Pinned(op[p])
      BY <1>2, <2>2, InvParts
    <3> QED BY <1>0, <1>1, <3>1, PinsStand
  <2> QED BY <2>1, <2>2
<1> QED BY <1>3, <1>4

-----------------------------------------------------------------------------
(* The aggregates are exact *)

\* Whoever holds a reservation holds an installed counter, the account is not quiet
\* and no recount that runs has seen it unmoved.
LEMMA HolderMeans ==
    ASSUME CountersCover, NEW o \in Ops, Holding(o)
    PROVE  absent = {} /\ quiet = FALSE /\ ~(recount.pc # "idle" /\ recount.unmoved)
<1>1. quiet \in BOOLEAN
  BY InvParts DEF TypeOK
<1> QED BY <1>1 DEF CountersCover, InstallIsExact, RecountIsExact, Nobody

\* A step that leaves the counters installed and the account touched.
LEMMA TouchedExact ==
    ASSUME TypeOK, absent' = {}, quiet' = FALSE,
           \/ Touch
           \/ recount' = recount /\ ~(recount.pc # "idle" /\ recount.unmoved)
    PROVE  InstallIsExact' /\ RecountIsExact'
<1>1. ~(recount'.pc # "idle" /\ recount'.unmoved)
  <2>1. CASE Touch
    <3>1. recount \in RecountValues
      BY DEF TypeOK
    <3> QED BY <2>1, <3>1 DEF Touch, RecountValues
  <2> QED BY <2>1
<1> QED BY <1>1 DEF InstallIsExact, RecountIsExact

\* A step of a request that holds a reservation.
LEMMA HolderExact ==
    ASSUME CountersCover, NEW o \in Ops, Holding(o), absent' = absent,
           Touch \/ UNCHANGED <<quiet, recount>>
    PROVE  InstallIsExact' /\ RecountIsExact'
<1>1. TypeOK /\ absent = {} /\ quiet = FALSE /\ ~(recount.pc # "idle" /\ recount.unmoved)
  BY InvParts, HolderMeans
<1>2. quiet' = FALSE
  BY <1>1 DEF Touch
<1> QED BY <1>1, <1>2, TouchedExact

\* A step of a request that holds nothing, before it or after it.
LEMMA IdleExact ==
    ASSUME CountersCover, NEW o \in Ops, rows' = rows, UNCHANGED account,
           \A p \in Ops \ {o} : op'[p] = op[p], ~Holding(o)',
           absent # {} => /\ At(o, "count2")' => op'[o].total = ItemTotals
                          /\ At(o, "install")' => op'[o].total = Stored
    PROVE  InstallIsExact' /\ RecountIsExact'
<1>1. Stored' = Stored /\ ItemTotals' = ItemTotals
  BY StoredSame
<1>2. Nobody => Nobody'
  BY DEF Nobody, Holding
<1>3. InstallIsExact'
  <2> SUFFICES ASSUME absent' # {}
               PROVE  /\ Nobody'
                      /\ \A p \in Ops : /\ At(p, "count2")' => op'[p].total = ItemTotals'
                                        /\ At(p, "install")' => op'[p].total = Stored'
    BY DEF InstallIsExact
  <2>1. absent # {}
    BY DEF account
  <2>2. Nobody /\ \A p \in Ops : /\ At(p, "count2") => op[p].total = ItemTotals
                                 /\ At(p, "install") => op[p].total = Stored
    BY <2>1 DEF CountersCover, InstallIsExact
  <2> QED BY <1>1, <1>2, <2>1, <2>2 DEF At
<1>4. RecountIsExact'
  BY <1>1, <1>2 DEF CountersCover, RecountIsExact, account
<1> QED BY <1>3, <1>4

\* The steps at which a request holds a reservation, and the ones at which it does not.
LEMMA PcHolding ==
    ASSUME NEW o \in Ops
    PROVE  /\ Holding(o) <=> op[o].pc \notin {"idle", "measure", "reserve", "count", "count2", "install"}
           /\ Holding(o)' <=> op'[o].pc \notin {"idle", "measure", "reserve", "count", "count2", "install"}
BY DEF Holding

\* No step of a request makes the install or the recount wrong.
LEMMA OpExact ==
    ASSUME CountersCover, NEW o \in Ops, (\E r \in Requests : Begin(o, r)) \/ OpStep(o) \/ OpFails(o)
    PROVE  InstallIsExact' /\ RecountIsExact'
<1>0. TypeOK /\ op[o] \in OpValues /\ op \in [Ops -> OpValues] /\ Own(o)
  BY InvParts, OpsTyped, StepOwn
<1>1. \A p \in Ops \ {o} : op'[p] = op[p]
  BY <1>0, MovesTyped DEF Own
<1>2. ASSUME rows' = rows, UNCHANGED account, op'[o].pc \in {"idle", "measure", "reserve", "count"}
      PROVE  InstallIsExact' /\ RecountIsExact'
  <2>1. ~Holding(o)' /\ ~At(o, "count2")' /\ ~At(o, "install")'
    BY <1>2, PcHolding DEF At
  <2> QED BY <1>1, <1>2, <2>1, IdleExact
<1>3. ASSUME End(o), rows' = rows, UNCHANGED account
      PROVE  InstallIsExact' /\ RecountIsExact'
  <2>1. op'[o].pc = "idle"
    BY <1>0, <1>3, EndMoves DEF NoOp
  <2> QED BY <1>2, <1>3, <2>1
<1>4. CASE Holding(o) /\ UNCHANGED account
  BY <1>4, HolderExact DEF account
<1>5. CASE Holding(o) /\ Corrected(o)
  BY <1>5, HolderExact DEF Corrected
<1>6. ASSUME NEW r \in Requests, Begin(o, r) PROVE InstallIsExact' /\ RecountIsExact'
  <2>1. op'[o].pc \in {"measure", "reserve"}
    BY <1>0, <1>6 DEF Begin, NoOp
  <2> QED BY <1>2, <1>6, <2>1 DEF Begin
<1>7. CASE Reserve(o)
  <2>1. absent' = {} /\ Touch /\ quiet' = FALSE
    BY <1>7 DEF Reserve, Room, Touch
  <2> QED BY <1>0, <2>1, TouchedExact
<1>8. CASE ReserveRefused(o)
  BY <1>3, <1>8 DEF ReserveRefused
<1>9. CASE ReserveAbsent(o)
  <2>1. op'[o].pc = "count"
    BY <1>0, <1>9 DEF ReserveAbsent, Goto, OpValues
  <2> QED BY <1>2, <1>9, <2>1 DEF ReserveAbsent
<1>10. CASE CountItems(o)
  <2>1. op'[o].pc = "count2" /\ op'[o].total = ItemTotals
    BY <1>0, <1>10 DEF CountItems, OpValues
  <2>2. ~Holding(o)' /\ ~At(o, "install")'
    BY <2>1, PcHolding DEF At
  <2> QED BY <1>1, <1>10, <2>1, <2>2, IdleExact DEF CountItems
<1>11. CASE CountFolders(o)
  <2>1. op'[o].pc = "install" /\ op'[o].total = Plus(op[o].total, FolderTotals)
    BY <1>0, <1>11 DEF CountFolders, OpValues
  <2>2. ~Holding(o)' /\ ~At(o, "count2")'
    BY <2>1, PcHolding DEF At
  <2>3. absent # {} => op[o].total = ItemTotals
    BY <1>11 DEF CountersCover, InstallIsExact, CountFolders
  <2>4. absent # {} => op'[o].total = Stored
    BY <2>1, <2>3 DEF Stored
  <2> QED BY <1>1, <1>11, <2>2, <2>4, IdleExact DEF CountFolders
<1>12. CASE Install(o)
  <2>1. op'[o].pc = "reserve"
    BY <1>0, <1>12 DEF Install, OpValues
  <2>2. CASE UNCHANGED account
    BY <1>2, <1>12, <2>1, <2>2 DEF Install
  <2>3. CASE absent' = {} /\ Touch
    BY <1>0, <2>3, TouchedExact DEF Touch
  <2> QED BY <1>12, <2>2, <2>3 DEF Install
<1>13. ASSUME NEW id \in Ids, Measure(o, id) PROVE InstallIsExact' /\ RecountIsExact'
  <2>1. CASE End(o)
    BY <1>3, <1>13, <2>1 DEF Measure
  <2>2. CASE op' = [op EXCEPT ![o].pc = "reserve", ![o].measure = rows[id],
                             ![o].resv = Growth(op[o].size - rows[id].size)]
    <3>1. op'[o].pc = "reserve"
      BY <1>0, <2>2 DEF OpValues
    <3> QED BY <1>2, <1>13, <3>1 DEF Measure
  <2> QED BY <1>13, <2>1, <2>2 DEF Measure
<1>14. CASE LandedInserts(o) \/ ImportCommit(o) \/ WalkEnds(o) \/ ResealEnds(o)
            \/ Crash(o) \/ InsertUnknown(o) \/ CommitUnknown(o)
  BY <1>4, <1>14, PcHolding DEF LandedInserts, ImportCommit, WalkEnds, ResealEnds, Crash,
       InsertUnknown, CommitUnknown, At
<1>15. ASSUME NEW id \in Ids, \/ Insert(o, id) \/ WritePinned(o, id) \/ PinMissed(o, id) \/ Walk(o, id)
                              \/ OutcomeUnknown(o, id) \/ WalkUnknown(o, id)
       PROVE  InstallIsExact' /\ RecountIsExact'
  BY <1>4, <1>15, PcHolding DEF Insert, WritePinned, PinMissed, Walk, OutcomeUnknown, WalkUnknown, At
<1>16. ASSUME NEW id \in Ids, NEW size \in Sizes, Reseal(o, id, size)
       PROVE  InstallIsExact' /\ RecountIsExact'
  BY <1>4, <1>16, PcHolding DEF Reseal, At
<1>17. CASE Settle(o) \/ SettleThenWithdraw(o) \/ ReleaseAndRetry(o)
  BY <1>5, <1>17, PcHolding DEF Settle, SettleThenWithdraw, ReleaseAndRetry, At
<1>18. CASE OpStep(o)
  BY <1>18, <1>7, <1>8, <1>9, <1>10, <1>11, <1>12, <1>13, <1>14, <1>15, <1>16, <1>17, Zenon DEF OpStep
<1>19. CASE OpFails(o)
  BY <1>19, <1>14, <1>15, Zenon DEF OpFails
<1> QED BY <1>6, <1>18, <1>19

-----------------------------------------------------------------------------
(* Every step is a step of the ledger *)

\* Installed counters are what the ledger sees.
LEMMA CounterInstalled ==
    ASSUME TypeOK, absent = {}
    PROVE  LedgerCounter = counter
<1>1. counter \in Amounts
  BY DEF TypeOK
<1> QED BY <1>1 DEF LedgerCounter, Amounts

\* The same after a step.
LEMMA CounterInstalledNext ==
    ASSUME TypeOK', absent' = {}
    PROVE  LedgerCounter' = counter'
<1>1. counter' \in Amounts
  BY DEF TypeOK
<1> QED BY <1>1 DEF LedgerCounter, Amounts

\* A request's step changes its own claim only.
LEMMA ClaimsOf ==
    ASSUME TypeOK, NEW o \in Ops, Moves(o)
    PROVE  /\ \A p \in Ops \ {o} : LedgerClaims'[p] = LedgerClaims[p]
           /\ LedgerClaims' = [LedgerClaims EXCEPT ![o] = LedgerClaims'[o]]
           /\ LedgerClaims[o] = IF Holding(o) THEN Minus(op[o].resv, op[o].landed) ELSE Zero
           /\ LedgerClaims'[o] = IF Holding(o)' THEN Minus(op'[o].resv, op'[o].landed) ELSE Zero
<1>1. \A p \in Ops \ {o} : op'[p] = op[p]
  BY MovesTyped
<1>2. \A p \in Ops : LedgerClaims'[p] = IF Holding(p)' THEN Minus(op'[p].resv, op'[p].landed) ELSE Zero
  BY DEF LedgerClaims
<1>3. \A p \in Ops : LedgerClaims[p] = IF Holding(p) THEN Minus(op[p].resv, op[p].landed) ELSE Zero
  BY DEF LedgerClaims
<1>4. \A p \in Ops \ {o} : LedgerClaims'[p] = LedgerClaims[p]
  BY <1>1, <1>2, <1>3 DEF Holding
<1>5. LedgerClaims' = [LedgerClaims EXCEPT ![o] = LedgerClaims'[o]]
  BY <1>4 DEF LedgerClaims
<1> QED BY <1>2, <1>3, <1>4, <1>5

\* A step that touches no row, no counter and holds nothing is none of the ledger's.
LEMMA IdleStutters ==
    ASSUME TypeOK, NEW o \in Ops, Moves(o), rows' = rows, UNCHANGED <<counter, absent>>,
           LedgerClaims'[o] = LedgerClaims[o]
    PROVE  UNCHANGED Ledger!ledger
<1>1. Stored' = Stored
  BY StoredSame
<1>2. LedgerCounter' = LedgerCounter
  BY <1>1 DEF LedgerCounter
<1>3. LedgerClaims' = LedgerClaims
  <2>1. LedgerClaims' = [LedgerClaims EXCEPT ![o] = LedgerClaims[o]]
    BY ClaimsOf
  <2> QED BY <2>1, LedgerTyped
<1> QED BY <1>1, <1>2, <1>3 DEF Ledger!ledger

\* What the ledger asks of a write, by dimension.
Pays(o) ==
    \A d \in Dims :
        /\ Stored'[d] - Stored[d] > 0 => Stored'[d] - Stored[d] <= LedgerClaims[o][d]
        /\ LedgerClaims[o][d] - (Stored'[d] - Stored[d]) - LedgerClaims'[o][d] >= 0

\* A step that pays for its rows is a write of the ledger.
LEMMA IsWrite ==
    ASSUME TypeOK, TypeOK', NEW o \in Ops, Moves(o), absent = {}, UNCHANGED <<counter, absent>>, Pays(o)
    PROVE  Ledger!Write(o)
<1>1. LedgerCounter' = LedgerCounter
  BY CounterInstalled, CounterInstalledNext
<1>2. LedgerClaims' = [LedgerClaims EXCEPT ![o] = LedgerClaims'[o]]
  BY ClaimsOf
<1> QED BY <1>1, <1>2 DEF Ledger!Write, Ledger!Minus, Ledger!NonNegative, Pays

\* What one row's write does to the totals.
LEMMA InsertGrows ==
    ASSUME TypeOK, NEW id \in Ids, NEW n \in Sizes, ~Exists(id),
           rows' = [rows EXCEPT ![id] = Inserted(id, n)], NEW d \in Dims
    PROVE  Stored'[d] = Stored[d] + RowOf(id, n)[d]
<1>1. Inserted(id, n) \in RowValues /\ Inserted(id, n).size = n
  BY NewRows
<1>2. Stored'[d] = Stored[d] + Amount(id, n)[d] - Amount(id, rows[id].size)[d]
  BY <1>1, RowChange
<1>3. rows[id].size = 0 /\ n # 0
  BY RowsTyped, RowIsTyped, SizesAreNat DEF Exists
<1>4. Amount(id, n)[d] = RowOf(id, n)[d] /\ Amount(id, rows[id].size)[d] = 0
  BY <1>3 DEF Amount, Zero
<1>5. Stored[d] \in Int /\ RowOf(id, n)[d] \in Int
  BY LedgerTyped, AmountsAdd, SizesAreNat DEF Amounts
<1> QED BY <1>2, <1>4, <1>5

\* A removal takes the row off the totals.
LEMMA RemoveGrows ==
    ASSUME TypeOK, NEW id \in Ids, Exists(id),
           rows' = [rows EXCEPT ![id] = Removed(id)], NEW d \in Dims
    PROVE  /\ Stored'[d] = Stored[d] - RowOf(id, rows[id].size)[d]
           /\ RowOf(id, rows[id].size)[d] \in Nat
<1>1. Removed(id) \in RowValues /\ Removed(id).size = 0
  BY RemovedRow
<1>2. Stored'[d] = Stored[d] + Amount(id, 0)[d] - Amount(id, rows[id].size)[d]
  BY <1>1, RowChange
<1>3. rows[id].size # 0 /\ rows[id].size \in Nat
  BY RowsTyped, RowIsTyped DEF Exists
<1>4. Amount(id, 0)[d] = 0 /\ Amount(id, rows[id].size)[d] = RowOf(id, rows[id].size)[d]
  BY <1>3 DEF Amount, Zero
<1>5. Stored[d] \in Int
  BY LedgerTyped DEF Amounts
<1>6. RowOf(id, rows[id].size)[d] \in Nat
  BY <1>3 DEF RowOf, Zero, Dims, KindOf
<1> QED BY <1>2, <1>4, <1>5, <1>6

\* A rewritten row changes the bytes only.
LEMMA RewriteGrows ==
    ASSUME TypeOK, NEW id \in Ids, NEW n \in Sizes, Exists(id),
           rows' = [rows EXCEPT ![id] = Rewritten(id, n)], NEW d \in Dims
    PROVE  /\ Stored'[d] = Stored[d] + Bytes(n - rows[id].size)[d]
           /\ d # "bytes" => Stored'[d] = Stored[d]
<1>1. Rewritten(id, n) \in RowValues /\ Rewritten(id, n).size = n
  BY NewRows
<1>2. Stored'[d] = Stored[d] + Amount(id, n)[d] - Amount(id, rows[id].size)[d]
  BY <1>1, RowChange
<1>3. rows[id].size # 0 /\ n # 0 /\ rows[id].size \in Nat /\ n \in Nat
  BY RowsTyped, RowIsTyped, SizesAreNat DEF Exists
<1>4. Amount(id, n)[d] = RowOf(id, n)[d] /\ Amount(id, rows[id].size)[d] = RowOf(id, rows[id].size)[d]
  BY <1>3 DEF Amount
<1>5. Stored[d] \in Int
  BY LedgerTyped DEF Amounts
<1>6. \A m \in Nat : /\ RowOf(id, m)[d] \in Int
                     /\ d = "bytes" => RowOf(id, m)[d] = m
                     /\ d # "bytes" => RowOf(id, m)[d] = RowOf(id, 0)[d]
  BY DEF RowOf, Zero, Dims, KindOf
<1>7. Bytes(n - rows[id].size)[d] = IF d = "bytes" THEN n - rows[id].size ELSE 0
  BY DEF Bytes, Zero, Dims
<1>8. RowOf(id, n)[d] - RowOf(id, rows[id].size)[d] = Bytes(n - rows[id].size)[d]
  <2>1. CASE d = "bytes"
    BY <2>1, <1>3, <1>6, <1>7
  <2>2. CASE d # "bytes"
    <3>1. RowOf(id, n)[d] = RowOf(id, rows[id].size)[d]
      BY <2>2, <1>3, <1>6
    <3> QED BY <2>2, <3>1, <1>3, <1>6, <1>7
  <2> QED BY <2>1, <2>2
<1>9. RowOf(id, n)[d] \in Int /\ RowOf(id, rows[id].size)[d] \in Int
  BY <1>3, <1>6
<1> QED BY <1>2, <1>4, <1>5, <1>7, <1>8, <1>9

\* A writer's reservation covers each row it has still to write.
LEMMA DueCoversRow ==
    ASSUME NEW x \in OpValues, x.kind \in {"create", "import"}, NEW id \in x.todo, NEW d \in Dims
    PROVE  RowOf(id, x.size)[d] <= Due(x)[d] /\ RowOf(id, x.size)[d] \in Int /\ Due(x)[d] \in Int
<1> DEFINE y == [x EXCEPT !.todo = x.todo \ {id}]
<1>1. y.kind = x.kind /\ y.size = x.size /\ y.todo = x.todo \ {id}
  BY DEF OpValues
<1>2. y \in OpValues
  BY OpIsTyped DEF OpValues
<1> HIDE DEF y
<1>3. Due(y) = Minus(Due(x), RowOf(id, x.size))
  BY <1>1, <1>2, DueShrinks
<1>4. Due(x) \in Amounts /\ Due(y) \in Amounts /\ Due(y)[d] >= 0
  BY <1>2, DueTyped
<1>5. RowOf(id, x.size) \in Amounts
  BY OpIsTyped, AmountsAdd
<1>6. Due(y)[d] = Due(x)[d] - RowOf(id, x.size)[d]
  BY <1>3 DEF Minus
<1> QED BY <1>4, <1>5, <1>6 DEF Amounts

\* What the step of a request gives the ledger's arguments to work with.
LEMMA StepFacts ==
    ASSUME CountersCover, NEW o \in Ops, (\E r \in Requests : Begin(o, r)) \/ OpStep(o) \/ OpFails(o)
    PROVE  /\ TypeOK /\ TypeOK' /\ Moves(o)
           /\ op[o] \in OpValues /\ op'[o] \in OpValues /\ Balanced(op[o]) /\ Pinned(op[o])
           /\ op[o].resv \in Amounts /\ op[o].landed \in Amounts
           /\ op'[o].resv \in Amounts /\ op'[o].landed \in Amounts
<1>1. TypeOK /\ TypeOK' /\ Moves(o) /\ op[o] \in OpValues /\ op'[o] \in OpValues
  BY InvParts, StepBooks, StepOwn DEF Own, Moves
<1> QED BY <1>1, InvParts, OpIsTyped

\* A reservation is a promise of the ledger.
LEMMA ReservePromises ==
    ASSUME CountersCover, NEW o \in Ops, Reserve(o)
    PROVE  Ledger!Promise(o)
<1>0. /\ TypeOK /\ TypeOK' /\ Moves(o) /\ op[o] \in OpValues /\ Balanced(op[o])
      /\ op[o].resv \in Amounts /\ op[o].landed \in Amounts
  BY StepFacts DEF OpStep
<1>1. op[o].pc = "reserve" /\ Room(op[o].resv) /\ rows' = rows /\ absent' = absent
      /\ counter' = Plus(counter, op[o].resv)
  BY DEF Reserve, At
<1>2. op[o].landed = Zero /\ Minus(op[o].resv, op[o].landed) = Due(op[o])
  BY <1>0, <1>1 DEF Balanced
<1>3. op[o].resv = Due(op[o]) /\ \A d \in Dims : op[o].resv[d] >= 0
  BY <1>0, <1>2, MinusZero, DueTyped
<1>4. LedgerCounter = counter /\ LedgerCounter' = counter'
  BY <1>0, <1>1, CounterInstalled, CounterInstalledNext DEF Room
<1>5. LedgerClaims[o] = Zero
  BY <1>0, <1>1, ClaimsOf, PcHolding
<1>6. op'[o].pc \in {"insert", "write", "walk", "txn", "reseal"} /\ op'[o].resv = op[o].resv
      /\ op'[o].landed = op[o].landed
  <2>1. op[o].kind \in Kinds \ {"none"}
    BY <1>0, <1>1 DEF Balanced, KindsAt
  <2>2. FirstWrite(op[o].kind) \in {"insert", "write", "walk", "txn", "reseal"}
    BY <2>1 DEF FirstWrite, Kinds
  <2>3. op'[o] = [op[o] EXCEPT !.pc = FirstWrite(op[o].kind)]
    BY <1>0, OpsTyped DEF Reserve, Goto
  <2> QED BY <1>0, <2>2, <2>3 DEF OpValues
<1>7. LedgerClaims'[o] = op[o].resv
  <2>1. Holding(o)'
    BY <1>6, PcHolding
  <2>2. LedgerClaims'[o] = Minus(op[o].resv, Zero)
    BY <1>0, <1>2, <1>6, <2>1, ClaimsOf
  <2> QED BY <1>0, <2>2, MinusZero
<1>8. Stored' = Stored
  BY <1>1, StoredSame
<1>9. counter \in Amounts /\ Limit \in Amounts
  BY <1>0, LimitTyped DEF TypeOK
<1>10. Ledger!Minus(counter', counter) = op[o].resv
  BY <1>0, <1>1, <1>9 DEF Ledger!Minus, Plus, Amounts
<1>11. \A d \in Dims : op[o].resv[d] > 0 => counter'[d] <= Limit[d]
  BY <1>0, <1>1, <1>9 DEF Room, Plus, Amounts
<1>12. LedgerClaims' = [LedgerClaims EXCEPT ![o] = op[o].resv]
  BY <1>0, <1>7, ClaimsOf
<1>13. Ledger!Zero = Zero
  BY DEF Ledger!Zero, Zero
<1> QED BY <1>3, <1>4, <1>5, <1>8, <1>10, <1>11, <1>12, <1>13
        DEF Ledger!Promise, Ledger!NonNegative, Limit

\* One row of a create or of an import.
LEMMA InsertWrites ==
    ASSUME CountersCover, NEW o \in Ops, NEW id \in Ids, Insert(o, id) \/ OutcomeUnknown(o, id),
           op[o].pc = "insert", ~Exists(id), rows' = [rows EXCEPT ![id] = Inserted(id, op[o].size)]
    PROVE  Ledger!Write(o)
<1>0. /\ TypeOK /\ TypeOK' /\ Moves(o) /\ op[o] \in OpValues /\ op'[o] \in OpValues /\ Balanced(op[o])
      /\ op[o].resv \in Amounts /\ op[o].landed \in Amounts
      /\ op'[o].resv \in Amounts /\ op'[o].landed \in Amounts
  BY StepFacts DEF OpStep, OpFails
<1>1. id \in op[o].todo /\ UNCHANGED account
  BY DEF Insert, OutcomeUnknown
<1>2. /\ op[o].kind \in {"create", "import"} /\ op[o].size \in Sizes
      /\ Minus(op[o].resv, op[o].landed) = Due(op[o])
  BY <1>0 DEF Balanced, KindsAt
<1>3. Holding(o) /\ absent = {} /\ UNCHANGED <<counter, absent>>
  BY <1>1, PcHolding, HolderMeans DEF account
<1>4. LedgerClaims[o] = Due(op[o])
  BY <1>0, <1>2, <1>3, ClaimsOf
<1>5. \A d \in Dims : Stored'[d] = Stored[d] + RowOf(id, op[o].size)[d] /\ Stored[d] \in Int
  BY <1>0, <1>2, InsertGrows, LedgerTyped DEF Amounts
<1>6. \A d \in Dims : /\ RowOf(id, op[o].size)[d] <= Due(op[o])[d]
                      /\ RowOf(id, op[o].size)[d] \in Int /\ Due(op[o])[d] \in Int
  BY <1>0, <1>1, <1>2, DueCoversRow
<1>7. \A d \in Dims : LedgerClaims'[o][d] = 0
                      \/ LedgerClaims'[o][d] = Due(op[o])[d] - RowOf(id, op[o].size)[d]
  <2>1. CASE OutcomeUnknown(o, id)
    <3>1. op'[o].pc = "idle"
      BY <1>0, <2>1, EndMoves DEF OutcomeUnknown, NoOp
    <3>2. LedgerClaims'[o] = Zero
      BY <1>0, <3>1, ClaimsOf, PcHolding
    <3> QED BY <3>2 DEF Zero
  <2>2. CASE Insert(o, id)
    <3>1. /\ op'[o].pc = (IF op[o].todo = {id} THEN "settle" ELSE "insert")
          /\ op'[o].resv = op[o].resv
          /\ op'[o].landed = Plus(op[o].landed, RowOf(id, op[o].size))
      BY <1>0, <2>2, OpsTyped DEF Insert, Adding, OpValues
    <3>2. Holding(o)'
      BY <3>1, PcHolding
    <3>3. LedgerClaims'[o] = Minus(op[o].resv, Plus(op[o].landed, RowOf(id, op[o].size)))
      BY <1>0, <3>1, <3>2, ClaimsOf
    <3>4. \A d \in Dims : Due(op[o])[d] = op[o].resv[d] - op[o].landed[d]
      BY <1>2 DEF Minus
    <3> QED BY <1>0, <1>6, <3>3, <3>4 DEF Minus, Plus, Amounts
  <2> QED BY <2>1, <2>2
<1>8. Pays(o)
  BY <1>4, <1>5, <1>6, <1>7 DEF Pays
<1> QED BY <1>0, <1>3, <1>8, IsWrite

\* The rows of an import that commit together.
LEMMA CommitWrites ==
    ASSUME CountersCover, NEW o \in Ops, ImportCommit(o) \/ CommitUnknown(o),
           \A id \in op[o].todo : ~Exists(id),
           rows' = [id \in Ids |-> IF id \in op[o].todo THEN Inserted(id, op[o].size) ELSE rows[id]],
           \/ op'[o].pc = "idle"
           \/ op'[o].pc = "settle" /\ op'[o].resv = op[o].resv /\ op'[o].landed = op[o].resv
    PROVE  Ledger!Write(o)
<1>0. /\ TypeOK /\ TypeOK' /\ Moves(o) /\ op[o] \in OpValues /\ Balanced(op[o])
      /\ op[o].resv \in Amounts /\ op[o].landed \in Amounts
  BY StepFacts DEF OpStep, OpFails
<1>1. op[o].pc = "txn" /\ UNCHANGED account
  BY DEF ImportCommit, CommitUnknown, At
<1>2. /\ op[o].kind = "importTxn" /\ op[o].size \in Sizes
      /\ Minus(op[o].resv, op[o].landed) = Due(op[o])
  BY <1>0, <1>1 DEF Balanced, KindsAt
<1>3. Holding(o) /\ absent = {} /\ UNCHANGED <<counter, absent>>
  BY <1>1, PcHolding, HolderMeans DEF account
<1>4. LedgerClaims[o] = Due(op[o])
  BY <1>0, <1>2, <1>3, ClaimsOf
<1>5. Due(op[o]) = [bytes |-> op[o].size * Cardinality(op[o].todo),
                    item |-> Cardinality(op[o].todo \cap Items),
                    folder |-> Cardinality(op[o].todo \cap Folders)]
  BY <1>2 DEF Due, Predicted
<1>6. \A d \in Dims : Due(op[o])[d] \in Int /\ Due(op[o])[d] >= 0 /\ Stored[d] \in Int
  BY <1>0, DueTyped, LedgerTyped DEF Amounts
<1>7. \A d \in Dims : Stored'[d] = Stored[d] + Due(op[o])[d]
  <2>1. op[o].todo \in SUBSET Ids
    BY <1>0, OpIsTyped
  <2>2. /\ Stored'["bytes"] = Stored["bytes"] + op[o].size * Cardinality(op[o].todo)
        /\ Stored'["item"] = Stored["item"] + Cardinality(op[o].todo \cap Items)
        /\ Stored'["folder"] = Stored["folder"] + Cardinality(op[o].todo \cap Folders)
    BY <1>0, <1>2, <2>1, RowsAdded
  <2> QED BY <1>5, <2>2 DEF Dims
<1>8. \A d \in Dims : LedgerClaims'[o][d] = 0
  <2>1. CASE op'[o].pc = "idle"
    <3>1. LedgerClaims'[o] = Zero
      BY <1>0, <2>1, ClaimsOf, PcHolding
    <3> QED BY <3>1 DEF Zero
  <2>2. CASE op'[o].pc = "settle" /\ op'[o].resv = op[o].resv /\ op'[o].landed = op[o].resv
    <3>1. LedgerClaims'[o] = Minus(op[o].resv, op[o].resv)
      BY <1>0, <2>2, ClaimsOf, PcHolding
    <3> QED BY <1>0, <3>1 DEF Minus, Amounts
  <2> QED BY <2>1, <2>2
<1>9. Pays(o)
  BY <1>4, <1>6, <1>7, <1>8 DEF Pays
<1> QED BY <1>0, <1>3, <1>9, IsWrite

\* The pinned write of an update: its pin is on the row that was measured.
LEMMA PinnedWrites ==
    ASSUME CountersCover, NEW o \in Ops, NEW id \in Ids, WritePinned(o, id) \/ OutcomeUnknown(o, id),
           op[o].pc = "write", PinHolds(id, op[o].measure),
           rows' = [rows EXCEPT ![id] = Rewritten(id, op[o].size)]
    PROVE  Ledger!Write(o)
<1>0. /\ TypeOK /\ TypeOK' /\ Moves(o) /\ op[o] \in OpValues /\ Balanced(op[o]) /\ Pinned(op[o])
      /\ op[o].resv \in Amounts /\ op[o].landed \in Amounts
  BY StepFacts DEF OpStep, OpFails
<1>1. id \in op[o].todo /\ UNCHANGED account
  BY DEF WritePinned, OutcomeUnknown
<1>2. /\ op[o].kind = "update" /\ op[o].size \in Sizes /\ op[o].landed = Zero
      /\ Minus(op[o].resv, op[o].landed) = Due(op[o])
  BY <1>0 DEF Balanced, KindsAt
<1>3. Holding(o) /\ absent = {} /\ UNCHANGED <<counter, absent>>
  BY <1>1, PcHolding, HolderMeans DEF account
<1> DEFINE n == op[o].size - op[o].measure.size
<1>4. op[o].measure.size = rows[id].size /\ Exists(id)
  BY <1>0, <1>1, <1>2 DEF Pinned, PinHolds
<1>5. n \in Int
  BY <1>0, OpIsTyped, RowIsTyped
<1>6. LedgerClaims[o] = Growth(n) /\ op[o].resv = Growth(n)
  <2>1. Due(op[o]) = Growth(n)
    BY <1>2 DEF Due
  <2>2. LedgerClaims[o] = Due(op[o])
    BY <1>0, <1>2, <1>3, ClaimsOf
  <2>3. op[o].resv = Due(op[o])
    BY <1>0, <1>2, MinusZero
  <2> QED BY <2>1, <2>2, <2>3
<1>7. \A d \in Dims : Stored'[d] = Stored[d] + Bytes(n)[d] /\ Stored[d] \in Int
  BY <1>0, <1>2, <1>4, RewriteGrows, LedgerTyped DEF Amounts
<1>8. \A d \in Dims : LedgerClaims'[o][d] = 0 \/ LedgerClaims'[o][d] = Growth(n)[d] - Bytes(n)[d]
  <2>1. CASE OutcomeUnknown(o, id)
    <3>1. op'[o].pc = "idle"
      BY <1>0, <2>1, EndMoves DEF OutcomeUnknown, NoOp
    <3>2. LedgerClaims'[o] = Zero
      BY <1>0, <3>1, ClaimsOf, PcHolding
    <3> QED BY <3>2 DEF Zero
  <2>2. CASE WritePinned(o, id)
    <3>1. op'[o].pc = "settle" /\ op'[o].resv = op[o].resv /\ op'[o].landed = Bytes(n)
      BY <1>0, <2>2, OpsTyped DEF WritePinned, OpValues
    <3>2. LedgerClaims'[o] = Minus(Growth(n), Bytes(n))
      BY <1>0, <1>6, <3>1, ClaimsOf, PcHolding
    <3> QED BY <3>2 DEF Minus
  <2> QED BY <2>1, <2>2
<1> HIDE DEF n
<1>9. \A d \in Dims : /\ Growth(n)[d] \in Int /\ Bytes(n)[d] \in Int
                      /\ Growth(n)[d] >= 0 /\ Growth(n)[d] >= Bytes(n)[d]
  BY <1>5 DEF Growth, Bytes, Zero, Dims
<1>10. Pays(o)
  BY <1>6, <1>7, <1>8, <1>9 DEF Pays
<1> QED BY <1>0, <1>3, <1>10, IsWrite

\* A row removed, with its reply or without it.
LEMMA WalkWrites ==
    ASSUME CountersCover, NEW o \in Ops, NEW id \in Ids, Walk(o, id) \/ WalkUnknown(o, id)
    PROVE  Ledger!Write(o)
<1>0. /\ TypeOK /\ TypeOK' /\ Moves(o) /\ op[o] \in OpValues
      /\ op[o].resv \in Amounts /\ op[o].landed \in Amounts
  BY StepFacts DEF OpStep, OpFails
<1>1. op[o].pc = "walk" /\ Exists(id) /\ UNCHANGED account /\ rows' = [rows EXCEPT ![id] = Removed(id)]
  BY DEF Walk, WalkUnknown, At
<1>2. Holding(o) /\ absent = {} /\ UNCHANGED <<counter, absent>>
  BY <1>1, PcHolding, HolderMeans DEF account
<1> DEFINE r == RowOf(id, rows[id].size)
<1>3. \A d \in Dims : /\ Stored'[d] = Stored[d] - r[d] /\ Stored[d] \in Int
                      /\ r[d] \in Nat
  BY <1>0, <1>1, RemoveGrows, LedgerTyped DEF Amounts
<1>4. \A d \in Dims : LedgerClaims[o][d] = op[o].resv[d] - op[o].landed[d] /\ LedgerClaims[o][d] \in Int
  <2>1. LedgerClaims[o] = Minus(op[o].resv, op[o].landed)
    BY <1>0, <1>2, ClaimsOf
  <2> QED BY <1>0, <2>1 DEF Minus, Amounts
<1>5. \A d \in Dims : LedgerClaims'[o][d] = LedgerClaims[o][d]
                      \/ LedgerClaims'[o][d] = LedgerClaims[o][d] + r[d]
  <2>1. CASE WalkUnknown(o, id)
    <3>1. op'[o].pc = "settle" /\ op'[o].resv = op[o].resv /\ op'[o].landed = op[o].landed
      BY <1>0, <2>1, OpsTyped DEF WalkUnknown, Goto, OpValues
    <3>2. LedgerClaims'[o] = Minus(op[o].resv, op[o].landed)
      BY <1>0, <3>1, ClaimsOf, PcHolding
    <3> QED BY <1>4, <3>2 DEF Minus
  <2>2. CASE Walk(o, id)
    <3>1. op'[o].pc = "walk" /\ op'[o].resv = op[o].resv /\ op'[o].landed = Plus(op[o].landed, Minus(Zero, r))
      BY <1>0, <1>1, <2>2, OpsTyped DEF Walk, Adding, Removal, OpValues
    <3>2. LedgerClaims'[o] = Minus(op[o].resv, Plus(op[o].landed, Minus(Zero, r)))
      BY <1>0, <3>1, ClaimsOf, PcHolding
    <3> HIDE DEF r
    <3> QED BY <1>0, <1>3, <1>4, <3>2 DEF Minus, Plus, Zero, Amounts
  <2> QED BY <2>1, <2>2
<1> HIDE DEF r
<1>6. Pays(o)
  BY <1>3, <1>4, <1>5 DEF Pays
<1> QED BY <1>0, <1>2, <1>6, IsWrite

\* A measure that saw all the rows the import landed, or more.
LEMMA LandedWrites ==
    ASSUME CountersCover, NEW o \in Ops, LandedInserts(o), ~Mismeasured(o)
    PROVE  Ledger!Write(o)
<1>0. /\ TypeOK /\ TypeOK' /\ Moves(o) /\ op[o] \in OpValues
      /\ op[o].resv \in Amounts /\ op[o].landed \in Amounts
      /\ op'[o].resv \in Amounts /\ op'[o].landed \in Amounts
  BY StepFacts DEF OpStep
<1>1. op[o].pc = "landed" /\ UNCHANGED account /\ rows' = rows
  BY DEF LandedInserts, At
<1>2. Holding(o) /\ absent = {} /\ UNCHANGED <<counter, absent>>
  BY <1>1, PcHolding, HolderMeans DEF account
<1>3. op'[o].pc = "settle" /\ op'[o].resv = op[o].resv /\ op'[o].landed = LandedRows(o)
  BY <1>0, LandedInsertsOwn DEF OpValues
<1>4. \A d \in Dims : /\ LandedRows(o)[d] \in Int /\ op[o].landed[d] \in Int /\ op[o].resv[d] \in Int
                      /\ LandedRows(o)[d] >= op[o].landed[d]
  <2>1. \A d \in Dims : ~(LandedRows(o)[d] < op[o].landed[d])
    BY DEF Mismeasured
  <2> QED BY <1>0, <1>3, <2>1 DEF Amounts
<1>5. LedgerClaims[o] = Minus(op[o].resv, op[o].landed)
  BY <1>0, <1>2, ClaimsOf
<1>6. LedgerClaims'[o] = Minus(op[o].resv, LandedRows(o))
  BY <1>0, <1>3, ClaimsOf, PcHolding
<1>7. Stored' = Stored /\ \A d \in Dims : Stored[d] \in Int
  BY <1>0, <1>1, StoredSame, LedgerTyped DEF Amounts
<1>8. Pays(o)
  BY <1>4, <1>5, <1>6, <1>7 DEF Pays, Minus
<1> QED BY <1>0, <1>2, <1>8, IsWrite

\* A rotation's rewrite.
LEMMA ResealReseals ==
    ASSUME CountersCover, NEW o \in Ops, NEW id \in Ids, NEW size \in Sizes, Reseal(o, id, size)
    PROVE  Ledger!Reseal(o)
<1>0. /\ TypeOK /\ TypeOK' /\ Moves(o) /\ op[o] \in OpValues
      /\ op[o].resv \in Amounts /\ op[o].landed \in Amounts
  BY StepFacts DEF OpStep
<1>1. op[o].pc = "reseal" /\ Exists(id) /\ UNCHANGED account
      /\ rows' = [rows EXCEPT ![id] = Rewritten(id, size)]
  BY DEF Reseal, At
<1>2. Holding(o) /\ absent = {} /\ UNCHANGED <<counter, absent>>
  BY <1>1, PcHolding, HolderMeans DEF account
<1> DEFINE b == Bytes(size - rows[id].size)
<1>3. \A d \in Dims : /\ Stored'[d] = Stored[d] + b[d] /\ Stored[d] \in Int
                      /\ d # "bytes" => Stored'[d] = Stored[d]
  BY <1>0, <1>1, RewriteGrows, LedgerTyped DEF Amounts
<1>4. \A d \in Dims : b[d] \in Int
  <2>1. size - rows[id].size \in Int
    BY <1>0, RowsTyped, RowIsTyped, SizesAreNat
  <2> QED BY <2>1 DEF Bytes, Zero, Dims
<1>5. op'[o].pc = "reseal" /\ op'[o].resv = op[o].resv /\ op'[o].landed = Plus(op[o].landed, b)
  BY <1>0, <1>1, OpsTyped DEF Reseal, Adding, OpValues
<1> HIDE DEF b
<1>6. LedgerClaims[o] = Minus(op[o].resv, op[o].landed)
      /\ LedgerClaims'[o] = Minus(op[o].resv, Plus(op[o].landed, b))
  BY <1>0, <1>2, <1>5, ClaimsOf, PcHolding
<1>7. LedgerClaims'[o] = Ledger!Minus(LedgerClaims[o], Ledger!Minus(Stored', Stored))
  BY <1>0, <1>3, <1>4, <1>6 DEF Ledger!Minus, Minus, Plus, Amounts
<1>8. LedgerCounter' = LedgerCounter
  BY <1>0, <1>2, CounterInstalled, CounterInstalledNext
<1>9. LedgerClaims' = [LedgerClaims EXCEPT ![o] = Ledger!Minus(LedgerClaims[o], Ledger!Minus(Stored', Stored))]
  BY <1>0, <1>7, ClaimsOf
<1> QED BY <1>3, <1>8, <1>9 DEF Ledger!Reseal

\* A settle, a release or a withdrawal hands back what was not written.
LEMMA CorrectedHandsBack ==
    ASSUME CountersCover, NEW o \in Ops, Settle(o) \/ SettleThenWithdraw(o) \/ ReleaseAndRetry(o)
    PROVE  Ledger!HandBack(o)
<1>0. /\ TypeOK /\ TypeOK' /\ Moves(o) /\ op[o] \in OpValues
      /\ op[o].resv \in Amounts /\ op[o].landed \in Amounts
  BY StepFacts DEF OpStep
<1>1. op[o].pc \in {"settle", "retry"} /\ rows' = rows /\ Corrected(o)
  BY DEF Settle, SettleThenWithdraw, ReleaseAndRetry, At
<1>2. Holding(o) /\ absent = {} /\ absent' = absent
  BY <1>1, PcHolding, HolderMeans DEF Corrected
<1>3. op'[o].pc \in {"idle", "reserve", "measure"}
  <2>1. CASE End(o)
    BY <1>0, <2>1, EndMoves DEF NoOp
  <2>2. CASE SettleThenWithdraw(o)
    BY <1>0, <2>2, OpsTyped DEF SettleThenWithdraw, NoOp
  <2>3. CASE ReleaseAndRetry(o) /\ ~End(o)
    BY <1>0, <2>3, OpsTyped DEF ReleaseAndRetry, OpValues
  <2> QED BY <2>1, <2>2, <2>3 DEF Settle
<1>4. LedgerClaims'[o] = Zero
  BY <1>0, <1>3, ClaimsOf, PcHolding
<1>5. LedgerClaims[o] = Minus(op[o].resv, op[o].landed)
  BY <1>0, <1>2, ClaimsOf
<1>6. Stored' = Stored
  BY <1>1, StoredSame
<1>7. LedgerCounter = counter /\ LedgerCounter' = counter' /\ counter \in Amounts
  BY <1>0, <1>2, CounterInstalled, CounterInstalledNext DEF TypeOK
<1>8. counter' = Plus(counter, Minus(op[o].landed, op[o].resv))
  BY <1>1 DEF Corrected, Correction
<1>9. LedgerCounter' = Ledger!Minus(LedgerCounter, LedgerClaims[o])
  BY <1>0, <1>5, <1>7, <1>8 DEF Ledger!Minus, Minus, Plus, Amounts
<1>10. LedgerClaims' = [LedgerClaims EXCEPT ![o] = Ledger!Zero]
  <2>1. Ledger!Zero = Zero
    BY DEF Ledger!Zero, Zero
  <2> QED BY <1>0, <1>4, <2>1, ClaimsOf
<1> QED BY <1>6, <1>9, <1>10 DEF Ledger!HandBack

\* A request that ends without its settle.
LEMMA EndForgets ==
    ASSUME CountersCover, NEW o \in Ops, Moves(o), End(o), rows' = rows, UNCHANGED <<counter, absent>>
    PROVE  Ledger!Forget(o)
<1>0. TypeOK
  BY InvParts
<1>1. op'[o].pc = "idle"
  BY <1>0, EndMoves DEF NoOp
<1>2. LedgerClaims'[o] = Zero
  BY <1>0, <1>1, ClaimsOf, PcHolding
<1>3. Stored' = Stored
  BY StoredSame
<1>4. LedgerCounter' = LedgerCounter
  BY <1>3 DEF LedgerCounter
<1>5. LedgerClaims' = [LedgerClaims EXCEPT ![o] = Ledger!Zero]
  <2>1. Ledger!Zero = Zero
    BY DEF Ledger!Zero, Zero
  <2> QED BY <1>0, <1>2, <2>1, ClaimsOf
<1> QED BY <1>3, <1>4, <1>5 DEF Ledger!Forget

\* The steps the ledger does not see: a request that holds nothing stays so.
LEMMA BeforeStutters ==
    ASSUME CountersCover, NEW o \in Ops, Moves(o), ~Holding(o), ~Holding(o)', rows' = rows,
           UNCHANGED <<counter, absent>>
    PROVE  UNCHANGED Ledger!ledger
<1>0. TypeOK
  BY InvParts
<1>1. LedgerClaims[o] = Zero /\ LedgerClaims'[o] = Zero
  BY <1>0, ClaimsOf
<1> QED BY <1>0, <1>1, IdleStutters

\* ... or a request moves on with what it holds.
LEMMA GotoStutters ==
    ASSUME CountersCover, NEW o \in Ops, Moves(o), Holding(o), Holding(o)', rows' = rows,
           UNCHANGED <<counter, absent>>, op'[o].resv = op[o].resv, op'[o].landed = op[o].landed
    PROVE  UNCHANGED Ledger!ledger
<1>0. TypeOK
  BY InvParts
<1>1. LedgerClaims'[o] = LedgerClaims[o]
  BY <1>0, ClaimsOf
<1> QED BY <1>0, <1>1, IdleStutters

\* The first count installs what is stored: a counter that was absent counted as that.
LEMMA InstallStutters ==
    ASSUME CountersCover, NEW o \in Ops, Install(o)
    PROVE  UNCHANGED Ledger!ledger
<1>0. TypeOK /\ TypeOK' /\ Moves(o) /\ op[o] \in OpValues
  BY StepFacts DEF OpStep
<1>1. op[o].pc = "install" /\ rows' = rows
  BY DEF Install, At
<1>2. op'[o].pc = "reserve"
  BY <1>0, OpsTyped DEF Install, OpValues
<1>3. ~Holding(o) /\ ~Holding(o)'
  BY <1>1, <1>2, PcHolding
<1>4. CASE UNCHANGED account
  BY <1>0, <1>1, <1>3, <1>4, BeforeStutters DEF account
<1>5. CASE absent # {} /\ absent' = {}
           /\ counter' = [d \in Dims |-> IF d \in absent THEN op[o].total[d] ELSE counter[d]]
  <2>1. op[o].total = Stored
    BY <1>1, <1>5 DEF CountersCover, InstallIsExact, At
  <2>2. Stored' = Stored
    BY <1>1, StoredSame
  <2>3. LedgerCounter' = counter'
    BY <1>0, <1>5, CounterInstalledNext
  <2>4. LedgerCounter' = LedgerCounter
    BY <1>5, <2>1, <2>3 DEF LedgerCounter
  <2>5. LedgerClaims[o] = Zero /\ LedgerClaims'[o] = Zero
    BY <1>0, <1>3, ClaimsOf
  <2>6. LedgerClaims' = LedgerClaims
    <3>1. LedgerClaims' = [LedgerClaims EXCEPT ![o] = LedgerClaims[o]]
      BY <1>0, <2>5, ClaimsOf
    <3> QED BY <1>0, <3>1, LedgerTyped
  <2> QED BY <2>2, <2>4, <2>6 DEF Ledger!ledger
<1> QED BY <1>4, <1>5 DEF Install

\* A step of the ledger that needs no excuse, or none.
Plain(o) ==
    \/ UNCHANGED Ledger!ledger
    \/ Ledger!Promise(o) \/ Ledger!Write(o) \/ Ledger!HandBack(o) \/ Ledger!Forget(o)

\* Every step of a request is a step of the ledger. The two that are excused say so.
LEMMA OpLedger ==
    ASSUME CountersCover, NEW o \in Ops, (\E r \in Requests : Begin(o, r)) \/ OpStep(o) \/ OpFails(o)
    PROVE  \/ Plain(o) /\ UNCHANGED history
           \/ Ledger!Reseal(o) /\ Excuse({"reseal"})
           \/ Mismeasured(o) /\ LandedInserts(o) /\ Excuse({"import"})
<1> DEFINE Goal == \/ Plain(o) /\ UNCHANGED history
                   \/ Ledger!Reseal(o) /\ Excuse({"reseal"})
                   \/ Mismeasured(o) /\ LandedInserts(o) /\ Excuse({"import"})
<1> SUFFICES Goal
  OBVIOUS
<1>0. /\ TypeOK /\ TypeOK' /\ Moves(o) /\ op[o] \in OpValues /\ op'[o] \in OpValues
      /\ op \in [Ops -> OpValues]
  BY StepFacts, OpsTyped
<1>1. ASSUME rows' = rows, UNCHANGED account, UNCHANGED history,
             op[o].pc \in {"idle", "measure", "reserve", "count", "count2", "install"},
             op'[o].pc \in {"idle", "measure", "reserve", "count", "count2", "install"}
      PROVE  Goal
  <2>1. ~Holding(o) /\ ~Holding(o)'
    BY <1>1, PcHolding
  <2> QED BY <1>0, <1>1, <2>1, BeforeStutters DEF Plain, account
<1>2. ASSUME NEW pc \in {"settle", "landed", "retry"}, Goto(o, pc), rows' = rows, UNCHANGED account,
             UNCHANGED history,
             op[o].pc \notin {"idle", "measure", "reserve", "count", "count2", "install"}
      PROVE  Goal
  <2>1. op'[o].pc = pc /\ op'[o].resv = op[o].resv /\ op'[o].landed = op[o].landed
    BY <1>0, <1>2 DEF Goto, OpValues
  <2>2. Holding(o) /\ Holding(o)'
    BY <1>2, <2>1, PcHolding
  <2> QED BY <1>0, <1>2, <2>1, <2>2, GotoStutters DEF Plain, account
<1>3. ASSUME End(o), rows' = rows, UNCHANGED account, UNCHANGED history PROVE Goal
  BY <1>0, <1>3, EndForgets DEF Plain, account
<1>4. ASSUME NEW r \in Requests, Begin(o, r) PROVE Goal
  <2>1. op'[o].pc \in {"measure", "reserve"} /\ op[o].pc = "idle"
    BY <1>0, <1>4 DEF Begin, NoOp, At
  <2> QED BY <1>1, <1>4, <2>1 DEF Begin
<1>5. ASSUME Reserve(o) PROVE Goal
  BY <1>5, ReservePromises DEF Plain, Reserve
<1>6. ASSUME ReserveRefused(o) PROVE Goal
  BY <1>3, <1>6 DEF ReserveRefused
<1>7. ASSUME ReserveAbsent(o) \/ CountItems(o) \/ CountFolders(o) PROVE Goal
  <2>1. op[o].pc \in {"reserve", "count", "count2"} /\ op'[o].pc \in {"count", "count2", "install"}
    BY <1>0, <1>7 DEF ReserveAbsent, CountItems, CountFolders, Goto, At, OpValues
  <2> QED BY <1>1, <1>7, <2>1 DEF ReserveAbsent, CountItems, CountFolders
<1>8. ASSUME Install(o) PROVE Goal
  BY <1>8, InstallStutters DEF Plain, Install
<1>9. ASSUME LandedInserts(o) PROVE Goal
  <2>1. CASE Mismeasured(o)
    BY <1>9, <2>1 DEF LandedInserts
  <2>2. CASE ~Mismeasured(o)
    <3>1. UNCHANGED history
      BY <1>9, <2>2 DEF LandedInserts, Excuse, history
    <3> QED BY <1>9, <2>2, <3>1, LandedWrites DEF Plain
  <2> QED BY <2>1, <2>2
<1>10. ASSUME ImportCommit(o) PROVE Goal
  <2>1. op[o].pc = "txn" /\ UNCHANGED account /\ UNCHANGED history
    BY <1>10 DEF ImportCommit, At
  <2>2. CASE rows' = rows /\ Goto(o, "settle")
    BY <1>2, <2>1, <2>2
  <2>3. CASE /\ \A id \in op[o].todo : ~Exists(id)
             /\ rows' = [id \in Ids |-> IF id \in op[o].todo THEN Inserted(id, op[o].size) ELSE rows[id]]
             /\ op' = [op EXCEPT ![o].pc = "settle", ![o].landed = op[o].resv]
    <3>1. op'[o].pc = "settle" /\ op'[o].resv = op[o].resv /\ op'[o].landed = op[o].resv
      BY <1>0, <2>3 DEF OpValues
    <3> QED BY <1>10, <2>1, <2>3, <3>1, CommitWrites DEF Plain
  <2> QED BY <1>10, <2>2, <2>3, Zenon DEF ImportCommit
<1>11. ASSUME NEW id \in Ids, Insert(o, id) PROVE Goal
  <2>1. op[o].pc = "insert" /\ UNCHANGED account /\ UNCHANGED history
    BY <1>11 DEF Insert, At
  <2>2. CASE ~Exists(id)
    BY <1>11, <2>1, <2>2, InsertWrites DEF Insert, Plain
  <2>3. CASE Exists(id)
    <3>1. rows' = rows /\ (Goto(o, "landed") \/ Goto(o, "settle"))
      BY <1>11, <2>3 DEF Insert
    <3> QED BY <1>2, <2>1, <3>1
  <2> QED BY <2>2, <2>3
<1>12. ASSUME NEW id \in Ids, Measure(o, id) PROVE Goal
  <2>1. CASE End(o)
    BY <1>3, <1>12, <2>1 DEF Measure
  <2>2. CASE op' = [op EXCEPT ![o].pc = "reserve", ![o].measure = rows[id],
                             ![o].resv = Growth(op[o].size - rows[id].size)]
    <3>1. op'[o].pc = "reserve" /\ op[o].pc = "measure"
      BY <1>0, <1>12, <2>2 DEF OpValues, Measure, At
    <3> QED BY <1>1, <1>12, <3>1 DEF Measure
  <2> QED BY <1>12, <2>1, <2>2 DEF Measure
<1>13. ASSUME NEW id \in Ids, WritePinned(o, id) PROVE Goal
  BY <1>13, PinnedWrites DEF WritePinned, At, Plain
<1>14. ASSUME NEW id \in Ids, PinMissed(o, id) PROVE Goal
  BY <1>2, <1>14 DEF PinMissed, At
<1>15. ASSUME NEW id \in Ids, Walk(o, id) PROVE Goal
  BY <1>15, WalkWrites DEF Walk, Plain
<1>16. ASSUME NEW id \in Ids, NEW size \in Sizes, Reseal(o, id, size) PROVE Goal
  BY <1>16, ResealReseals DEF Reseal
<1>17. ASSUME WalkEnds(o) \/ ResealEnds(o) PROVE Goal
  BY <1>2, <1>17 DEF WalkEnds, ResealEnds, At
<1>18. ASSUME Settle(o) \/ SettleThenWithdraw(o) \/ ReleaseAndRetry(o) PROVE Goal
  BY <1>18, CorrectedHandsBack DEF Settle, SettleThenWithdraw, ReleaseAndRetry, Plain
<1>19. ASSUME Crash(o) PROVE Goal
  BY <1>3, <1>19 DEF Crash
<1>20. ASSUME InsertUnknown(o) PROVE Goal
  <2>1. op[o].pc = "insert" /\ op'[o].pc = "landed" /\ op'[o].resv = op[o].resv /\ op'[o].landed = op[o].landed
    BY <1>0, <1>20 DEF InsertUnknown, At, OpValues
  <2>2. Holding(o) /\ Holding(o)'
    BY <2>1, PcHolding
  <2> QED BY <1>0, <1>20, <2>1, <2>2, GotoStutters DEF InsertUnknown, account, Plain
<1>21. ASSUME CommitUnknown(o) PROVE Goal
  <2>1. End(o) /\ UNCHANGED account /\ UNCHANGED history
    BY <1>21 DEF CommitUnknown
  <2>2. CASE rows' = rows
    BY <1>3, <2>1, <2>2
  <2>3. CASE /\ \A id \in op[o].todo : ~Exists(id)
             /\ rows' = [id \in Ids |-> IF id \in op[o].todo THEN Inserted(id, op[o].size) ELSE rows[id]]
    <3>1. op'[o].pc = "idle"
      BY <1>0, <2>1, EndMoves DEF NoOp
    <3> QED BY <1>21, <2>1, <2>3, <3>1, CommitWrites DEF Plain
  <2> QED BY <1>21, <2>2, <2>3, Zenon DEF CommitUnknown
<1>22. ASSUME NEW id \in Ids, OutcomeUnknown(o, id) PROVE Goal
  <2>1. End(o) /\ UNCHANGED account /\ UNCHANGED history
    BY <1>22 DEF OutcomeUnknown
  <2>2. CASE rows' = rows
    BY <1>3, <2>1, <2>2
  <2>3. CASE At(o, "insert") /\ ~Exists(id) /\ rows' = [rows EXCEPT ![id] = Inserted(id, op[o].size)]
    BY <1>22, <2>1, <2>3, InsertWrites DEF At, Plain
  <2>4. CASE At(o, "write") /\ PinHolds(id, op[o].measure)
             /\ rows' = [rows EXCEPT ![id] = Rewritten(id, op[o].size)]
    BY <1>22, <2>1, <2>4, PinnedWrites DEF At, Plain
  <2> QED BY <1>22, <2>2, <2>3, <2>4, Zenon DEF OutcomeUnknown
<1>23. ASSUME NEW id \in Ids, WalkUnknown(o, id) PROVE Goal
  BY <1>23, WalkWrites DEF WalkUnknown, Plain
<1> HIDE DEF Goal
<1>24. CASE OpStep(o)
  BY <1>24, <1>5, <1>6, <1>7, <1>8, <1>9, <1>10, <1>11, <1>12, <1>13, <1>14, <1>15, <1>16, <1>17,
     <1>18, Zenon DEF OpStep
<1>25. CASE OpFails(o)
  BY <1>25, <1>19, <1>20, <1>21, <1>22, <1>23, Zenon DEF OpFails
<1> QED BY <1>4, <1>24, <1>25

-----------------------------------------------------------------------------
(* The recount *)

\* A step that leaves rows, counters and requests alone.
LEMMA AsideStutters ==
    ASSUME UNCHANGED <<rows, op, counter, absent>>
    PROVE  UNCHANGED Ledger!ledger
<1>1. Stored' = Stored
  BY StoredSame
<1>2. LedgerCounter' = LedgerCounter
  BY <1>1 DEF LedgerCounter
<1>3. LedgerClaims' = LedgerClaims
  BY DEF LedgerClaims, Holding
<1> QED BY <1>1, <1>2, <1>3 DEF Ledger!ledger

\* The recount writes what is stored, and nobody holds a reservation when it does.
LEMMA RecountRecounts ==
    ASSUME CountersCover, TypeOK', RecountWrite, recount.unmoved
    PROVE  Ledger!Recount
<1>1. recount.pc = "write" /\ counter' = recount.total /\ absent' = {} /\ UNCHANGED <<rows, op>>
  BY DEF RecountWrite, recounting
<1>2. Nobody /\ recount.total = Stored
  BY <1>1 DEF CountersCover, RecountIsExact
<1>3. \A o \in Ops : LedgerClaims[o] = Ledger!Zero
  BY <1>2 DEF LedgerClaims, Nobody, Zero, Ledger!Zero
<1>4. Stored' = Stored /\ LedgerClaims' = LedgerClaims
  BY <1>1, StoredSame DEF LedgerClaims, Holding
<1>5. LedgerCounter' = Stored
  BY <1>1, <1>2, CounterInstalledNext
<1> QED BY <1>3, <1>4, <1>5 DEF Ledger!Recount

\* The steps of the maintenance job, and time.
Aside == RecountStep \/ RecountFails \/ Quiesce \/ UNCHANGED vars

\* They keep the types, and touch no row and no request.
LEMMA AsideRest ==
    ASSUME CountersCover, Aside
    PROVE  TypeOK' /\ UNCHANGED <<rows, op>>
<1>0. TypeOK /\ RestOK /\ rows \in [Ids -> RowValues] /\ op \in [Ops -> OpValues]
  BY TypeParts DEF CountersCover
<1>1. UNCHANGED <<rows, op>>
  BY DEF Aside, RecountStep, RecountItems, RecountFolders, RecountWrite, RecountFails, Quiesce,
         recounting, vars
<1>2. ItemTotals \in Amounts /\ FolderTotals \in Amounts
  BY <1>0, StoredParts DEF Amounts
<1>3. recount.total \in Amounts /\ recount.unmoved \in BOOLEAN
  BY <1>0 DEF RestOK, RecountValues
<1>4. NoRecount \in RecountValues
  BY AmountsAdd DEF NoRecount, RecountValues
<1>5. RestOK'
  <2>1. CASE RecountItems
    <3>1. recount' \in RecountValues
      BY <2>1, <1>2 DEF RecountItems, NoRecount, RecountValues
    <3> QED BY <2>1, <1>0, <3>1 DEF RecountItems, recounting, history, RestOK
  <2>2. CASE RecountFolders
    <3>1. Plus(recount.total, FolderTotals) \in Amounts /\ recount \in RecountValues
      BY <1>0, <1>2, <1>3, AmountsAdd DEF RestOK
    <3>2. recount' \in RecountValues
      BY <2>2, <3>1 DEF RecountFolders, RecountValues
    <3> QED BY <2>2, <1>0, <3>2 DEF RecountFolders, recounting, history, RestOK
  <2>3. CASE RecountWrite
    <3>1. /\ counter' \in Amounts /\ absent' \subseteq Dims /\ excused' \subseteq ever
          /\ recount' \in RecountValues
      BY <2>3, <1>0, <1>3, <1>4 DEF RecountWrite, history, RestOK
    <3> QED BY <2>3, <1>0, <3>1 DEF RecountWrite, recounting, RestOK
  <2>4. CASE RecountFails
    <3>1. faults' \in 0..MaxFaults
      BY <2>4, <1>0, FaultTyped DEF RecountFails
    <3> QED BY <2>4, <1>0, <1>4, <3>1 DEF RecountFails, recounting, history, RestOK
  <2>5. CASE Quiesce
    BY <2>5, <1>0 DEF Quiesce, history, RestOK
  <2>6. CASE UNCHANGED vars
    BY <2>6, <1>0 DEF vars, history, RestOK
  <2> QED BY <2>1, <2>2, <2>3, <2>4, <2>5, <2>6 DEF Aside, RecountStep
<1> QED BY <1>0, <1>1, <1>5, TypePartsNext

\* They keep the books and the exactness of the aggregates.
LEMMA AsideBooks ==
    ASSUME CountersCover, Aside
    PROVE  /\ \A p \in Ops : Balanced(op'[p]) /\ Pinned(op[p])'
           /\ InstallIsExact' /\ RecountIsExact'
<1>0. UNCHANGED <<rows, op>> /\ TypeOK
  BY AsideRest DEF CountersCover
<1>1. \A p \in Ops : Balanced(op'[p]) /\ Pinned(op[p])'
  BY <1>0 DEF CountersCover, Pinned, PinHolds, Exists
<1>2. Stored' = Stored /\ ItemTotals' = ItemTotals
  BY <1>0, StoredSame
<1>3. Nobody' <=> Nobody
  BY <1>0 DEF Nobody, Holding
<1>4. absent' = absent \/ absent' = {}
  BY DEF Aside, RecountStep, RecountItems, RecountFolders, RecountWrite, RecountFails, Quiesce, vars
<1>5. InstallIsExact'
  BY <1>0, <1>2, <1>3, <1>4 DEF CountersCover, InstallIsExact, At
<1>6. recount \in RecountValues
  BY <1>0 DEF TypeOK
<1>7. quiet' => Nobody
  <2>1. CASE UNCHANGED quiet
    BY <2>1 DEF CountersCover, RecountIsExact
  <2>2. CASE Quiesce
    BY <2>2 DEF Quiesce, Nobody
  <2> QED
    BY <2>1, <2>2 DEF Aside, RecountStep, RecountItems, RecountFolders, RecountWrite, RecountFails, vars
<1>8. recount'.pc # "idle" /\ recount'.unmoved =>
        /\ Nobody
        /\ recount'.pc = "folders" => recount'.total = ItemTotals
        /\ recount'.pc = "write" => recount'.total = Stored
  <2>1. CASE RecountItems
    BY <2>1 DEF RecountItems, NoRecount, CountersCover, RecountIsExact
  <2>2. CASE RecountFolders
    <3>1. /\ recount'.pc = "write" /\ recount'.unmoved = recount.unmoved
          /\ recount'.total = Plus(recount.total, FolderTotals)
      BY <2>2, <1>6 DEF RecountFolders, RecountValues
    <3> QED BY <2>2, <3>1 DEF RecountFolders, CountersCover, RecountIsExact, Stored
  <2>3. CASE RecountWrite \/ RecountFails
    BY <2>3 DEF RecountWrite, RecountFails, NoRecount
  <2>4. CASE Quiesce \/ UNCHANGED vars
    BY <2>4 DEF Quiesce, vars, CountersCover, RecountIsExact
  <2> QED BY <2>1, <2>2, <2>3, <2>4 DEF Aside, RecountStep
<1>9. RecountIsExact'
  BY <1>2, <1>3, <1>7, <1>8 DEF RecountIsExact
<1> QED BY <1>1, <1>5, <1>9

\* The ledger sees a recount, or nothing.
LEMMA AsideLedger ==
    ASSUME CountersCover, Aside
    PROVE  \/ UNCHANGED Ledger!ledger /\ UNCHANGED history
           \/ Ledger!Recount /\ excused' = {} /\ ever' = ever
<1>0. UNCHANGED <<rows, op>> /\ TypeOK'
  BY AsideRest
<1>1. CASE RecountWrite /\ recount.unmoved
  BY <1>0, <1>1, RecountRecounts DEF RecountWrite
<1>2. CASE UNCHANGED <<counter, absent>> /\ UNCHANGED history
  BY <1>0, <1>2, AsideStutters
<1>3. CASE RecountWrite /\ ~recount.unmoved
  BY <1>2, <1>3 DEF RecountWrite, history
<1>4. CASE RecountItems \/ RecountFolders \/ RecountFails \/ Quiesce \/ UNCHANGED vars
  BY <1>2, <1>4 DEF RecountItems, RecountFolders, RecountFails, Quiesce, vars
<1> QED BY <1>1, <1>3, <1>4 DEF Aside, RecountStep

-----------------------------------------------------------------------------
(* The inductive invariant *)

\* Whatever needs no excuse keeps every dimension.
LEMMA PlainKeeps ==
    ASSUME TypeOK, TypeOK', NEW o \in Ops, Plain(o), NEW d \in Dims
    PROVE  Keeps(d)
BY PromiseKeeps, WriteKeeps, HandBackKeeps, ForgetKeeps, StutterKeeps DEF Plain

\* The three dimensions.
LEMMA DimsAre == "bytes" \in Dims /\ "item" \in Dims /\ "folder" \in Dims
BY DEF Dims

\* A step that keeps every dimension and raises no excuse.
LEMMA KeepsPromises ==
    ASSUME CountersCover, \A d \in Dims : Keeps(d), UNCHANGED history
    PROVE  NeverUndercounted' /\ WithinLimits'
<1>1. NeverUndercounted /\ WithinLimits /\ excused \subseteq ever /\ excused' = excused /\ ever' = ever
  BY DEF CountersCover, TypeOK, history
<1>2. excused = {} => Ledger!Covered("bytes")'
  BY <1>1, DimsAre DEF NeverUndercounted, Keeps
<1>3. "import" \notin excused => Ledger!Covered("item")' /\ Ledger!Covered("folder")'
  BY <1>1, DimsAre DEF NeverUndercounted, Keeps
<1>4. ever = {} => Ledger!Within("bytes")'
  BY <1>1, DimsAre DEF NeverUndercounted, WithinLimits, Keeps
<1>5. "import" \notin ever => Ledger!Within("item")' /\ Ledger!Within("folder")'
  BY <1>1, DimsAre DEF NeverUndercounted, WithinLimits, Keeps
<1> QED BY <1>1, <1>2, <1>3, <1>4, <1>5 DEF NeverUndercounted, WithinLimits

\* A step of a request keeps the promises of the quota, up to its excuse.
LEMMA OpPromises ==
    ASSUME CountersCover, NEW o \in Ops, (\E r \in Requests : Begin(o, r)) \/ OpStep(o) \/ OpFails(o)
    PROVE  NeverUndercounted' /\ WithinLimits'
<1>0. TypeOK /\ TypeOK'
  BY StepFacts
<1>1. CASE Plain(o) /\ UNCHANGED history
  <2>1. \A d \in Dims : Keeps(d)
    BY <1>0, <1>1, PlainKeeps
  <2> QED BY <1>1, <2>1, KeepsPromises
<1>2. CASE Ledger!Reseal(o) /\ Excuse({"reseal"})
  <2>1. Keeps("item") /\ Keeps("folder")
    <3>1. "item" \in Dims \ {"bytes"} /\ "folder" \in Dims \ {"bytes"}
      BY DEF Dims
    <3> QED BY <1>0, <1>2, <3>1, ResealKeeps
  <2>2. NeverUndercounted /\ WithinLimits /\ excused \subseteq ever
    BY DEF CountersCover, TypeOK
  <2>3. excused' # {} /\ ever' # {} /\ ("import" \notin excused' => "import" \notin excused)
        /\ ("import" \notin ever' => "import" \notin ever)
    BY <1>2 DEF Excuse
  <2>4. "import" \notin excused => Ledger!Covered("item")' /\ Ledger!Covered("folder")'
    BY <2>1, <2>2 DEF NeverUndercounted, Keeps
  <2>5. "import" \notin ever => Ledger!Within("item")' /\ Ledger!Within("folder")'
    BY <2>1, <2>2 DEF NeverUndercounted, WithinLimits, Keeps
  <2> QED BY <2>3, <2>4, <2>5 DEF NeverUndercounted, WithinLimits
<1>3. CASE Excuse({"import"})
  BY <1>3 DEF Excuse, NeverUndercounted, WithinLimits
<1> QED BY <1>1, <1>2, <1>3, OpLedger

\* So do the recount and time.
LEMMA AsidePromises ==
    ASSUME CountersCover, Aside
    PROVE  NeverUndercounted' /\ WithinLimits'
<1>0. TypeOK /\ TypeOK'
  BY AsideRest DEF CountersCover
<1>1. CASE UNCHANGED Ledger!ledger /\ UNCHANGED history
  <2>1. \A d \in Dims : Keeps(d)
    BY <1>1, StutterKeeps
  <2> QED BY <1>1, <2>1, KeepsPromises
<1>2. CASE Ledger!Recount /\ excused' = {} /\ ever' = ever
  <2>1. \A d \in Dims : Ledger!Covered(d)' /\ (Ledger!Within(d) => Ledger!Within(d)')
    BY <1>0, <1>2, RecountCovers
  <2>2. WithinLimits
    BY DEF CountersCover
  <2> QED BY <1>2, <2>1, <2>2, DimsAre DEF NeverUndercounted, WithinLimits
<1> QED BY <1>1, <1>2, AsideLedger

\* Every step keeps the inductive invariant.
LEMMA CoverPreserved ==
    ASSUME CountersCover, [Next]_vars
    PROVE  CountersCover'
<1>1. ASSUME NEW o \in Ops, (\E r \in Requests : Begin(o, r)) \/ OpStep(o) \/ OpFails(o)
      PROVE  CountersCover'
  BY <1>1, StepBooks, OpExact, OpPromises DEF CountersCover
<1>2. CASE Aside
  BY <1>2, AsideRest, AsideBooks, AsidePromises DEF CountersCover
<1> QED BY <1>1, <1>2 DEF Next, Aside

-----------------------------------------------------------------------------
(* The beginning *)

\* The account starts with typed rows and no request in progress.
LEMMA InitTyped ==
    ASSUME Init
    PROVE  TypeOK
<1>1. rows \in [Ids -> RowValues]
  <2>1. PICK size \in Contents : rows = [id \in Ids |-> [size |-> size[id], v |-> 0, inc |-> 0]]
    BY DEF Init
  <2>2. \A id \in Ids : size[id] \in {0} \cup Sizes
    BY QuotaAssumption DEF Ids
  <2>3. \A id \in Ids : [size |-> size[id], v |-> 0, inc |-> 0] \in RowValues
    BY <2>2 DEF RowValues
  <2> QED BY <2>1, <2>3
<1>2. op \in [Ops -> OpValues]
  BY NoOpTyped DEF Init
<1>3. counter \in Amounts
  <2>1. Stored \in [Dims -> Nat]
    BY <1>1, StoredParts
  <2> QED BY <2>1 DEF Init, Amounts
<1>4. recount \in RecountValues
  BY AmountsAdd DEF Init, NoRecount, RecountValues
<1>5. MaxOps \in Nat /\ MaxFaults \in Nat
  BY QuotaAssumption
<1>6. RestOK
  BY <1>3, <1>4, <1>5 DEF Init, RestOK, Dims
<1> QED BY <1>1, <1>2, <1>6, TypeParts

\* The ledger starts with counters that are right and no promise.
LEMMA InitLedger ==
    ASSUME Init
    PROVE  Ledger!LedgerInit
<1>1. TypeOK
  BY InitTyped
<1>2. Stored \in [Dims -> Nat]
  BY <1>1, RowsTyped, StoredParts
<1>3. LedgerCounter = Stored
  BY <1>2 DEF Init, LedgerCounter
<1>4. LedgerClaims = [o \in Ops |-> Ledger!Zero]
  BY DEF Init, LedgerClaims, Holding, NoOp, Zero, Ledger!Zero
<1> QED BY <1>2, <1>3, <1>4 DEF Ledger!LedgerInit, Ledger!NonNegative

\* The bytes of all the rows are those of the items and those of the folders.
LEMMA AllBytes ==
    ASSUME rows \in [Ids -> RowValues]
    PROVE  SizeOf(Ids) = SizeOf(Items) + SizeOf(Folders)
<1> DEFINE f == [id \in Ids |-> rows[id].size]
<1>1. \A id \in Ids : f[id] \in Int
  BY RowIsTyped
<1>2. Tally(f, Ids) = Tally(f, Ids \ Folders) + Tally(f, Folders)
  <2> HIDE DEF f
  <2> QED BY <1>1, IdSets, TallySplit
<1>3. Ids \ Folders = Items
  BY IdSets DEF Ids
<1>4. Tally(f, Items) = SizeOf(Items)
  <2> DEFINE g == [id \in Items |-> rows[id].size]
  <2>1. \A id \in Items : f[id] = g[id]
    BY IdSets
  <2>2. Tally(f, Items) = Tally(g, Items)
    <3> HIDE DEF f, g
    <3> QED BY <2>1, TallySame
  <2> QED BY <2>2 DEF SizeOf
<1>5. Tally(f, Folders) = SizeOf(Folders)
  <2> DEFINE g == [id \in Folders |-> rows[id].size]
  <2>1. \A id \in Folders : f[id] = g[id]
    BY IdSets
  <2>2. Tally(f, Folders) = Tally(g, Folders)
    <3> HIDE DEF f, g
    <3> QED BY <2>1, TallySame
  <2> QED BY <2>2 DEF SizeOf
<1> QED BY <1>2, <1>3, <1>4, <1>5 DEF SizeOf

\* Every account starts covered.
LEMMA InitCovers ==
    ASSUME Init
    PROVE  CountersCover
<1>1. TypeOK /\ Ledger!LedgerInit /\ rows \in [Ids -> RowValues]
  BY InitTyped, InitLedger, RowsTyped
<1>2. \A o \in Ops : op[o] = NoOp
  BY DEF Init
<1>3. \A o \in Ops : Balanced(op[o]) /\ Pinned(op[o])
  BY <1>2, NoOpBalanced
<1>4. Nobody /\ \A o \in Ops : ~At(o, "count2") /\ ~At(o, "install")
  BY <1>2 DEF Nobody, Holding, At, NoOp
<1>5. InstallIsExact /\ RecountIsExact
  BY <1>4 DEF InstallIsExact, RecountIsExact, Init, NoRecount
<1>6. \A d \in Dims : Ledger!Claimed(d) = 0
  BY <1>1, NobodyClaims DEF Ledger!LedgerInit, Ledger!Zero
<1>7. /\ Stored \in [Dims -> Nat] /\ LedgerCounter = Stored
      /\ Stored["bytes"] = SizeOf(Ids)
      /\ Stored["item"] = RowsIn(Items) /\ Stored["folder"] = RowsIn(Folders)
  BY <1>1, StoredParts, AllBytes DEF Ledger!LedgerInit
<1>8. \A d \in Dims : Stored[d] <= Limit[d]
  BY <1>7 DEF Init, Limit, Dims
<1>9. \A d \in Dims : Ledger!Covered(d) /\ Ledger!Within(d)
  BY <1>6, <1>7, <1>8, CoveredIs
<1>10. NeverUndercounted /\ WithinLimits
  BY <1>9, DimsAre DEF NeverUndercounted, WithinLimits
<1> QED BY <1>1, <1>3, <1>5, <1>10 DEF CountersCover

-----------------------------------------------------------------------------
(* What follows *)

\* Rows that are within the limit with every promise are within it without.
LEMMA CoverHoldsCaps ==
    ASSUME CountersCover
    PROVE  RowCapsHold
<1>1. TypeOK /\ WithinLimits
  BY DEF CountersCover
<1>2. ASSUME NEW d \in Dims, Ledger!Within(d)
      PROVE  Stored[d] <= Limit[d]
  <2>1. Stored[d] \in Int /\ Limit[d] \in Int /\ Ledger!Claimed(d) \in Nat
    BY <1>1, LedgerTyped, LimitTyped, ClaimedNat DEF Amounts
  <2>2. Stored[d] + Ledger!Claimed(d) <= Limit[d]
    BY <1>2, CoveredIs
  <2> QED BY <2>1, <2>2
<1>3. Limit["bytes"] = Quota /\ Limit["item"] = ItemCap /\ Limit["folder"] = FolderCap
  BY DEF Limit
<1> QED BY <1>1, <1>2, <1>3, DimsAre DEF WithinLimits, RowCapsHold

\* Every step of the account is a step of the ledger, or the excepted one.
LEMMA StepImplements ==
    ASSUME CountersCover, [Next]_vars
    PROVE  [Ledger!LedgerNext \/ \E o \in Ops : Mismeasured(o) /\ LandedInserts(o)]_(Ledger!ledger)
<1>1. ASSUME NEW o \in Ops, (\E r \in Requests : Begin(o, r)) \/ OpStep(o) \/ OpFails(o)
      PROVE  \/ Ledger!LedgerNext
             \/ \E p \in Ops : Mismeasured(p) /\ LandedInserts(p)
             \/ UNCHANGED Ledger!ledger
  BY <1>1, OpLedger DEF Plain, Ledger!LedgerNext
<1>2. CASE Aside
  BY <1>2, AsideLedger DEF Ledger!LedgerNext
<1> QED BY <1>1, <1>2 DEF Next, Aside

\* The counters of an account always cover what it stores and what its running requests
\* were promised, and those are within the quota and the caps, with the books that make
\* this inductive: for any number of requests, rows, sizes, retries, crashes and lost
\* replies (reserveVaultWrite, settleVaultWrite, installVaultCounters, recountVaultQuotas).
THEOREM CountersCoverHolds == Spec => []CountersCover
<1>1. Init => CountersCover
  BY InitCovers
<1>2. CountersCover /\ [Next]_vars => CountersCover'
  BY CoverPreserved
<1> QED BY <1>1, <1>2, PTL DEF Spec

\* No race for the last byte or the last row stores more than the quota and the caps
\* allow, unless a rotation or a mismeasured import has run.
THEOREM RowCapsHoldHolds == Spec => []RowCapsHold
<1>1. CountersCover => RowCapsHold
  BY CoverHoldsCaps
<1> QED BY <1>1, CountersCoverHolds, PTL

\* The account implements the ledger: every reservation, write, settle, crash, install
\* and recount is a promise, a write, a hand-back, a loss or a recount of the ledger, or
\* changes nothing it sees. One step is excepted: an import that measures its landed rows
\* after another request has changed them.
THEOREM ImplementsLedgerHolds == Spec => ImplementsLedger
<1>1. Init => Ledger!LedgerInit
  BY InitLedger
<1>2. CountersCover /\ [Next]_vars =>
        [Ledger!LedgerNext \/ \E o \in Ops : Mismeasured(o) /\ LandedInserts(o)]_(Ledger!ledger)
  BY StepImplements
<1> QED BY <1>1, <1>2, CountersCoverHolds, PTL DEF Spec, ImplementsLedger
=============================================================================
