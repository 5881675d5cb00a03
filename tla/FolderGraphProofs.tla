-------------------------- MODULE FolderGraphProofs --------------------------
(***************************************************************************)
(* The properties of FolderGraph hold for every number of folders, members *)
(* and requests, every nesting limit, every starting tree and every number *)
(* of faults. FolderInv is inductive; with it NoCycleStays and             *)
(* RemovedFolderIsEmpty are too. The ancestors of a folder are the least   *)
(* set closed under parentId, so what is needed of cycles follows without  *)
(* induction over the tree.                                                *)
(***************************************************************************)
EXTENDS FolderGraph, TLAPS

\* The markers are no folders and are told apart.
LEMMA Markers ==
    /\ Root # Unborn /\ Root # Gone /\ Unborn # Gone
    /\ Root \notin Folders /\ Unborn \notin Folders /\ Gone \notin Folders
BY FolderAssumption
USE Markers

Parents == [Folders -> Folders \cup {Root, Unborn, Gone}]

-----------------------------------------------------------------------------
(* Reachability over parentId.                                             *)

\* A set of rows that holds the parent of f and, with every row, its own.
Upward(p, f, S) == \A g \in S \cup {f} : p[g] \in Live(p) => p[g] \in S

\* The ancestors are such a set.
LEMMA AncestorsRise ==
    ASSUME NEW p, NEW f
    PROVE  Ancestors(p, f) \subseteq Live(p) /\ Upward(p, f, Ancestors(p, f))
BY DEF Ancestors, Upward

\* They are in every such set.
LEMMA AncestorsAreLeast ==
    ASSUME NEW p, NEW f, NEW S, S \subseteq Live(p), Upward(p, f, S)
    PROVE  Ancestors(p, f) \subseteq S
BY DEF Ancestors, Upward

\* A row is reached through the parent, or is it.
LEMMA OneUp ==
    ASSUME NEW p, NEW f, NEW x \in Ancestors(p, f)
    PROVE  p[f] \in Live(p) /\ (x = p[f] \/ x \in Ancestors(p, p[f]))
<1>1. Upward(p, f, {}) \/ p[f] \in Live(p)
  BY DEF Upward
<1>2. p[f] \in Live(p)
  BY <1>1, AncestorsAreLeast
<1> DEFINE S == {p[f]} \cup Ancestors(p, p[f])
<1>3. S \subseteq Live(p)
  BY <1>2, AncestorsRise
<1>4. Upward(p, f, S)
  BY <1>2, AncestorsRise DEF Upward
<1>5. x \in S
  BY <1>3, <1>4, AncestorsAreLeast
<1> QED
  BY <1>2, <1>5

\* From every row above a folder on a cycle the folder is reached again.
LEMMA RoundTrip ==
    ASSUME NEW p, NEW f, HasCycle(p, f), NEW g \in Ancestors(p, f)
    PROVE  f \in Ancestors(p, g)
<1> DEFINE S == {h \in Ancestors(p, f) : f \in Ancestors(p, h)}
<1>1. f \in Ancestors(p, f)
  BY DEF HasCycle
<1>2. S \subseteq Live(p)
  BY AncestorsRise
<1>3. ASSUME NEW h \in S \cup {f}, p[h] \in Live(p)
      PROVE  p[h] \in S
  <2>1. f \in Ancestors(p, h)
    BY <1>1
  <2>2. f = p[h] \/ f \in Ancestors(p, p[h])
    BY <2>1, OneUp
  <2>3. f \in Ancestors(p, p[h])
    BY <1>1, <2>2
  <2>4. p[h] \in Ancestors(p, f)
    BY <1>1, <1>3, AncestorsRise DEF Upward
  <2> QED
    BY <2>3, <2>4
<1>4. Upward(p, f, S)
  BY <1>3 DEF Upward
<1> QED
  BY <1>2, <1>4, AncestorsAreLeast

\* Every row above a folder on a cycle is on that cycle, and so is its parent.
LEMMA Around ==
    ASSUME NEW p, NEW f, HasCycle(p, f), NEW g \in Ancestors(p, f)
    PROVE  p[g] \in Live(p) /\ p[g] \in Ancestors(p, f)
<1>1. f \in Ancestors(p, g)
  BY RoundTrip
<1> QED
  BY <1>1, OneUp, AncestorsRise DEF Upward

\* All of them have it.
LEMMA AllAround ==
    ASSUME NEW p, NEW f, HasCycle(p, f), NEW g \in Ancestors(p, f)
    PROVE  HasCycle(p, g)
<1>1. f \in Ancestors(p, g)
  BY RoundTrip
<1>2. Ancestors(p, g) \subseteq Live(p) /\ Upward(p, f, Ancestors(p, g))
  BY <1>1, AncestorsRise DEF Upward
<1>3. Ancestors(p, f) \subseteq Ancestors(p, g)
  BY <1>2, AncestorsAreLeast
<1> QED
  BY <1>3, AncestorsRise DEF HasCycle

\* A cycle whose edges are those of an earlier tree was there, with the same rows.
LEMMA SameCycle ==
    ASSUME NEW p, NEW q, NEW f, HasCycle(q, f), \A g \in Ancestors(q, f) : p[g] = q[g]
    PROVE  HasCycle(p, f) /\ Ancestors(p, f) = Ancestors(q, f)
<1> DEFINE A == Ancestors(q, f)
           B == Ancestors(p, f)
<1>1. f \in A /\ A \subseteq Live(q)
  BY AncestorsRise DEF HasCycle
<1>2. A \subseteq Live(p)
  BY <1>1 DEF Live
<1>3. \A g \in A : p[g] = q[g] /\ q[g] \in A
  BY Around
<1>4. Upward(p, f, A)
  BY <1>1, <1>3 DEF Upward
<1>5. B \subseteq A
  BY <1>2, <1>4, AncestorsAreLeast
<1>6. B \subseteq Live(q)
  BY <1>1, <1>5
<1>7. Upward(p, f, B)
  BY AncestorsRise
<1>8. \A g \in B \cup {f} : q[g] \in B
  <2>1. ASSUME NEW g \in B \cup {f} PROVE q[g] \in B
    <3>1. g \in A
      BY <1>1, <1>5
    <3>2. p[g] = q[g] /\ p[g] \in Live(p)
      BY <1>2, <1>3, <3>1
    <3> QED BY <1>7, <3>2 DEF Upward
  <2> QED BY <2>1
<1>9. Upward(q, f, B)
  BY <1>8 DEF Upward
<1>10. A \subseteq B
  BY <1>6, <1>9, AncestorsAreLeast
<1> QED
  BY <1>1, <1>2, <1>5, <1>10 DEF HasCycle

-----------------------------------------------------------------------------
(* Types.                                                                  *)

\* Step r leaves every other request alone.
Only(r) == req' \in [Reqs -> Request] /\ \A x \in Reqs \ {r} : req'[x] = req[x]

\* A request that has not begun is a request.
LEMMA IdleIsRequest ==
    /\ Idle \in Request /\ Idle.pc = "idle" /\ Idle.f = Root /\ Idle.to = Root /\ Idle.m = Root
    /\ Idle.act = "none"
BY DEF Idle, Request, PCs

\* What ending a request does.
LEMMA EndFacts ==
    ASSUME TypeOK, NEW r \in Reqs, End(r)
    PROVE  Only(r) /\ req'[r] = Idle
BY IdleIsRequest DEF End, TypeOK, Only

\* What moving a request on does.
LEMMA GotoFacts ==
    ASSUME TypeOK, NEW r \in Reqs, NEW pc \in PCs, Goto(r, pc)
    PROVE  /\ Only(r) /\ req'[r].pc = pc /\ req'[r].f = req[r].f /\ req'[r].to = req[r].to
           /\ req'[r].m = req[r].m /\ req'[r].act = req[r].act
<1>1. req \in [Reqs -> Request] /\ req' = [req EXCEPT ![r].pc = pc]
  BY DEF TypeOK, Goto
<1>2. req[r] \in Request
  BY <1>1
<1>3. req' = [req EXCEPT ![r] = [req[r] EXCEPT !.pc = pc]]
  BY <1>1
<1>4. [req[r] EXCEPT !.pc = pc] \in Request
  BY <1>2 DEF Request
<1> QED
  BY <1>1, <1>2, <1>3, <1>4 DEF Only, Request

\* The program counters.
LEMMA Counters ==
    /\ {"idle", "insert", "move", "recheck", "detach", "removeTxn"} \subseteq PCs
    /\ {"members", "children", "row", "claim", "sweep", "file"} \subseteq PCs
    /\ {"restore", "breakCycles", "breakOne"} \subseteq PCs
BY DEF PCs

\* What a new edge does.
LEMMA ReparentFacts ==
    ASSUME TypeOK, NEW f \in Folders, NEW to \in Folders \cup {Root, Unborn, Gone}, Reparent(f, to)
    PROVE  /\ parent' \in Parents /\ parent'[f] = to /\ \A g \in Folders \ {f} : parent'[g] = parent[g]
           /\ unchecked' = unchecked \ {f} /\ unchecked' \subseteq Folders
BY DEF TypeOK, Reparent, Parents

\* The fields of a request.
LEMMA Fields ==
    ASSUME TypeOK, NEW r \in Reqs
    PROVE  /\ req \in [Reqs -> Request] /\ req[r] \in Request /\ req[r].pc \in PCs
           /\ req[r].f \in Folders \cup {Root} /\ req[r].to \in Folders \cup {Root}
           /\ req[r].m \in Members \cup {Root} /\ req[r].act \in {"none", "delete", "move", "purge"}
           /\ parent \in Parents
<1>1. req[r] \in Request
  BY DEF TypeOK
<1> QED
  BY <1>1 DEF TypeOK, Request, Parents

\* A folder with a row has a folder or the root for a parent.
LEMMA LiveFacts ==
    ASSUME NEW p \in Parents, NEW f \in Live(p)
    PROVE  f \in Folders /\ p[f] \in Folders \cup {Root} /\ p[f] # Unborn /\ p[f] # Gone
BY DEF Parents, Live

\* What beginning a request does.
LEMMA BeginFacts ==
    ASSUME TypeOK, NEW r \in Reqs, NEW rec \in Request, Begin(r, rec)
    PROVE  TypeOK' /\ Only(r) /\ req'[r] = rec /\ req[r].pc = "idle" /\ parent' = parent
           /\ home' = home /\ trashed' = trashed /\ unchecked' = unchecked /\ strayed' = strayed
<1>1. req' \in [Reqs -> Request] /\ Only(r) /\ req'[r] = rec
  BY Fields DEF Begin, Only
<1>2. ops' \in 0..MaxOps
  BY FolderAssumption DEF Begin, TypeOK
<1> QED
  BY <1>1, <1>2 DEF TypeOK, Begin, At, history

\* The requests that begin: where they stand and what they hold.
Begun(r) ==
    LET q == req'[r]
    IN  /\ TypeOK' /\ Only(r) /\ req[r].pc = "idle"
        /\ parent' = parent /\ home' = home /\ trashed' = trashed
        /\ unchecked' = unchecked /\ strayed' = strayed
        /\ q.to = Root \/ q.to \in Live(parent)
           \/ (q.f \in Live(parent) /\ q.to = parent[q.f])
        /\ \/ /\ q.pc = "insert" /\ q.f \in Folders /\ parent[q.f] = Unborn
              /\ \A x \in Reqs : req[x].f # q.f
           \/ q.pc \in {"move", "removeTxn", "members", "claim"} /\ q.f \in Live(parent)
           \/ q.pc = "file" /\ q.f = Root /\ q.m \in Members
           \/ q.pc = "restore" /\ q.f = Root

\* createFolder.
LEMMA CreateBegins ==
    ASSUME TypeOK, NEW r \in Reqs, NEW f \in Folders, NEW to \in Folders \cup {Root},
           CreateFolder(r, f, to)
    PROVE  Begun(r)
<1> DEFINE rec == [Idle EXCEPT !.pc = "insert", !.f = f, !.to = to]
<1>1. /\ rec \in Request /\ rec.pc = "insert" /\ rec.f = f /\ rec.to = to
  BY Counters DEF Idle, Request
<1>2. Begin(r, rec) /\ parent[f] = Unborn /\ (to = Root \/ to \in Live(parent))
      /\ \A x \in Reqs : req[x].f # f
  BY DEF CreateFolder
<1> HIDE DEF rec
<1> QED BY <1>1, <1>2, BeginFacts DEF Begun

\* updateFolder.
LEMMA UpdateBegins ==
    ASSUME TypeOK, NEW r \in Reqs, NEW f \in Folders, NEW to \in Folders \cup {Root},
           UpdateFolder(r, f, to)
    PROVE  Begun(r)
<1> DEFINE rec == [Idle EXCEPT !.pc = "move", !.f = f, !.to = to]
<1>1. /\ rec \in Request /\ rec.pc = "move" /\ rec.f = f /\ rec.to = to
  BY Counters DEF Idle, Request
<1>2. Begin(r, rec) /\ f \in Live(parent) /\ (to = Root \/ to \in Live(parent))
  BY DEF UpdateFolder
<1> HIDE DEF rec
<1> QED BY <1>1, <1>2, BeginFacts DEF Begun

\* deleteFolder.
LEMMA DeleteBegins ==
    ASSUME TypeOK, NEW r \in Reqs, NEW f \in Folders, NEW act \in {"delete", "move"},
           DeleteFolder(r, f, act)
    PROVE  Begun(r)
<1> DEFINE pc == IF topology = "txn" THEN "removeTxn" ELSE "members"
           to == parent[f]
           rec == [Idle EXCEPT !.pc = pc, !.f = f, !.to = to, !.act = act]
<1>1. f \in Live(parent) /\ Begin(r, rec)
  BY DEF DeleteFolder
<1>2. to \in Folders \cup {Root} /\ pc \in PCs /\ pc \in {"removeTxn", "members"} /\ to = parent[f]
  BY <1>1, LiveFacts, Fields, Counters
<1> HIDE DEF pc, to
<1>3. rec \in Request /\ rec.pc = pc /\ rec.f = f /\ rec.to = to
  BY <1>2 DEF Idle, Request
<1> HIDE DEF rec
<1> QED BY <1>1, <1>2, <1>3, BeginFacts DEF Begun

\* The purge of an unreadable folder.
LEMMA PurgeBegins ==
    ASSUME TypeOK, NEW r \in Reqs, NEW f \in Folders, PurgeFolder(r, f)
    PROVE  Begun(r)
<1> DEFINE rec == [Idle EXCEPT !.pc = "claim", !.f = f, !.act = "purge"]
<1>1. rec \in Request /\ rec.pc = "claim" /\ rec.f = f /\ rec.to = Root
  BY Counters DEF Idle, Request
<1>2. Begin(r, rec) /\ f \in Live(parent)
  BY DEF PurgeFolder
<1> HIDE DEF rec
<1> QED BY <1>1, <1>2, BeginFacts DEF Begun

\* A write that names a folder.
LEMMA FileBegins ==
    ASSUME TypeOK, NEW r \in Reqs, NEW f \in Folders, NEW m \in Members, FileMember(r, m, f)
    PROVE  Begun(r)
<1> DEFINE rec == [Idle EXCEPT !.pc = "file", !.m = m, !.to = f]
<1>1. rec \in Request /\ rec.pc = "file" /\ rec.f = Root /\ rec.to = f /\ rec.m = m
  BY Counters DEF Idle, Request
<1>2. Begin(r, rec) /\ f \in Live(parent)
  BY DEF FileMember
<1> HIDE DEF rec
<1> QED BY <1>1, <1>2, BeginFacts DEF Begun

\* restoreBackup.
LEMMA RestoreBegins ==
    ASSUME TypeOK, NEW r \in Reqs, RestoreBackup(r)
    PROVE  Begun(r)
<1> DEFINE rec == [Idle EXCEPT !.pc = "restore"]
<1>1. rec \in Request /\ rec.pc = "restore" /\ rec.f = Root /\ rec.to = Root
  BY Counters DEF Idle, Request
<1>2. Begin(r, rec)
  BY DEF RestoreBackup
<1> HIDE DEF rec
<1> QED BY <1>1, <1>2, BeginFacts DEF Begun

\* rehomeFolderContents on the members: they stay, go to the trash, or go up, and who goes
\* up to a folder without a row is in the history.
Moved(f, to) ==
    /\ home' \in [Members -> Folders \cup {Root}] /\ trashed' \subseteq Members
    /\ trashed \subseteq trashed' /\ strayed \subseteq strayed' /\ strayed' \subseteq Members
    /\ \A m \in Members : \/ home'[m] = home[m]
                          \/ /\ home[m] = f /\ home'[m] = to
                             /\ ~Lost(to) \/ m \in strayed'

\* rehomeFolderContents on the members does that.
LEMMA RehomedMembersFacts ==
    ASSUME TypeOK, NEW f \in Folders, NEW to \in Folders \cup {Root},
           NEW act \in {"none", "delete", "move", "purge"}, RehomedMembers(f, to, act)
    PROVE  Moved(f, to)
<1>1. CASE act = "delete"
  BY <1>1 DEF RehomedMembers, Moved, TypeOK, ActiveIn
<1>2. CASE act # "delete"
  <2>1. home' = [m \in Members |-> IF home[m] = f THEN to ELSE home[m]] /\ trashed' = trashed
        /\ strayed' = IF Lost(to)
                      THEN strayed \cup {m \in Members : home[m] = f} ELSE strayed
    BY <1>2 DEF RehomedMembers
  <2>2. home' \in [Members -> Folders \cup {Root}]
    BY <2>1 DEF TypeOK
  <2>3. strayed \subseteq strayed' /\ strayed' \subseteq Members /\ trashed' \subseteq Members
        /\ trashed \subseteq trashed'
    BY <2>1 DEF TypeOK
  <2>4. ASSUME NEW m \in Members, home'[m] # home[m]
        PROVE  /\ home[m] = f /\ home'[m] = to
               /\ ~Lost(to) \/ m \in strayed'
    BY <2>1, <2>4
  <2> QED BY <2>2, <2>3, <2>4 DEF Moved
<1> QED BY <1>1, <1>2

\* rehomeFolderContents on the child folders, with the row itself or without.
Lifted(f, to, gone) ==
    /\ parent' \in Parents /\ unchecked' \subseteq Folders
    /\ \A g \in Folders : parent'[g] = IF gone /\ g = f THEN Gone
                                       ELSE IF g \in Live(parent) /\ parent[g] = f THEN to
                                       ELSE parent[g]
    /\ \A g \in unchecked : HasCycle(parent', g) => g \in unchecked'
    /\ \A g \in Folders : parent'[g] # parent[g] /\ HasCycle(parent', g) => g \in unchecked'

\* rehomeFolderContents on the child folders does that.
LEMMA RehomedChildrenFacts ==
    ASSUME TypeOK, NEW f \in Folders, NEW to \in Folders \cup {Root}, NEW gone \in BOOLEAN,
           RehomedChildren(f, to, gone)
    PROVE  Lifted(f, to, gone)
<1> DEFINE children == {g \in Live(parent) : parent[g] = f}
           after == [g \in Folders |-> IF gone /\ g = f THEN Gone
                                       ELSE IF g \in children THEN to ELSE parent[g]]
<1>1. parent' = after
      /\ unchecked' = (unchecked \ children) \cup {g \in children : HasCycle(after, g)}
  BY DEF RehomedChildren
<1>2. parent' \in Parents
  BY <1>1 DEF TypeOK, Parents
<1>3. children \subseteq Folders /\ unchecked' \subseteq Folders
  BY <1>1 DEF Live, TypeOK
<1>4. \A g \in Folders : parent'[g] = IF gone /\ g = f THEN Gone
                                      ELSE IF g \in Live(parent) /\ parent[g] = f THEN to
                                      ELSE parent[g]
  BY <1>1
<1>5. \A g \in Folders : parent'[g] # parent[g] /\ HasCycle(parent', g) => g \in unchecked'
  <2>1. ASSUME NEW g \in Folders, parent'[g] # parent[g], HasCycle(parent', g)
        PROVE  g \in unchecked'
    <3>1. parent'[g] # Gone
      BY <2>1 DEF HasCycle, Live
    <3>2. g \in children
      BY <1>4, <2>1, <3>1
    <3>3. HasCycle(after, g)
      BY <1>1, <2>1
    <3> HIDE DEF after, children
    <3> QED BY <1>1, <3>2, <3>3
  <2> QED BY <2>1
<1>6. \A g \in unchecked : HasCycle(parent', g) => g \in unchecked'
  <2> HIDE DEF after, children
  <2> QED BY <1>1
<1> QED
  BY <1>2, <1>3, <1>4, <1>5, <1>6 DEF Lifted

\* One edge changes.
Edge(f, to) ==
    /\ f \in Folders /\ parent' \in Parents /\ parent'[f] = to
    /\ \A g \in Folders \ {f} : parent'[g] = parent[g]
    /\ unchecked' = unchecked \ {f}

SameEdges == parent' = parent /\ unchecked' = unchecked
SameMembers == home' = home /\ trashed' = trashed /\ strayed' = strayed

\* A request that only moves on.
On(r, pc) ==
    /\ Only(r) /\ req'[r].pc = pc /\ req'[r].f = req[r].f /\ req'[r].to = req[r].to
    /\ req'[r].m = req[r].m /\ req'[r].act = req[r].act

\* A request that is over.
Over(r) == Only(r) /\ req'[r] = Idle

\* createFolder's insert.
LEMMA InsertFacts ==
    ASSUME TypeOK, NewIsAlone, NEW r \in Reqs, Insert(r)
    PROVE  TypeOK' /\ Edge(req[r].f, req[r].to) /\ SameMembers /\ Over(r)
<1>1. req[r].f \in Folders /\ req[r].to \in Folders \cup {Root}
  BY Fields DEF Insert, NewIsAlone
<1>2. Edge(req[r].f, req[r].to) /\ unchecked' \subseteq Folders
  BY <1>1, ReparentFacts DEF Insert, Edge
<1>3. Over(r) /\ SameMembers /\ UNCHANGED <<topology, ops, faults>>
  BY EndFacts DEF Insert, Over, SameMembers
<1> QED
  BY <1>2, <1>3 DEF TypeOK, Edge, Parents, SameMembers, Over, Only

\* updateFolder's write: with a parent it goes on to the re-check.
LEMMA MoveFacts ==
    ASSUME TypeOK, NEW r \in Reqs, Move(r)
    PROVE  /\ TypeOK' /\ SameMembers
           /\ \/ Edge(req[r].f, Root) /\ Over(r)
              \/ Edge(req[r].f, req[r].to) /\ req[r].to # Root /\ On(r, "recheck")
                 /\ req[r].f \in Live(parent)
              \/ SameEdges /\ Over(r)
<1>1. req[r].to \in Folders \cup {Root} /\ "recheck" \in PCs
  BY Fields, Counters
<1>2. SameMembers /\ UNCHANGED <<topology, ops, faults>>
  BY DEF Move, SameMembers
<1>3. CASE req[r].f \in Live(parent) /\ Reparent(req[r].f, req[r].to)
           /\ IF req[r].to = Root THEN End(r) ELSE Goto(r, "recheck")
  <2>1. req[r].f \in Folders
    BY <1>3 DEF Live
  <2>2. Edge(req[r].f, req[r].to) /\ unchecked' \subseteq Folders
    BY <1>1, <1>3, <2>1, ReparentFacts DEF Edge
  <2>3. Only(r) /\ IF req[r].to = Root THEN Over(r) ELSE On(r, "recheck")
    BY <1>1, <1>3, EndFacts, GotoFacts DEF Over, On
  <2> QED BY <1>2, <1>3, <2>2, <2>3 DEF TypeOK, Edge, Parents, SameMembers, Only
<1>4. CASE req[r].f \notin Live(parent) /\ End(r) /\ UNCHANGED <<parent, unchecked>>
  <2>1. Over(r) /\ SameEdges
    BY <1>4, EndFacts DEF Over, SameEdges
  <2> QED BY <1>2, <2>1 DEF TypeOK, SameEdges, SameMembers, Over, Only
<1> QED
  BY <1>3, <1>4 DEF Move

\* The re-check ends the request only when the folder is on no cycle.
LEMMA RecheckFacts ==
    ASSUME TypeOK, NEW r \in Reqs, Recheck(r)
    PROVE  /\ TypeOK' /\ SameMembers /\ SameEdges
           /\ \/ On(r, "detach")
              \/ ~HasCycle(parent, req[r].f) /\ Over(r)
<1>1. SameMembers /\ SameEdges /\ UNCHANGED <<topology, ops, faults>>
  BY DEF Recheck, SameMembers, SameEdges, history
<1>2. Only(r) /\ (On(r, "detach") \/ (~HasCycle(parent, req[r].f) /\ Over(r)))
  BY EndFacts, GotoFacts, Counters DEF Recheck, Over, On
<1> QED
  BY <1>1, <1>2 DEF TypeOK, SameEdges, SameMembers, Only

\* Detaching drops the edge of a folder that has a row.
LEMMA DetachFacts ==
    ASSUME TypeOK, NEW r \in Reqs, Detach(r)
    PROVE  /\ TypeOK' /\ SameMembers /\ Over(r)
           /\ \/ Edge(req[r].f, Root)
              \/ req[r].f \notin Live(parent) /\ SameEdges
<1>1. SameMembers /\ UNCHANGED <<topology, ops, faults>> /\ Over(r)
  BY EndFacts DEF Detach, SameMembers, Over
<1>2. CASE req[r].f \in Live(parent) /\ Reparent(req[r].f, Root)
  <2>1. req[r].f \in Folders
    BY <1>2 DEF Live
  <2>2. Edge(req[r].f, Root) /\ unchecked' \subseteq Folders
    BY <1>2, <2>1, ReparentFacts DEF Edge
  <2> QED BY <1>1, <2>2 DEF TypeOK, Edge, Parents, SameMembers, Over, Only
<1>3. CASE req[r].f \notin Live(parent) /\ UNCHANGED <<parent, unchecked>>
  BY <1>1, <1>3 DEF TypeOK, SameEdges, SameMembers, Over, Only
<1> QED
  BY <1>2, <1>3 DEF Detach

\* A removal under way has a folder.
LEMMA RemovalHasFolder ==
    ASSUME Aimed, NEW r \in Reqs, req[r].pc \in {"removeTxn", "members", "children", "row", "sweep"}
    PROVE  req[r].f \in Folders
<1>1. Removal(r) \/ At(r, "removeTxn")
  BY DEF Removal, At
<1> QED
  BY <1>1 DEF Aimed

\* The transaction of deleteFolder.
LEMMA RemoveTxnFacts ==
    ASSUME TypeOK, Aimed, NEW r \in Reqs, RemoveTxn(r)
    PROVE  /\ TypeOK' /\ req[r].f \in Folders /\ Moved(req[r].f, req[r].to)
           /\ Lifted(req[r].f, req[r].to, TRUE) /\ On(r, "sweep")
<1>1. req[r].f \in Folders /\ req[r].to \in Folders \cup {Root}
      /\ req[r].act \in {"none", "delete", "move", "purge"}
  BY Fields, RemovalHasFolder DEF RemoveTxn, At
<1>2. Moved(req[r].f, req[r].to) /\ Lifted(req[r].f, req[r].to, TRUE)
  BY <1>1, RehomedMembersFacts, RehomedChildrenFacts DEF RemoveTxn
<1>3. On(r, "sweep") /\ UNCHANGED <<topology, ops, faults>>
  BY GotoFacts, Counters DEF RemoveTxn, On
<1> QED
  BY <1>1, <1>2, <1>3 DEF TypeOK, Moved, Lifted, Parents, On, Only

\* The members of a removal without transactions.
LEMMA RehomeMembersFacts ==
    ASSUME TypeOK, Aimed, NEW r \in Reqs, RehomeMembers(r)
    PROVE  /\ TypeOK' /\ req[r].f \in Folders /\ Moved(req[r].f, req[r].to) /\ SameEdges
           /\ On(r, "children")
<1>1. req[r].f \in Folders /\ req[r].to \in Folders \cup {Root}
      /\ req[r].act \in {"none", "delete", "move", "purge"}
  BY Fields, RemovalHasFolder DEF RehomeMembers, At
<1>2. Moved(req[r].f, req[r].to)
  BY <1>1, RehomedMembersFacts DEF RehomeMembers
<1>3. On(r, "children") /\ SameEdges /\ UNCHANGED <<topology, ops, faults>>
  BY GotoFacts, Counters DEF RehomeMembers, On, SameEdges
<1> QED
  BY <1>1, <1>2, <1>3 DEF TypeOK, Moved, SameEdges, On, Only

\* Its child folders.
LEMMA RehomeChildrenFacts ==
    ASSUME TypeOK, Aimed, NEW r \in Reqs, RehomeChildren(r)
    PROVE  /\ TypeOK' /\ req[r].f \in Folders /\ Lifted(req[r].f, req[r].to, FALSE) /\ SameMembers
           /\ On(r, "sweep") \/ On(r, "row")
<1>1. req[r].f \in Folders /\ req[r].to \in Folders \cup {Root}
  BY Fields, RemovalHasFolder DEF RehomeChildren, At
<1>2. Lifted(req[r].f, req[r].to, FALSE)
  BY <1>1, RehomedChildrenFacts DEF RehomeChildren
<1>3. Goto(r, "sweep") \/ Goto(r, "row")
  BY DEF RehomeChildren
<1>4. (On(r, "sweep") \/ On(r, "row")) /\ SameMembers /\ UNCHANGED <<topology, ops, faults>>
  BY <1>3, GotoFacts, Counters DEF RehomeChildren, On, SameMembers
<1> QED
  BY <1>1, <1>2, <1>4 DEF TypeOK, Lifted, Parents, SameMembers, On, Only

\* Its row.
LEMMA DeleteRowFacts ==
    ASSUME TypeOK, Aimed, NEW r \in Reqs, DeleteRow(r)
    PROVE  TypeOK' /\ Edge(req[r].f, Gone) /\ SameMembers /\ On(r, "sweep")
<1>1. req[r].f \in Folders
  BY RemovalHasFolder DEF DeleteRow, At
<1>2. Edge(req[r].f, Gone) /\ unchecked' \subseteq Folders
  BY <1>1, ReparentFacts DEF DeleteRow, Edge
<1>3. On(r, "sweep") /\ SameMembers /\ UNCHANGED <<topology, ops, faults>>
  BY GotoFacts, Counters DEF DeleteRow, On, SameMembers
<1> QED
  BY <1>2, <1>3 DEF TypeOK, Edge, Parents, SameMembers, On, Only

\* A claimed request goes on with the parent it read off the row.
Claimed(r) ==
    /\ Only(r) /\ req'[r].pc = "members" /\ req'[r].f = req[r].f /\ req'[r].to = parent[req[r].f]

\* The pinned delete of the purge.
LEMMA ClaimFacts ==
    ASSUME TypeOK, NEW r \in Reqs, Claim(r)
    PROVE  /\ TypeOK'
           /\ \/ /\ req[r].f \in Live(parent) /\ Moved(req[r].f, parent[req[r].f])
                 /\ Lifted(req[r].f, parent[req[r].f], TRUE) /\ On(r, "sweep")
              \/ req[r].f \in Live(parent) /\ Edge(req[r].f, Gone) /\ SameMembers /\ Claimed(r)
              \/ SameEdges /\ SameMembers /\ Over(r)
<1> DEFINE f == req[r].f
           to == parent[f]
<1>1. UNCHANGED <<topology, ops, faults>>
  BY DEF Claim
<1>2. f \in Live(parent) => f \in Folders /\ to \in Folders \cup {Root}
  BY LiveFacts, Fields
<1>3. CASE /\ f \in Live(parent) /\ RehomedMembers(f, to, "purge")
           /\ RehomedChildren(f, to, TRUE) /\ Goto(r, "sweep")
  <2>1. Moved(f, to) /\ Lifted(f, to, TRUE)
    BY <1>2, <1>3, RehomedMembersFacts, RehomedChildrenFacts
  <2>2. On(r, "sweep")
    BY <1>3, GotoFacts, Counters DEF On
  <2> QED
    BY <1>1, <1>3, <2>1, <2>2 DEF TypeOK, Moved, Lifted, Parents, On, Only
<1>4. CASE /\ f \in Live(parent) /\ req' = [req EXCEPT ![r].pc = "members", ![r].to = parent[f]]
           /\ Reparent(f, Gone) /\ UNCHANGED <<home, trashed, strayed>>
  <2>1. Edge(f, Gone) /\ unchecked' \subseteq Folders
    BY <1>2, <1>4, ReparentFacts DEF Edge
  <2>2. Claimed(r)
    <3>1. to \in Folders \cup {Root} /\ "members" \in PCs /\ req[r] \in Request
          /\ req \in [Reqs -> Request]
      BY <1>2, <1>4, Counters, Fields
    <3>2. req' = [req EXCEPT ![r].pc = "members", ![r].to = to]
      BY <1>4
    <3> HIDE DEF to
    <3>3. req' = [req EXCEPT ![r] = [req[r] EXCEPT !.pc = "members", !.to = to]]
      BY <3>1, <3>2
    <3>4. [req[r] EXCEPT !.pc = "members", !.to = to] \in Request
      BY <3>1 DEF Request
    <3>5. Only(r)
      BY <3>1, <3>3, <3>4 DEF Only
    <3>6. req'[r].pc = "members" /\ req'[r].f = req[r].f /\ req'[r].to = to
      BY <3>1, <3>3 DEF Request
    <3> QED BY <3>5, <3>6 DEF Claimed, to
  <2>3. SameMembers
    BY <1>4 DEF SameMembers
  <2> QED
    BY <1>1, <1>4, <2>1, <2>2, <2>3 DEF TypeOK, Edge, Parents, SameMembers, Claimed, Only
<1>5. CASE End(r) /\ UNCHANGED <<parent, home, trashed, history>>
  BY <1>1, <1>5, EndFacts DEF TypeOK, SameEdges, SameMembers, Over, Only, history
<1> QED
  BY <1>3, <1>4, <1>5 DEF Claim

\* The sweep empties the folder.
LEMMA SweepFacts ==
    ASSUME TypeOK, NEW r \in Reqs, Sweep(r)
    PROVE  /\ TypeOK' /\ SameEdges /\ Over(r) /\ trashed' = trashed
           /\ \A m \in Members :
                 IF home[m] = req[r].f /\ m \notin trashed THEN home'[m] = Root
                 ELSE home'[m] = home[m] /\ (m \in strayed => m \in strayed')
<1>1. Over(r) /\ SameEdges /\ trashed' = trashed /\ UNCHANGED <<topology, ops, faults>>
  BY EndFacts DEF Sweep, Over, SameEdges
<1>2. home' = [m \in Members |-> IF m \in ActiveIn(req[r].f) THEN Root ELSE home[m]]
      /\ strayed' = strayed \ ActiveIn(req[r].f)
  BY DEF Sweep
<1>3. home' \in [Members -> Folders \cup {Root}] /\ strayed' \subseteq Members
  BY <1>2 DEF TypeOK
<1>4. \A m \in Members :
         IF home[m] = req[r].f /\ m \notin trashed THEN home'[m] = Root
         ELSE home'[m] = home[m] /\ (m \in strayed => m \in strayed')
  BY <1>2 DEF ActiveIn
<1> QED
  BY <1>1, <1>3, <1>4 DEF TypeOK, SameEdges, Over, Only

\* A write that files a member.
LEMMA PutMemberFacts ==
    ASSUME TypeOK, Aimed, NEW r \in Reqs, PutMember(r)
    PROVE  /\ TypeOK' /\ SameEdges /\ Over(r) /\ trashed' = trashed
           /\ \A m \in Members :
                 \/ home'[m] = home[m] /\ (m \in strayed => m \in strayed')
                 \/ home'[m] = req[r].to /\ (~Lost(req[r].to) \/ m \in strayed')
<1>1. Over(r) /\ SameEdges /\ trashed' = trashed /\ UNCHANGED <<topology, ops, faults>>
  BY EndFacts DEF PutMember, Over, SameEdges
<1>2. req[r].m \in Members /\ req[r].to \in Folders \cup {Root}
  BY Fields DEF PutMember, Aimed
<1>3. home' = [home EXCEPT ![req[r].m] = req[r].to]
      /\ strayed' = IF Lost(req[r].to) THEN strayed \cup {req[r].m} ELSE strayed \ {req[r].m}
  BY DEF PutMember
<1>4. home' \in [Members -> Folders \cup {Root}] /\ strayed' \subseteq Members
  BY <1>2, <1>3 DEF TypeOK
<1>5. ASSUME NEW m \in Members
      PROVE  \/ home'[m] = home[m] /\ (m \in strayed => m \in strayed')
             \/ home'[m] = req[r].to /\ (~Lost(req[r].to) \/ m \in strayed')
  BY <1>2, <1>3 DEF TypeOK
<1> QED
  BY <1>1, <1>4, <1>5 DEF TypeOK, SameEdges, Over, Only

\* A row of a backup.
LEMMA RestoreRowFacts ==
    ASSUME TypeOK, NEW r \in Reqs, NEW f \in Folders, NEW to \in Folders \cup {Root},
           RestoreRow(r, f, to)
    PROVE  /\ TypeOK' /\ SameMembers /\ Edge(f, to) /\ req' = req /\ req[r].pc = "restore"
           /\ f \in Live(parent) \/ (parent[f] = Unborn /\ \A q \in Reqs : req[q].f # f)
           /\ to = f \/ to = Root \/ parent[to] # Unborn
<1>1. SameMembers /\ req' = req /\ UNCHANGED <<topology, faults>> /\ ops' \in 0..MaxOps
  BY FolderAssumption DEF RestoreRow, SameMembers, TypeOK
<1>2. Edge(f, to) /\ unchecked' \subseteq Folders
  BY ReparentFacts DEF RestoreRow, Edge
<1>3. req[r].pc = "restore"
  BY DEF RestoreRow, At
<1>4. f \in Live(parent) \/ (parent[f] = Unborn /\ \A q \in Reqs : req[q].f # f)
  BY DEF RestoreRow
<1>5. to = f \/ to = Root \/ parent[to] # Unborn
  BY DEF RestoreRow
<1> QED
  BY <1>1, <1>2, <1>3, <1>4, <1>5 DEF TypeOK, Edge, Parents, SameMembers

\* The tidying of a restore drops edges and keeps every row.
LEMMA TidyFacts ==
    ASSUME TypeOK, NEW r \in Reqs, Tidy(r)
    PROVE  /\ TypeOK' /\ SameMembers /\ On(r, "breakCycles") /\ req[r].pc = "restore"
           /\ \A f \in Folders : parent'[f] = parent[f] \/ (f \in Live(parent) /\ parent'[f] = Root)
<1>1. SameMembers /\ On(r, "breakCycles") /\ UNCHANGED <<topology, ops, faults>>
      /\ req[r].pc = "restore"
  BY GotoFacts, Counters DEF Tidy, SameMembers, On, At
<1>2. parent' = [f \in Folders |->
           IF f \in Live(parent) /\ parent[f] \notin (Live(parent) \cup {Root}) \ {f}
           THEN Root ELSE parent[f]]
  BY DEF Tidy
<1>3. parent' \in Parents
  BY <1>2 DEF TypeOK, Parents
<1>4. unchecked' \subseteq Folders
  BY DEF Tidy, TypeOK
<1>5. \A f \in Folders : parent'[f] = parent[f] \/ (f \in Live(parent) /\ parent'[f] = Root)
  BY <1>2
<1> QED
  BY <1>1, <1>3, <1>4, <1>5 DEF TypeOK, Parents, SameMembers, On, Only

\* The search of a restore ends only when there is no cycle.
LEMMA FindCycleFacts ==
    ASSUME TypeOK, NEW r \in Reqs, FindCycle(r)
    PROVE  /\ TypeOK' /\ SameMembers /\ SameEdges /\ req[r].pc = "breakCycles"
           /\ \/ /\ Only(r) /\ req'[r].pc = "breakOne" /\ req'[r].f \in Live(parent)
                 /\ req'[r].to = req[r].to
              \/ Over(r) /\ \A f \in Folders : ~HasCycle(parent, f)
<1>1. SameMembers /\ SameEdges /\ UNCHANGED <<topology, ops, faults>> /\ req[r].pc = "breakCycles"
  BY DEF FindCycle, SameMembers, SameEdges, history, At
<1>2. ASSUME NEW f \in Folders, HasCycle(parent, f),
             req' = [req EXCEPT ![r].f = f, ![r].pc = "breakOne"]
      PROVE  /\ Only(r) /\ req'[r].pc = "breakOne" /\ req'[r].f \in Live(parent)
             /\ req'[r].to = req[r].to
  <2>1. "breakOne" \in PCs /\ req[r] \in Request /\ req \in [Reqs -> Request]
    BY Counters, Fields
  <2>2. req' = [req EXCEPT ![r] = [req[r] EXCEPT !.f = f, !.pc = "breakOne"]]
    BY <1>2, <2>1
  <2>3. [req[r] EXCEPT !.f = f, !.pc = "breakOne"] \in Request
    BY <2>1 DEF Request
  <2>4. Only(r)
    BY <2>1, <2>2, <2>3 DEF Only
  <2>5. req'[r].pc = "breakOne" /\ req'[r].f = f /\ req'[r].to = req[r].to
    BY <2>1, <2>2 DEF Request
  <2> QED BY <1>2, <2>4, <2>5 DEF HasCycle
<1>3. CASE End(r) /\ \A f \in Folders : ~HasCycle(parent, f)
  BY <1>1, <1>3, EndFacts DEF TypeOK, SameEdges, SameMembers, Over, Only
<1>4. CASE \E f \in Folders : HasCycle(parent, f)
                              /\ req' = [req EXCEPT ![r].f = f, ![r].pc = "breakOne"]
  BY <1>1, <1>2, <1>4 DEF TypeOK, SameEdges, SameMembers, Only
<1> QED
  BY <1>3, <1>4 DEF FindCycle

\* A restore drops one edge of a cycle.
LEMMA BreakCycleFacts ==
    ASSUME TypeOK, NEW r \in Reqs, BreakCycle(r)
    PROVE  /\ TypeOK' /\ SameMembers /\ On(r, "breakCycles") /\ req[r].pc = "breakOne"
           /\ SameEdges \/ (Edge(req[r].f, Root) /\ req[r].f \in Live(parent))
<1>1. SameMembers /\ UNCHANGED <<topology, ops, faults>> /\ On(r, "breakCycles")
      /\ req[r].pc = "breakOne"
  BY GotoFacts, Counters DEF BreakCycle, SameMembers, On, At
<1>2. CASE req[r].f \in Live(parent) /\ Reparent(req[r].f, Root)
  <2>1. req[r].f \in Folders
    BY <1>2 DEF Live
  <2>2. Edge(req[r].f, Root) /\ unchecked' \subseteq Folders
    BY <1>2, <2>1, ReparentFacts DEF Edge
  <2> QED BY <1>1, <1>2, <2>2 DEF TypeOK, Edge, Parents, SameMembers, On, Only
<1>3. CASE req[r].f \notin Live(parent) /\ UNCHANGED <<parent, unchecked>>
  BY <1>1, <1>3 DEF TypeOK, SameEdges, SameMembers, On, Only
<1> QED
  BY <1>2, <1>3 DEF BreakCycle

\* A handler that dies leaves its mark in the history.
LEMMA CrashFacts ==
    ASSUME TypeOK, NEW r \in Reqs, Crash(r)
    PROVE  /\ TypeOK' /\ Over(r) /\ parent' = parent /\ home' = home /\ trashed' = trashed
           /\ unchecked \subseteq unchecked' /\ strayed \subseteq strayed'
           /\ (Restoring(r) \/ req[r].pc \in {"recheck", "detach"}) =>
                 \A f \in Folders : HasCycle(parent, f) => f \in unchecked'
           /\ Removal(r) /\ parent[req[r].f] = Gone => ActiveIn(req[r].f) \subseteq strayed'
           /\ req[r].pc # "insert"
<1>1. Over(r) /\ UNCHANGED <<topology, parent, home, trashed, ops>>
  BY EndFacts DEF Crash, Over
<1>2. faults' \in 0..MaxFaults
  BY FolderAssumption DEF Crash, TypeOK
<1>3. unchecked' \subseteq Folders /\ unchecked \subseteq unchecked'
  BY DEF Crash, TypeOK
<1>4. strayed' \subseteq Members /\ strayed \subseteq strayed'
  BY DEF Crash, TypeOK, ActiveIn
<1>5. (Restoring(r) \/ req[r].pc \in {"recheck", "detach"}) =>
                 \A f \in Folders : HasCycle(parent, f) => f \in unchecked'
  BY DEF Crash, Restoring
<1>6. Removal(r) /\ parent[req[r].f] = Gone => ActiveIn(req[r].f) \subseteq strayed'
  BY DEF Crash
<1>7. req[r].pc # "insert"
  BY DEF Crash
<1> QED
  BY <1>1, <1>2, <1>3, <1>4, <1>5, <1>6, <1>7 DEF TypeOK, Over, Only

-----------------------------------------------------------------------------
(* The inductive invariant.                                                *)

\* A folder that has or had a row.
WasBorn(f) == f = Root \/ (f \in Folders /\ parent[f] # Unborn)

\* A row stays known, and names what is.
RowsGood ==
    /\ \A g \in Folders : parent[g] # Unborn => parent'[g] # Unborn
    /\ \A g \in Live(parent') : \/ g \in Live(parent) /\ parent'[g] = parent[g]
                                \/ parent'[g] = g
                                \/ WasBorn(parent'[g])

\* What every step of request r respects.
Good(r) ==
    LET q == req'[r]
    IN  /\ Only(r) /\ TypeOK'
        /\ q.pc \in {"removeTxn", "members", "children", "row", "sweep"} => q.f \in Folders
        /\ q.pc = "file" => q.m \in Members
        /\ WasBorn(q.to) /\ RowsGood

\* A row appears only for the folder of request r, or one that is no request's.
RowsApart(r) ==
    \A g \in Folders : \/ parent[g] # Unborn \/ parent'[g] = Unborn
                      \/ g = req[r].f \/ \A x \in Reqs : req[x].f # g

\* A creation is met by no step of request r.
Apart(r) ==
    LET q == req'[r]
    IN  /\ \/ /\ q.pc = "insert" /\ q.f \in Folders /\ parent'[q.f] = Unborn
              /\ \A x \in Reqs : req[x].f # q.f
           \/ q.pc # "insert" /\ (q.f = req[r].f \/ q.f = Root \/ q.f \in Live(parent))
        /\ RowsApart(r)

\* A removal keeps its folder and a filing its member.
LEMMA AimedStays ==
    ASSUME Aimed, NEW r \in Reqs, Good(r)
    PROVE  Aimed'
<1> SUFFICES ASSUME NEW x \in Reqs
             PROVE  /\ Removal(x)' \/ At(x, "removeTxn")' => req'[x].f \in Folders
                    /\ At(x, "file")' => req'[x].m \in Members
  BY DEF Aimed
<1>1. CASE x = r
  BY <1>1 DEF Good, Removal, At
<1>2. CASE x # r
  <2>1. req'[x] = req[x]
    BY <1>2 DEF Good, Only
  <2> QED BY <2>1 DEF Aimed, Removal, At
<1> QED BY <1>1, <1>2

\* What is named stays known.
LEMMA NamedStaysKnown ==
    ASSUME TypeOK, NamedIsKnown, NEW r \in Reqs, Good(r)
    PROVE  NamedIsKnown'
<1>1. \A g \in Folders : parent[g] # Unborn => parent'[g] # Unborn
  BY DEF Good, RowsGood
<1>2. ASSUME NEW f \in Live(parent') PROVE parent'[f] = Root \/ parent'[parent'[f]] # Unborn
  <2>1. CASE f \in Live(parent) /\ parent'[f] = parent[f]
    <3>1. parent[f] \in Folders \cup {Root} /\ (parent[f] = Root \/ parent[parent[f]] # Unborn)
      BY <2>1, LiveFacts DEF NamedIsKnown, Known, TypeOK, Parents
    <3> QED BY <1>1, <2>1, <3>1
  <2>2. CASE parent'[f] = f
    BY <2>2 DEF Live
  <2>3. CASE WasBorn(parent'[f])
    BY <1>1, <2>3 DEF WasBorn
  <2> QED BY <2>1, <2>2, <2>3 DEF Good, RowsGood
<1>3. ASSUME NEW x \in Reqs PROVE req'[x].to = Root \/ parent'[req'[x].to] # Unborn
  <2>1. CASE x = r
    BY <1>1, <2>1 DEF Good, WasBorn
  <2>2. CASE x # r
    <3>1. req'[x] = req[x]
      BY <2>2 DEF Good, Only
    <3>2. req[x].to \in Folders \cup {Root} /\ (req[x].to = Root \/ parent[req[x].to] # Unborn)
      BY Fields DEF NamedIsKnown, Known
    <3> QED BY <1>1, <3>1, <3>2
  <2> QED BY <2>1, <2>2
<1> QED
  BY <1>2, <1>3 DEF NamedIsKnown, Known

\* A folder about to be created stays apart.
LEMMA NewStaysAlone ==
    ASSUME TypeOK, NewIsAlone, NEW r \in Reqs, Only(r), Apart(r)
    PROVE  NewIsAlone'
<1>1. \A x \in Reqs \ {r} : req'[x] = req[x]
  BY DEF Only
<1>2. ASSUME NEW x \in Reqs, req'[x].pc = "insert", x # r
      PROVE  /\ req'[x].f \in Folders /\ parent'[req'[x].f] = Unborn
             /\ \A y \in Reqs \ {x} : req'[y].f # req'[x].f
  <2>1. req'[x] = req[x] /\ req[x].pc = "insert"
    BY <1>1, <1>2
  <2>2. /\ req[x].f \in Folders /\ parent[req[x].f] = Unborn
        /\ \A y \in Reqs \ {x} : req[y].f # req[x].f
    BY <2>1 DEF NewIsAlone, At
  <2>3. parent'[req[x].f] = Unborn
    BY <1>2, <2>2 DEF Apart, RowsApart
  <2>4. req'[r].f # req[x].f
    <3>1. CASE req'[r].pc = "insert"
      BY <3>1 DEF Apart
    <3>2. CASE req'[r].f = req[r].f
      BY <1>2, <2>2, <3>2
    <3>3. CASE req'[r].f = Root
      BY <2>2, <3>3
    <3>4. CASE req'[r].f \in Live(parent)
      BY <2>2, <3>4 DEF Live
    <3> QED BY <3>1, <3>2, <3>3, <3>4 DEF Apart
  <2> QED BY <1>1, <1>2, <2>1, <2>2, <2>3, <2>4
<1>3. ASSUME req'[r].pc = "insert"
      PROVE  /\ req'[r].f \in Folders /\ parent'[req'[r].f] = Unborn
             /\ \A y \in Reqs \ {r} : req'[y].f # req'[r].f
  BY <1>1, <1>3 DEF Apart
<1> QED
  BY <1>2, <1>3 DEF NewIsAlone, At

\* One new edge names what is.
LEMMA EdgeRows ==
    ASSUME TypeOK, NEW f, NEW to, Edge(f, to), to = Gone \/ to = f \/ WasBorn(to)
    PROVE  RowsGood
<1>1. \A g \in Folders : parent'[g] = parent[g] \/ (g = f /\ parent'[g] = to)
  BY DEF Edge
<1>2. f # Unborn /\ to # Unborn
  BY DEF Edge, WasBorn
<1> QED
  BY <1>1, <1>2 DEF RowsGood, Live

\* Children that go up name what is.
LEMMA LiftedRows ==
    ASSUME TypeOK, NEW f \in Folders, NEW to, NEW gone \in BOOLEAN, Lifted(f, to, gone), WasBorn(to)
    PROVE  RowsGood
<1>1. \A g \in Folders : parent'[g] = parent[g] \/ parent'[g] = Gone \/ parent'[g] = to
  BY DEF Lifted
<1>2. to # Unborn
  BY DEF WasBorn
<1> QED
  BY <1>1, <1>2 DEF RowsGood, Live

\* Lifting children makes no row appear.
LEMMA LiftedApart ==
    ASSUME TypeOK, NEW r \in Reqs, NEW to, NEW gone \in BOOLEAN, Lifted(req[r].f, to, gone)
    PROVE  RowsApart(r)
BY DEF Lifted, RowsApart, Live

\* A step that touches no edge respects the rows.
LEMMA SameRows ==
    ASSUME SameEdges, NEW r \in Reqs
    PROVE  RowsGood /\ RowsApart(r)
BY DEF SameEdges, RowsGood, RowsApart

\* What a request names was born.
LEMMA NamedWasBorn ==
    ASSUME FolderInv
    PROVE  /\ \A r \in Reqs : WasBorn(req[r].to)
           /\ \A f \in Live(parent) : WasBorn(f) /\ WasBorn(parent[f])
<1>1. ASSUME NEW r \in Reqs PROVE WasBorn(req[r].to)
  BY Fields DEF FolderInv, NamedIsKnown, Known, WasBorn
<1>2. ASSUME NEW f \in Live(parent) PROVE WasBorn(f) /\ WasBorn(parent[f])
  <2>1. parent \in Parents /\ (parent[f] = Root \/ parent[parent[f]] # Unborn)
    BY DEF FolderInv, TypeOK, Parents, NamedIsKnown, Known
  <2> QED BY <2>1, LiveFacts DEF WasBorn
<1> QED
  BY <1>1, <1>2

\* A request that ends respects the invariant when its rows do.
LEMMA OverIsGood ==
    ASSUME NEW r \in Reqs, Over(r), TypeOK', RowsGood, RowsApart(r)
    PROVE  Good(r) /\ Apart(r)
<1>1. Only(r) /\ req'[r].pc = "idle" /\ req'[r].f = Root /\ req'[r].to = Root
  BY IdleIsRequest DEF Over
<1>2. WasBorn(req'[r].to)
  BY <1>1 DEF WasBorn
<1> QED
  BY <1>1, <1>2 DEF Good, Apart

\* So does a request that moves on.
LEMMA OnIsGood ==
    ASSUME FolderInv, NEW r \in Reqs, NEW pc, pc # "insert", pc # "file",
           pc \in {"removeTxn", "members", "children", "row", "sweep"} => req[r].f \in Folders,
           On(r, pc), TypeOK', RowsGood, RowsApart(r)
    PROVE  Good(r) /\ Apart(r)
<1>1. Only(r) /\ req'[r].pc = pc /\ req'[r].f = req[r].f /\ req'[r].to = req[r].to
  BY DEF On
<1>2. WasBorn(req'[r].to)
  BY <1>1, NamedWasBorn
<1> QED
  BY <1>1, <1>2 DEF Good, Apart

\* And one that begins.
LEMMA BegunIsGood ==
    ASSUME FolderInv, NEW r \in Reqs, Begun(r)
    PROVE  Good(r) /\ Apart(r)
<1>1. SameEdges /\ parent' = parent
  BY DEF Begun, SameEdges
<1>2. RowsGood /\ RowsApart(r)
  BY <1>1, SameRows
<1>3. \A f \in Live(parent) : f \in Folders
  BY DEF Live
<1>4. WasBorn(req'[r].to)
  BY NamedWasBorn DEF Begun, WasBorn
<1>5. Good(r)
  BY <1>2, <1>3, <1>4 DEF Begun, Good
<1>6. Apart(r)
  BY <1>1, <1>2 DEF Begun, Apart
<1> QED BY <1>5, <1>6

\* One step of request r.
Does(r) ==
    \/ Begun(r) \/ Insert(r) \/ Move(r) \/ Recheck(r) \/ Detach(r)
    \/ RemoveTxn(r) \/ RehomeMembers(r) \/ RehomeChildren(r) \/ DeleteRow(r)
    \/ Claim(r) \/ Sweep(r) \/ PutMember(r)
    \/ (\E f \in Folders, to \in Folders \cup {Root} : RestoreRow(r, f, to))
    \/ Tidy(r) \/ FindCycle(r) \/ BreakCycle(r) \/ Crash(r)

\* A member goes into the trash or comes back.
ThroughTrash == \E m \in Members : TrashMember(m) \/ RestoreMember(m)

\* Every step is some request's, or a member's way into the trash or back.
LEMMA NextDoes ==
    ASSUME TypeOK, Next
    PROVE  (\E r \in Reqs : Does(r)) \/ ThroughTrash
BY CreateBegins, UpdateBegins, DeleteBegins, PurgeBegins, FileBegins, RestoreBegins
   DEF Next, Step, Does, ThroughTrash

\* What that leaves alone, and who is active afterwards.
LEMMA ThroughTrashFacts ==
    ASSUME TypeOK, ThroughTrash
    PROVE  /\ TypeOK' /\ parent' = parent /\ home' = home /\ req' = req
           /\ unchecked' = unchecked /\ strayed \subseteq strayed'
           /\ \A m \in trashed \ trashed' : ~Lost(home[m]) \/ m \in strayed'
<1> PICK m \in Members : TrashMember(m) \/ RestoreMember(m)
  BY DEF ThroughTrash
<1>1. UNCHANGED <<topology, parent, home, req, faults, unchecked>>
  BY DEF TrashMember, RestoreMember, history
<1>2. ops' \in 0..MaxOps
  BY FolderAssumption DEF TrashMember, RestoreMember, TypeOK
<1>3. /\ trashed' \subseteq Members /\ strayed' \subseteq Members /\ strayed \subseteq strayed'
      /\ \A x \in trashed \ trashed' : ~Lost(home[x]) \/ x \in strayed'
  BY DEF TrashMember, RestoreMember, TypeOK, history
<1> QED
  BY <1>1, <1>2, <1>3 DEF TypeOK

\* Every step respects the invariant, one case for each action.
LEMMA StepIsGood ==
    ASSUME FolderInv, NEW r \in Reqs, Does(r)
    PROVE  Good(r) /\ Apart(r)
<1>0. TypeOK /\ Aimed /\ NamedIsKnown /\ NewIsAlone
  BY DEF FolderInv
<1>1. CASE Begun(r)
  BY <1>1, BegunIsGood
<1>2. CASE Insert(r)
  <2>1. TypeOK' /\ Edge(req[r].f, req[r].to) /\ Over(r)
    BY <1>0, <1>2, InsertFacts
  <2>2. RowsGood
    BY <1>0, <2>1, EdgeRows, NamedWasBorn
  <2>3. RowsApart(r)
    BY <2>1 DEF Edge, RowsApart
  <2> QED BY <2>1, <2>2, <2>3, OverIsGood
<1>3. CASE Move(r)
  <2>1. TypeOK'
    BY <1>0, <1>3, MoveFacts
  <2>2. CASE Edge(req[r].f, Root) /\ Over(r)
    <3>1. RowsGood
      BY <1>0, <2>2, EdgeRows DEF WasBorn
    <3>2. RowsApart(r)
      BY <2>2 DEF Edge, RowsApart
    <3> QED BY <2>1, <2>2, <3>1, <3>2, OverIsGood
  <2>3. CASE Edge(req[r].f, req[r].to) /\ On(r, "recheck")
    <3>1. RowsGood
      BY <1>0, <2>3, EdgeRows, NamedWasBorn
    <3>2. RowsApart(r)
      BY <2>3 DEF Edge, RowsApart
    <3> QED BY <2>1, <2>3, <3>1, <3>2, OnIsGood
  <2>4. CASE SameEdges /\ Over(r)
    BY <2>1, <2>4, SameRows, OverIsGood
  <2> QED BY <1>0, <1>3, <2>2, <2>3, <2>4, MoveFacts
<1>4. CASE Recheck(r)
  <2>1. TypeOK' /\ SameEdges /\ (On(r, "detach") \/ Over(r))
    BY <1>0, <1>4, RecheckFacts
  <2> QED BY <2>1, SameRows, OnIsGood, OverIsGood
<1>5. CASE Detach(r)
  <2>1. TypeOK' /\ Over(r) /\ (Edge(req[r].f, Root) \/ SameEdges)
    BY <1>0, <1>5, DetachFacts
  <2>2. CASE Edge(req[r].f, Root)
    <3>1. RowsGood
      BY <1>0, <2>2, EdgeRows DEF WasBorn
    <3>2. RowsApart(r)
      BY <2>2 DEF Edge, RowsApart
    <3> QED BY <2>1, <3>1, <3>2, OverIsGood
  <2>3. CASE SameEdges
    BY <2>1, <2>3, SameRows, OverIsGood
  <2> QED BY <2>1, <2>2, <2>3
<1>6. CASE RemoveTxn(r)
  <2>1. TypeOK' /\ req[r].f \in Folders /\ Lifted(req[r].f, req[r].to, TRUE) /\ On(r, "sweep")
    BY <1>0, <1>6, RemoveTxnFacts
  <2>2. RowsGood /\ RowsApart(r)
    BY <1>0, <2>1, LiftedRows, LiftedApart, NamedWasBorn
  <2> QED BY <2>1, <2>2, OnIsGood
<1>7. CASE RehomeMembers(r)
  <2>1. TypeOK' /\ req[r].f \in Folders /\ SameEdges /\ On(r, "children")
    BY <1>0, <1>7, RehomeMembersFacts
  <2> QED BY <2>1, SameRows, OnIsGood
<1>8. CASE RehomeChildren(r)
  <2>1. TypeOK' /\ req[r].f \in Folders /\ Lifted(req[r].f, req[r].to, FALSE)
        /\ (On(r, "sweep") \/ On(r, "row"))
    BY <1>0, <1>8, RehomeChildrenFacts
  <2>2. RowsGood /\ RowsApart(r)
    BY <1>0, <2>1, LiftedRows, LiftedApart, NamedWasBorn
  <2> QED BY <2>1, <2>2, OnIsGood
<1>9. CASE DeleteRow(r)
  <2>1. TypeOK' /\ Edge(req[r].f, Gone) /\ On(r, "sweep") /\ req[r].f \in Folders
    BY <1>0, <1>9, DeleteRowFacts DEF Edge
  <2>2. RowsGood
    BY <1>0, <2>1, EdgeRows
  <2>3. RowsApart(r)
    BY <2>1 DEF Edge, RowsApart
  <2> QED BY <2>1, <2>2, <2>3, OnIsGood
<1>10. CASE Claim(r)
  <2>1. TypeOK'
    BY <1>0, <1>10, ClaimFacts
  <2>2. CASE req[r].f \in Live(parent) /\ Lifted(req[r].f, parent[req[r].f], TRUE) /\ On(r, "sweep")
    <3>1. req[r].f \in Folders /\ WasBorn(parent[req[r].f])
      BY <2>2, NamedWasBorn DEF Live
    <3>2. RowsGood /\ RowsApart(r)
      BY <1>0, <2>2, <3>1, LiftedRows, LiftedApart
    <3> QED BY <2>1, <2>2, <3>1, <3>2, OnIsGood
  <2>3. CASE req[r].f \in Live(parent) /\ Edge(req[r].f, Gone) /\ Claimed(r)
    <3>1. req[r].f \in Folders /\ WasBorn(parent[req[r].f])
      BY <2>3, NamedWasBorn DEF Live
    <3>2. RowsGood
      BY <1>0, <2>3, EdgeRows
    <3>3. RowsApart(r)
      BY <2>3 DEF Edge, RowsApart
    <3> QED BY <2>1, <2>3, <3>1, <3>2, <3>3 DEF Claimed, Good, Apart
  <2>4. CASE SameEdges /\ Over(r)
    BY <2>1, <2>4, SameRows, OverIsGood
  <2> QED BY <1>0, <1>10, <2>2, <2>3, <2>4, ClaimFacts
<1>11. CASE Sweep(r)
  <2>1. TypeOK' /\ SameEdges /\ Over(r)
    BY <1>0, <1>11, SweepFacts
  <2> QED BY <2>1, SameRows, OverIsGood
<1>12. CASE PutMember(r)
  <2>1. TypeOK' /\ SameEdges /\ Over(r)
    BY <1>0, <1>12, PutMemberFacts
  <2> QED BY <2>1, SameRows, OverIsGood
<1>13. CASE \E f \in Folders, to \in Folders \cup {Root} : RestoreRow(r, f, to)
  <2> PICK f \in Folders, to \in Folders \cup {Root} : RestoreRow(r, f, to)
    BY <1>13
  <2>1. /\ TypeOK' /\ Edge(f, to) /\ req' = req /\ req[r].pc = "restore"
        /\ f \in Live(parent) \/ (parent[f] = Unborn /\ \A q \in Reqs : req[q].f # f)
        /\ to = f \/ to = Root \/ parent[to] # Unborn
    BY <1>0, RestoreRowFacts
  <2>2. to = f \/ WasBorn(to)
    BY <2>1 DEF WasBorn
  <2>3. RowsGood
    BY <1>0, <2>1, <2>2, EdgeRows
  <2>4. RowsApart(r)
    BY <2>1 DEF Edge, RowsApart, Live
  <2>5. On(r, "restore")
    BY <1>0, <2>1, Fields DEF On, Only
  <2> QED BY <2>1, <2>3, <2>4, <2>5, OnIsGood
<1>14. CASE Tidy(r)
  <2>1. /\ TypeOK' /\ On(r, "breakCycles")
        /\ \A f \in Folders : parent'[f] = parent[f] \/ (f \in Live(parent) /\ parent'[f] = Root)
    BY <1>0, <1>14, TidyFacts
  <2>2. RowsGood
    BY <2>1 DEF RowsGood, Live, WasBorn
  <2>3. RowsApart(r)
    BY <2>1 DEF RowsApart, Live
  <2> QED BY <2>1, <2>2, <2>3, OnIsGood
<1>15. CASE FindCycle(r)
  <2>1. TypeOK' /\ SameEdges
    BY <1>0, <1>15, FindCycleFacts
  <2>2. CASE /\ Only(r) /\ req'[r].pc = "breakOne" /\ req'[r].f \in Live(parent)
             /\ req'[r].to = req[r].to
    <3>1. WasBorn(req'[r].to)
      BY <2>2, NamedWasBorn
    <3> QED BY <2>1, <2>2, <3>1, SameRows DEF Good, Apart
  <2>3. CASE Over(r)
    BY <2>1, <2>3, SameRows, OverIsGood
  <2> QED BY <1>0, <1>15, <2>2, <2>3, FindCycleFacts
<1>16. CASE BreakCycle(r)
  <2>1. TypeOK' /\ On(r, "breakCycles") /\ (Edge(req[r].f, Root) \/ SameEdges)
    BY <1>0, <1>16, BreakCycleFacts
  <2>2. CASE Edge(req[r].f, Root)
    <3>1. RowsGood
      BY <1>0, <2>2, EdgeRows DEF WasBorn
    <3>2. RowsApart(r)
      BY <2>2 DEF Edge, RowsApart
    <3> QED BY <2>1, <3>1, <3>2, OnIsGood
  <2>3. CASE SameEdges
    BY <2>1, <2>3, SameRows, OnIsGood
  <2> QED BY <2>1, <2>2, <2>3
<1>17. CASE Crash(r)
  <2>1. TypeOK' /\ Over(r) /\ parent' = parent
    BY <1>0, <1>17, CrashFacts
  <2>2. RowsGood /\ RowsApart(r)
    BY <2>1 DEF RowsGood, RowsApart
  <2> QED BY <2>1, <2>2, OverIsGood
<1> QED
  BY <1>1, <1>2, <1>3, <1>4, <1>5, <1>6, <1>7, <1>8, <1>9, <1>10, <1>11, <1>12, <1>13, <1>14,
     <1>15, <1>16, <1>17 DEF Does

\* FolderInv is inductive.
LEMMA FolderInvStays ==
    ASSUME FolderInv, [Next]_vars
    PROVE  FolderInv'
<1>1. CASE UNCHANGED vars
  BY <1>1 DEF vars, FolderInv, TypeOK, Aimed, NamedIsKnown, NewIsAlone, Known, Removal, At
<1>2. ASSUME NEW r \in Reqs, Does(r) PROVE FolderInv'
  <2>1. Good(r) /\ Apart(r)
    BY <1>2, StepIsGood
  <2>2. TypeOK' /\ Only(r)
    BY <2>1 DEF Good
  <2> QED
    BY <2>1, <2>2, AimedStays, NamedStaysKnown, NewStaysAlone DEF FolderInv
<1>3. CASE ThroughTrash
  <2>1. TypeOK' /\ parent' = parent /\ req' = req
    BY <1>3, ThroughTrashFacts DEF FolderInv
  <2> QED
    BY <2>1 DEF FolderInv, Aimed, NamedIsKnown, NewIsAlone, Known, Removal, At
<1> QED
  BY <1>1, <1>2, <1>3, NextDoes DEF FolderInv

-----------------------------------------------------------------------------
(* Cycles.                                                                 *)

\* A cycle somebody will break, or that the history knows.
Answered(f) ==
    \/ \E g \in Ancestors(parent, f) : g \in unchecked
    \/ \E r \in Reqs : req[r].pc \in {"recheck", "detach"} /\ req[r].f \in Ancestors(parent, f)
    \/ \E r \in Reqs : Restoring(r)

\* NoCycleStays in terms of ancestors: on a cycle they are its rows.
LEMMA CyclesAnswered ==
    NoCycleStays <=> \A f \in Folders : HasCycle(parent, f) => Answered(f)
<1>1. ASSUME NEW f, HasCycle(parent, f) PROVE CycleOf(f) = Ancestors(parent, f)
  BY <1>1, RoundTrip DEF CycleOf
<1>2. \A f : HasCycle(parent, f) => f \in Live(parent) /\ f \in Folders
  BY DEF HasCycle, Live
<1>3. ASSUME NEW f, HasCycle(parent, f)
      PROVE  (CycleOf(f) \cap unchecked # {} \/ \E r \in Reqs : WillBreak(r, f)) <=> Answered(f)
  BY <1>1, <1>3 DEF Answered, WillBreak
<1> QED
  BY <1>2, <1>3 DEF NoCycleStays, Live

\* Step r keeps its promise about the cycle of f.
Keeps(r, f) ==
    /\ Restoring(r) => Restoring(r)'
    /\ req[r].pc \in {"recheck", "detach"} /\ req[r].f \in Ancestors(parent', f) =>
         \/ req'[r].pc \in {"recheck", "detach"} /\ req'[r].f = req[r].f
         \/ \E g \in Ancestors(parent', f) : g \in unchecked'

\* A cycle that was there stays answered for when the step keeps its promise.
LEMMA CarryOver ==
    ASSUME NoCycleStays, NEW r \in Reqs, Only(r), NEW f \in Folders, HasCycle(parent', f),
           \A g \in Ancestors(parent', f) : parent[g] = parent'[g],
           \A g \in Ancestors(parent', f) : g \in unchecked => g \in unchecked',
           Keeps(r, f)
    PROVE  Answered(f)'
<1>1. HasCycle(parent, f) /\ Ancestors(parent, f) = Ancestors(parent', f)
  <2>1. \A p, q : HasCycle(q, f) /\ (\A g \in Ancestors(q, f) : p[g] = q[g])
                    => HasCycle(p, f) /\ Ancestors(p, f) = Ancestors(q, f)
    BY SameCycle
  <2> QED BY <2>1
<1>2. Answered(f)
  BY <1>1, CyclesAnswered
<1>3. \A x \in Reqs \ {r} : req'[x] = req[x]
  BY DEF Only
<1>4. CASE \E g \in Ancestors(parent, f) : g \in unchecked
  BY <1>1, <1>4 DEF Answered
<1>5. ASSUME NEW x \in Reqs, req[x].pc \in {"recheck", "detach"}, req[x].f \in Ancestors(parent, f)
      PROVE  Answered(f)'
  <2>1. CASE x = r
    BY <1>1, <1>5, <2>1 DEF Keeps, Answered
  <2>2. CASE x # r
    BY <1>1, <1>3, <1>5, <2>2 DEF Answered
  <2> QED BY <2>1, <2>2
<1>6. ASSUME NEW x \in Reqs, Restoring(x) PROVE Answered(f)'
  <2>1. CASE x = r
    BY <1>6, <2>1 DEF Keeps, Answered
  <2>2. CASE x # r
    BY <1>3, <1>6, <2>2 DEF Answered, Restoring
  <2> QED BY <2>1, <2>2
<1> QED
  BY <1>2, <1>4, <1>5, <1>6 DEF Answered

\* The same, for the committed tree.
LEMMA AroundNext ==
    ASSUME NEW f, HasCycle(parent', f)
    PROVE  /\ f \in Ancestors(parent', f)
           /\ \A g \in Ancestors(parent', f) : g \in Folders /\ g \in Live(parent') /\ HasCycle(parent', g)
                                               /\ parent'[g] \in Live(parent')
<1>1. \A p : HasCycle(p, f) =>
         /\ f \in Ancestors(p, f) /\ Ancestors(p, f) \subseteq Live(p)
         /\ \A g \in Ancestors(p, f) : HasCycle(p, g) /\ p[g] \in Live(p)
  BY AllAround, Around, AncestorsRise DEF HasCycle
<1> QED
  BY <1>1 DEF Live

\* An edge to the root or a row that goes is on no cycle.
LEMMA EdgeOut ==
    ASSUME NEW f, NEW to, Edge(f, to), to \in {Root, Gone}, NEW h, HasCycle(parent', h)
    PROVE  /\ \A g \in Ancestors(parent', h) : parent[g] = parent'[g]
           /\ \A g \in Ancestors(parent', h) : g \in unchecked => g \in unchecked'
           /\ f \notin Ancestors(parent', h)
<1>1. f \notin Ancestors(parent', h)
  <2>1. to \notin Live(parent')
    BY DEF Live
  <2> QED BY <2>1, AroundNext DEF Edge
<1> QED
  BY <1>1, AroundNext DEF Edge

\* A step that touches no edge and keeps its promise.
LEMMA SameEdgesAnswer ==
    ASSUME NoCycleStays, NEW r \in Reqs, Only(r), SameEdges, NEW f \in Folders,
           HasCycle(parent', f), Keeps(r, f)
    PROVE  Answered(f)'
BY CarryOver DEF SameEdges

\* A request that is not about to look keeps its promise.
LEMMA NoPromise ==
    ASSUME NEW r \in Reqs, NEW f,
           req[r].pc \notin {"recheck", "detach", "restore", "breakCycles", "breakOne"}
    PROVE  Keeps(r, f)
BY DEF Keeps, Restoring

\* Nobody names a folder that is about to be created, so its edge closes no cycle.
LEMMA InsertClosesNothing ==
    ASSUME FolderInv, NEW r \in Reqs, Insert(r), NEW f \in Folders, HasCycle(parent', f)
    PROVE  req[r].f \notin Ancestors(parent', f)
<1> DEFINE n == req[r].f
           S == Live(parent)
<1>0. TypeOK /\ NewIsAlone /\ NamedIsKnown
  BY DEF FolderInv
<1>1. Edge(n, req[r].to)
  BY <1>0, InsertFacts
<1>2. n \in Folders /\ parent[n] = Unborn
  BY <1>0 DEF NewIsAlone, Insert
<1>3. n \notin S
  BY <1>2 DEF Live
<1>4. S \subseteq Live(parent')
  BY <1>1, <1>3 DEF Edge, Live
<1>5. \A g \in S : WasBorn(parent[g]) /\ parent'[g] = parent[g]
  BY <1>1, <1>3, NamedWasBorn DEF Edge, Live
<1>6. \A g \in Live(parent') : WasBorn(g) => g \in S
  BY <1>1, <1>2 DEF Live, WasBorn, Edge
<1>7. \A g \in S : parent'[g] \in Live(parent') => parent'[g] \in S
  BY <1>5, <1>6
<1>8. parent'[n] \in Live(parent') => parent'[n] \in S
  BY <1>1, <1>6, NamedWasBorn DEF Edge
<1>9. f \in S \cup {n}
  <2>1. f \in Live(parent')
    BY DEF HasCycle
  <2> QED BY <1>1, <2>1 DEF Live, Edge
<1>10. Upward(parent', f, S)
  BY <1>7, <1>8, <1>9 DEF Upward
<1>11. Ancestors(parent', f) \subseteq S
  <2>1. \A p : S \subseteq Live(p) /\ Upward(p, f, S) => Ancestors(p, f) \subseteq S
    BY AncestorsAreLeast
  <2> HIDE DEF S
  <2> QED BY <1>4, <1>10, <2>1
<1> QED
  BY <1>3, <1>11

\* createFolder leaves every cycle answered for.
LEMMA InsertAnswers ==
    ASSUME FolderInv, NoCycleStays, NEW r \in Reqs, Insert(r), NEW f \in Folders,
           HasCycle(parent', f)
    PROVE  Answered(f)'
<1>1. Edge(req[r].f, req[r].to) /\ Only(r) /\ req[r].pc = "insert"
  BY InsertFacts DEF FolderInv, Over, Insert, At
<1>2. req[r].f \notin Ancestors(parent', f)
  BY InsertClosesNothing
<1>3. \A g \in Ancestors(parent', f) : parent[g] = parent'[g] /\ (g \in unchecked => g \in unchecked')
  BY <1>1, <1>2, AroundNext DEF Edge
<1> QED
  BY <1>1, <1>3, CarryOver, NoPromise

\* updateFolder's write closes cycles only through the folder it is about to re-check.
LEMMA MoveAnswers ==
    ASSUME TypeOK, NoCycleStays, NEW r \in Reqs, Move(r), NEW f \in Folders, HasCycle(parent', f)
    PROVE  Answered(f)'
<1>1. Keeps(r, f)
  BY NoPromise DEF Move, At
<1>2. CASE Edge(req[r].f, Root) /\ Over(r)
  BY <1>1, <1>2, EdgeOut, CarryOver DEF Over
<1>3. CASE Edge(req[r].f, req[r].to) /\ On(r, "recheck")
  <2>1. CASE req[r].f \in Ancestors(parent', f)
    BY <1>3, <2>1 DEF On, Answered
  <2>2. CASE req[r].f \notin Ancestors(parent', f)
    <3>1. \A g \in Ancestors(parent', f) :
             parent[g] = parent'[g] /\ (g \in unchecked => g \in unchecked')
      BY <1>3, <2>2, AroundNext DEF Edge
    <3> QED BY <1>1, <1>3, <3>1, CarryOver DEF On
  <2> QED BY <2>1, <2>2
<1>4. CASE SameEdges /\ Over(r)
  BY <1>1, <1>4, SameEdgesAnswer DEF Over
<1> QED
  BY <1>2, <1>3, <1>4, MoveFacts

\* The re-check lets go only of a folder that is on no cycle.
LEMMA RecheckAnswers ==
    ASSUME TypeOK, NoCycleStays, NEW r \in Reqs, Recheck(r), NEW f \in Folders, HasCycle(parent', f)
    PROVE  Answered(f)'
<1>1. req[r].pc = "recheck" /\ SameEdges
  BY RecheckFacts DEF Recheck, At
<1>2. CASE On(r, "detach")
  BY <1>1, <1>2, SameEdgesAnswer DEF On, Keeps, Restoring
<1>3. CASE ~HasCycle(parent, req[r].f) /\ Over(r)
  <2>1. req[r].f \notin Ancestors(parent', f)
    BY <1>1, <1>3, AroundNext DEF SameEdges
  <2> QED BY <1>1, <1>3, <2>1, SameEdgesAnswer DEF Over, Keeps, Restoring
<1> QED
  BY <1>2, <1>3, RecheckFacts

\* Detaching breaks the cycle the request answered for.
LEMMA DetachAnswers ==
    ASSUME TypeOK, NoCycleStays, NEW r \in Reqs, Detach(r), NEW f \in Folders, HasCycle(parent', f)
    PROVE  Answered(f)'
<1>1. req[r].pc = "detach" /\ Over(r) /\ Only(r)
  BY DetachFacts DEF Detach, At, Over
<1>2. CASE Edge(req[r].f, Root)
  BY <1>1, <1>2, EdgeOut, CarryOver DEF Keeps, Restoring
<1>3. CASE req[r].f \notin Live(parent) /\ SameEdges
  <2>1. req[r].f \notin Ancestors(parent', f)
    BY <1>3, AroundNext DEF SameEdges
  <2> QED BY <1>1, <1>3, <2>1, SameEdgesAnswer DEF Keeps, Restoring
<1> QED
  BY <1>2, <1>3, DetachFacts

\* Children that went up are looked at by nobody: the history knows.
LEMMA LiftedAnswers ==
    ASSUME NoCycleStays, NEW r \in Reqs, Only(r), NEW n, NEW to, NEW gone \in BOOLEAN,
           Lifted(n, to, gone), NEW f \in Folders, HasCycle(parent', f), Keeps(r, f)
    PROVE  Answered(f)'
<1>1. CASE \A g \in Ancestors(parent', f) : parent[g] = parent'[g]
  <2>1. \A g \in Ancestors(parent', f) : g \in unchecked => g \in unchecked'
    BY AroundNext DEF Lifted
  <2> QED BY <1>1, <2>1, CarryOver
<1>2. CASE \E g \in Ancestors(parent', f) : parent[g] # parent'[g]
  <2> PICK g \in Ancestors(parent', f) : parent[g] # parent'[g]
    BY <1>2
  <2>1. g \in Folders /\ HasCycle(parent', g)
    BY AroundNext
  <2>2. g \in unchecked'
    BY <2>1 DEF Lifted
  <2> QED BY <2>2 DEF Answered
<1> QED
  BY <1>1, <1>2

\* The purge lifts children, or takes a row away.
LEMMA ClaimAnswers ==
    ASSUME TypeOK, NoCycleStays, NEW r \in Reqs, Claim(r), NEW f \in Folders, HasCycle(parent', f)
    PROVE  Answered(f)'
<1>1. Keeps(r, f)
  BY NoPromise DEF Claim, At
<1>2. CASE Lifted(req[r].f, parent[req[r].f], TRUE) /\ On(r, "sweep")
  BY <1>1, <1>2, LiftedAnswers DEF On
<1>3. CASE Edge(req[r].f, Gone) /\ Claimed(r)
  BY <1>1, <1>3, EdgeOut, CarryOver DEF Claimed
<1>4. CASE SameEdges /\ Over(r)
  BY <1>1, <1>4, SameEdgesAnswer DEF Over
<1> QED
  BY <1>2, <1>3, <1>4, ClaimFacts

\* A restore still under way answers for every cycle.
LEMMA RestoreAnswers ==
    ASSUME NEW r \in Reqs, NEW f, req'[r].pc \in {"restore", "breakCycles", "breakOne"}
    PROVE  Answered(f)'
BY DEF Answered, Restoring

\* A handler that dies before it looked leaves its cycles to the history.
LEMMA CrashAnswers ==
    ASSUME TypeOK, NoCycleStays, NEW r \in Reqs, Crash(r), NEW f \in Folders, HasCycle(parent', f)
    PROVE  Answered(f)'
<1>1. Only(r) /\ parent' = parent /\ unchecked \subseteq unchecked'
  BY CrashFacts DEF Over
<1>2. CASE Restoring(r) \/ req[r].pc \in {"recheck", "detach"}
  <2>1. f \in unchecked'
    BY <1>1, <1>2, CrashFacts
  <2> QED BY <2>1, AroundNext DEF Answered
<1>3. CASE ~(Restoring(r) \/ req[r].pc \in {"recheck", "detach"})
  BY <1>1, <1>3, CarryOver DEF Keeps
<1> QED
  BY <1>2, <1>3

\* Every step leaves every cycle answered for, one case for each action.
LEMMA StepAnswers ==
    ASSUME FolderInv, NoCycleStays, NEW r \in Reqs, Does(r), NEW f \in Folders, HasCycle(parent', f)
    PROVE  Answered(f)'
<1>0. TypeOK /\ Aimed
  BY DEF FolderInv
<1>1. CASE Begun(r)
  BY <1>1, SameEdgesAnswer, NoPromise DEF Begun, SameEdges
<1>2. CASE RemoveTxn(r)
  BY <1>0, <1>2, RemoveTxnFacts, LiftedAnswers, NoPromise DEF On, RemoveTxn, At
<1>3. CASE RehomeMembers(r)
  BY <1>0, <1>3, RehomeMembersFacts, SameEdgesAnswer, NoPromise DEF On, RehomeMembers, At
<1>4. CASE RehomeChildren(r)
  BY <1>0, <1>4, RehomeChildrenFacts, LiftedAnswers, NoPromise DEF On, RehomeChildren, At
<1>5. CASE DeleteRow(r)
  <2>1. Edge(req[r].f, Gone) /\ Only(r) /\ Keeps(r, f)
    BY <1>0, <1>5, DeleteRowFacts, NoPromise DEF On, DeleteRow, At
  <2> QED BY <2>1, EdgeOut, CarryOver
<1>6. CASE Sweep(r)
  BY <1>0, <1>6, SweepFacts, SameEdgesAnswer, NoPromise DEF Over, Sweep, At
<1>7. CASE PutMember(r)
  BY <1>0, <1>7, PutMemberFacts, SameEdgesAnswer, NoPromise DEF Over, PutMember, At
<1>8. CASE \E g \in Folders, to \in Folders \cup {Root} : RestoreRow(r, g, to)
  BY <1>0, <1>8, RestoreRowFacts, RestoreAnswers
<1>9. CASE Tidy(r)
  BY <1>0, <1>9, TidyFacts, RestoreAnswers DEF On
<1>10. CASE FindCycle(r)
  <2>1. SameEdges /\ (req'[r].pc = "breakOne" \/ \A g \in Folders : ~HasCycle(parent, g))
    BY <1>0, <1>10, FindCycleFacts
  <2> QED BY <2>1, RestoreAnswers DEF SameEdges
<1>11. CASE BreakCycle(r)
  BY <1>0, <1>11, BreakCycleFacts, RestoreAnswers DEF On
<1> QED
  BY <1>0, <1>1, <1>2, <1>3, <1>4, <1>5, <1>6, <1>7, <1>8, <1>9, <1>10, <1>11, InsertAnswers,
     MoveAnswers, RecheckAnswers, DetachAnswers, ClaimAnswers, CrashAnswers DEF Does

\* NoCycleStays is kept by every step.
LEMMA NoCycleStaysStays ==
    ASSUME FolderInv, NoCycleStays, [Next]_vars
    PROVE  NoCycleStays'
<1>1. CASE UNCHANGED vars
  BY <1>1 DEF vars, NoCycleStays, CycleOf, WillBreak, Restoring
<1>2. ASSUME NEW r \in Reqs, Does(r) PROVE NoCycleStays'
  <2>1. \A f \in Folders : HasCycle(parent', f) => Answered(f)'
    BY <1>2, StepAnswers
  <2>2. (NoCycleStays <=> \A f \in Folders : HasCycle(parent, f) => Answered(f))'
    BY CyclesAnswered, PTL
  <2> QED BY <2>1, <2>2
<1>3. CASE ThroughTrash
  <2>1. parent' = parent /\ req' = req /\ unchecked' = unchecked
    BY <1>3, ThroughTrashFacts DEF FolderInv
  <2> QED
    BY <2>1 DEF NoCycleStays, CycleOf, WillBreak, Restoring
<1> QED
  BY <1>1, <1>2, <1>3, NextDoes DEF FolderInv

-----------------------------------------------------------------------------
(* What a removal leaves.                                                  *)

\* Member m is where it may be.
Placed(m) ==
    home[m] \in Folders /\ parent[home[m]] = Gone /\ m \notin trashed
        => Removing(home[m]) \/ m \in strayed

\* The same in the next state.
PlacedNext(m) ==
    home'[m] \in Folders /\ parent'[home'[m]] = Gone /\ m \notin trashed'
        => \/ \E x \in Reqs : /\ req'[x].pc \in {"members", "children", "row", "sweep"}
                              /\ req'[x].f = home'[m]
           \/ m \in strayed'

\* A removal goes on unless this step ends it.
LEMMA RemovingNext ==
    ASSUME NEW r \in Reqs, Only(r), NEW f, Removing(f), Removal(r) => Removal(r)' /\ req'[r].f = req[r].f
    PROVE  \E x \in Reqs : req'[x].pc \in {"members", "children", "row", "sweep"} /\ req'[x].f = f
<1> PICK x \in Reqs : Removal(x) /\ req[x].f = f
  BY DEF Removing
<1>1. CASE x = r
  BY <1>1 DEF Removal
<1>2. CASE x # r
  BY <1>2 DEF Only, Removal
<1> QED BY <1>1, <1>2

\* A step that moves no member, deletes no row and ends no removal.
LEMMA PlacedStays ==
    ASSUME RemovedFolderIsEmpty, NEW r \in Reqs, Only(r), NEW m \in Members, home'[m] = home[m],
           trashed \subseteq trashed', m \in strayed => m \in strayed',
           Removal(r) => Removal(r)' /\ req'[r].f = req[r].f,
           home[m] \in Folders /\ parent'[home[m]] = Gone =>
              \/ parent[home[m]] = Gone
              \/ req'[r].pc \in {"members", "children", "row", "sweep"} /\ req'[r].f = home[m]
    PROVE  PlacedNext(m)
<1>1. home[m] \in Folders /\ parent[home[m]] = Gone /\ m \notin trashed
        => Removing(home[m]) \/ m \in strayed
  BY DEF RemovedFolderIsEmpty
<1> QED
  BY <1>1, RemovingNext DEF PlacedNext

\* A step that moves no member and changes no edge.
LEMMA QuietPlaced ==
    ASSUME RemovedFolderIsEmpty, NEW r \in Reqs, Only(r), NEW m \in Members, SameMembers,
           \A g \in Folders : parent'[g] = Gone => parent[g] = Gone,
           ~Removal(r)
    PROVE  PlacedNext(m)
BY PlacedStays DEF SameMembers

\* Members of a folder that is being removed.
LEMMA MovedPlaced ==
    ASSUME RemovedFolderIsEmpty, NEW r \in Reqs, Only(r), NEW m \in Members, NEW to,
           Moved(req[r].f, to),
           req'[r].pc \in {"children", "sweep"}, req'[r].f = req[r].f,
           \A g \in Folders : parent'[g] = Gone => parent[g] = Gone \/ g = req[r].f
    PROVE  PlacedNext(m)
<1>1. Removal(r)'
  BY DEF Removal
<1>2. CASE home'[m] = home[m]
  BY <1>1, <1>2, PlacedStays DEF Moved
<1>3. CASE home'[m] = to /\ (~Lost(to) \/ m \in strayed')
  <2>1. CASE Removing(to)
    BY <1>1, <1>3, <2>1, RemovingNext DEF PlacedNext
  <2>2. CASE ~Removing(to)
    BY <1>3, <2>2 DEF PlacedNext, Lost, Live
  <2> QED BY <2>1, <2>2
<1> QED
  BY <1>2, <1>3 DEF Moved

\* Every step leaves every member where it may be, one case for each action.
LEMMA StepPlaces ==
    ASSUME FolderInv, RemovedFolderIsEmpty, NEW r \in Reqs, Does(r), NEW m \in Members
    PROVE  PlacedNext(m)
<1>0. TypeOK /\ Aimed /\ NewIsAlone
  BY DEF FolderInv
<1>1. CASE Begun(r)
  <2>1. SameMembers /\ Only(r) /\ parent' = parent /\ ~Removal(r)
    BY <1>1 DEF Begun, SameMembers, Removal
  <2> QED BY <2>1, QuietPlaced
<1>2. CASE Insert(r)
  <2>1. SameMembers /\ Only(r) /\ Edge(req[r].f, req[r].to) /\ ~Removal(r)
    BY <1>0, <1>2, InsertFacts DEF Over, Insert, At, Removal
  <2>2. req[r].to # Gone
    BY <1>0, Fields
  <2> QED BY <2>1, <2>2, QuietPlaced DEF Edge
<1>3. CASE Move(r)
  <2>1. SameMembers /\ Only(r) /\ ~Removal(r)
    BY <1>0, <1>3, MoveFacts DEF Over, On, Move, At, Removal
  <2>2. req[r].to # Gone
    BY <1>0, Fields
  <2>3. \A g \in Folders : parent'[g] = Gone => parent[g] = Gone
    BY <1>0, <1>3, <2>2, MoveFacts DEF Edge, SameEdges
  <2> QED BY <2>1, <2>3, QuietPlaced
<1>4. CASE Recheck(r)
  <2>1. SameMembers /\ Only(r) /\ parent' = parent /\ ~Removal(r)
    BY <1>0, <1>4, RecheckFacts DEF Over, On, Recheck, At, Removal, SameEdges
  <2> QED BY <2>1, QuietPlaced
<1>5. CASE Detach(r)
  <2>1. SameMembers /\ Only(r) /\ ~Removal(r)
    BY <1>0, <1>5, DetachFacts DEF Over, Detach, At, Removal
  <2>2. \A g \in Folders : parent'[g] = Gone => parent[g] = Gone
    BY <1>0, <1>5, DetachFacts DEF Edge, SameEdges
  <2> QED BY <2>1, <2>2, QuietPlaced
<1>6. CASE RemoveTxn(r)
  <2>1. Only(r) /\ Moved(req[r].f, req[r].to) /\ Lifted(req[r].f, req[r].to, TRUE)
        /\ req'[r].pc = "sweep" /\ req'[r].f = req[r].f /\ req[r].to # Gone
    BY <1>0, <1>6, RemoveTxnFacts, Fields DEF On
  <2>2. \A g \in Folders : parent'[g] = Gone => parent[g] = Gone \/ g = req[r].f
    BY <2>1 DEF Lifted
  <2> QED BY <2>1, <2>2, MovedPlaced
<1>7. CASE RehomeMembers(r)
  <2>1. Only(r) /\ Moved(req[r].f, req[r].to) /\ parent' = parent
        /\ req'[r].pc = "children" /\ req'[r].f = req[r].f
    BY <1>0, <1>7, RehomeMembersFacts DEF On, SameEdges
  <2> QED BY <2>1, MovedPlaced
<1>8. CASE RehomeChildren(r)
  <2>1. Only(r) /\ SameMembers /\ Lifted(req[r].f, req[r].to, FALSE)
        /\ req'[r].pc \in {"sweep", "row"} /\ req'[r].f = req[r].f /\ req[r].to # Gone
    BY <1>0, <1>8, RehomeChildrenFacts, Fields DEF On
  <2>2. \A g \in Folders : parent'[g] = Gone => parent[g] = Gone
    BY <2>1 DEF Lifted
  <2>3. Removal(r)'
    BY <2>1 DEF Removal
  <2> QED BY <2>1, <2>2, <2>3, PlacedStays DEF SameMembers
<1>9. CASE DeleteRow(r)
  <2>1. Only(r) /\ SameMembers /\ Edge(req[r].f, Gone) /\ req'[r].pc = "sweep"
        /\ req'[r].f = req[r].f
    BY <1>0, <1>9, DeleteRowFacts DEF On
  <2>2. Removal(r)' /\ \A g \in Folders : parent'[g] = Gone => parent[g] = Gone \/ g = req[r].f
    BY <2>1 DEF Removal, Edge
  <2> QED BY <2>1, <2>2, PlacedStays DEF SameMembers
<1>10. CASE Claim(r)
  <2>1. ~Removal(r)
    BY <1>10 DEF Claim, At, Removal
  <2>2. CASE /\ req[r].f \in Live(parent) /\ Moved(req[r].f, parent[req[r].f])
             /\ Lifted(req[r].f, parent[req[r].f], TRUE) /\ On(r, "sweep")
    <3>1. \A g \in Folders : parent'[g] = Gone => parent[g] = Gone \/ g = req[r].f
      BY <2>2 DEF Lifted, Live
    <3> QED BY <2>2, <3>1, MovedPlaced DEF On
  <2>3. CASE Edge(req[r].f, Gone) /\ SameMembers /\ Claimed(r)
    BY <2>1, <2>3, PlacedStays DEF Edge, SameMembers, Claimed
  <2>4. CASE SameEdges /\ SameMembers /\ Over(r)
    BY <2>1, <2>4, QuietPlaced DEF SameEdges, Over
  <2> QED BY <1>0, <1>10, <2>2, <2>3, <2>4, ClaimFacts
<1>11. CASE Sweep(r)
  <2>1. /\ SameEdges /\ Only(r) /\ trashed' = trashed
        /\ IF home[m] = req[r].f /\ m \notin trashed THEN home'[m] = Root
           ELSE home'[m] = home[m] /\ (m \in strayed => m \in strayed')
    BY <1>0, <1>11, SweepFacts DEF Over
  <2>2. CASE home'[m] = Root \/ m \in trashed
    BY <2>1, <2>2 DEF PlacedNext
  <2>3. CASE home[m] # req[r].f /\ home'[m] = home[m] /\ (m \in strayed => m \in strayed')
    <3>1. Removing(home[m]) =>
            \E x \in Reqs : /\ req'[x].pc \in {"members", "children", "row", "sweep"}
                            /\ req'[x].f = home[m]
      BY <2>1, <2>3 DEF Removing, Removal, Only
    <3> QED BY <2>1, <2>3, <3>1 DEF PlacedNext, RemovedFolderIsEmpty, SameEdges
  <2> QED BY <2>1, <2>2, <2>3
<1>12. CASE PutMember(r)
  <2>1. /\ SameEdges /\ Only(r) /\ trashed' = trashed /\ ~Removal(r)
        /\ \/ home'[m] = home[m] /\ (m \in strayed => m \in strayed')
           \/ home'[m] = req[r].to /\ (~Lost(req[r].to) \/ m \in strayed')
    BY <1>0, <1>12, PutMemberFacts DEF Over, PutMember, At, Removal
  <2>2. CASE home'[m] = home[m] /\ (m \in strayed => m \in strayed')
    BY <2>1, <2>2, PlacedStays DEF SameEdges
  <2>3. CASE home'[m] = req[r].to /\ (~Lost(req[r].to) \/ m \in strayed')
    <3>1. CASE Removing(req[r].to)
      BY <2>1, <2>3, <3>1, RemovingNext DEF PlacedNext
    <3>2. CASE ~Removing(req[r].to)
      BY <2>1, <2>3, <3>2 DEF PlacedNext, SameEdges, Lost, Live
    <3> QED BY <3>1, <3>2
  <2> QED BY <2>1, <2>2, <2>3
<1>13. CASE \E f \in Folders, to \in Folders \cup {Root} : RestoreRow(r, f, to)
  <2> PICK f \in Folders, to \in Folders \cup {Root} : RestoreRow(r, f, to)
    BY <1>13
  <2>1. SameMembers /\ Edge(f, to) /\ req' = req /\ req[r].pc = "restore"
    BY <1>0, RestoreRowFacts
  <2>2. Only(r) /\ ~Removal(r)
    BY <1>0, <2>1, Fields DEF Only, Removal
  <2> QED BY <2>1, <2>2, QuietPlaced DEF Edge
<1>14. CASE Tidy(r)
  <2>1. /\ SameMembers /\ Only(r) /\ req[r].pc = "restore"
        /\ \A f \in Folders : parent'[f] = parent[f] \/ parent'[f] = Root
    BY <1>0, <1>14, TidyFacts DEF On
  <2> QED BY <2>1, QuietPlaced DEF Removal
<1>15. CASE FindCycle(r)
  <2>1. SameMembers /\ Only(r) /\ req[r].pc = "breakCycles" /\ parent' = parent
    BY <1>0, <1>15, FindCycleFacts DEF Over, SameEdges
  <2> QED BY <2>1, QuietPlaced DEF Removal
<1>16. CASE BreakCycle(r)
  <2>1. SameMembers /\ Only(r) /\ req[r].pc = "breakOne" /\ (Edge(req[r].f, Root) \/ SameEdges)
    BY <1>0, <1>16, BreakCycleFacts DEF On
  <2> QED BY <2>1, QuietPlaced DEF Removal, Edge, SameEdges
<1>17. CASE Crash(r)
  <2>1. /\ Only(r) /\ parent' = parent /\ home' = home /\ trashed' = trashed
        /\ strayed \subseteq strayed'
        /\ Removal(r) /\ parent[req[r].f] = Gone => ActiveIn(req[r].f) \subseteq strayed'
    BY <1>0, <1>17, CrashFacts DEF Over
  <2>2. CASE ~Removal(r)
    BY <2>1, <2>2, PlacedStays
  <2>3. CASE Removal(r) /\ home[m] = req[r].f
    BY <2>1, <2>3 DEF PlacedNext, ActiveIn
  <2>4. CASE home[m] # req[r].f
    <3>1. Removing(home[m]) =>
            \E x \in Reqs : /\ req'[x].pc \in {"members", "children", "row", "sweep"}
                            /\ req'[x].f = home[m]
      BY <2>1, <2>4 DEF Removing, Removal, Only
    <3> QED BY <2>1, <2>4, <3>1 DEF PlacedNext, RemovedFolderIsEmpty
  <2> QED BY <2>2, <2>3, <2>4
<1> QED
  BY <1>1, <1>2, <1>3, <1>4, <1>5, <1>6, <1>7, <1>8, <1>9, <1>10, <1>11, <1>12, <1>13, <1>14,
     <1>15, <1>16, <1>17 DEF Does

\* RemovedFolderIsEmpty is kept by every step.
LEMMA RemovedStaysEmpty ==
    ASSUME FolderInv, RemovedFolderIsEmpty, [Next]_vars
    PROVE  RemovedFolderIsEmpty'
<1>1. CASE UNCHANGED vars
  BY <1>1 DEF vars, RemovedFolderIsEmpty, Removing, Removal
<1>2. ASSUME NEW r \in Reqs, Does(r) PROVE RemovedFolderIsEmpty'
  <2>1. \A m \in Members : PlacedNext(m)
    BY <1>2, StepPlaces
  <2> QED BY <2>1 DEF PlacedNext, RemovedFolderIsEmpty, Removing, Removal
<1>3. CASE ThroughTrash
  <2>1. /\ parent' = parent /\ home' = home /\ req' = req /\ strayed \subseteq strayed'
        /\ \A m \in trashed \ trashed' : ~Lost(home[m]) \/ m \in strayed'
    BY <1>3, ThroughTrashFacts DEF FolderInv
  <2>2. ASSUME NEW m \in Members, home[m] \in Folders, parent[home[m]] = Gone, m \notin trashed'
        PROVE  Removing(home[m]) \/ m \in strayed'
    <3>1. CASE m \in trashed
      BY <2>1, <2>2, <3>1 DEF Lost, Live
    <3>2. CASE m \notin trashed
      BY <2>1, <2>2, <3>2 DEF RemovedFolderIsEmpty
    <3> QED BY <3>1, <3>2
  <2> QED
    BY <2>1, <2>2 DEF RemovedFolderIsEmpty, Removing, Removal
<1> QED
  BY <1>1, <1>2, <1>3, NextDoes DEF FolderInv

-----------------------------------------------------------------------------
(* The theorems.                                                           *)

\* The initial states: trees, no request, nothing removed.
LEMMA InitHolds ==
    ASSUME Init
    PROVE  FolderInv /\ NoCycleStays /\ RemovedFolderIsEmpty
<1>1. parent \in Trees /\ parent \in [Folders -> Folders \cup {Root, Unborn}]
  BY FolderAssumption DEF Init
<1>2. \A r \in Reqs : req[r] = Idle /\ req[r].pc = "idle" /\ req[r].to = Root
  BY IdleIsRequest DEF Init
<1>3. TypeOK
  <2>1. req \in [Reqs -> Request] /\ ops \in 0..MaxOps /\ faults \in 0..MaxFaults
    BY IdleIsRequest, FolderAssumption DEF Init
  <2>2. home \in [Members -> Folders \cup {Root}]
    BY DEF Init, Live
  <2> QED BY <1>1, <2>1, <2>2 DEF Init, TypeOK
<1>4. Aimed /\ NewIsAlone
  BY <1>2 DEF Aimed, NewIsAlone, Removal, At
<1>5. \A f \in Live(parent) : parent[f] \in Live(parent) \cup {Root} /\ ~HasCycle(parent, f)
  BY <1>1, TreesAssumption
<1>6. NamedIsKnown
  BY <1>2, <1>5 DEF NamedIsKnown, Known, Live
<1>7. NoCycleStays
  BY <1>5 DEF NoCycleStays
<1>8. RemovedFolderIsEmpty
  BY <1>1 DEF RemovedFolderIsEmpty
<1> QED
  BY <1>3, <1>4, <1>6, <1>7, <1>8 DEF FolderInv

(* The inductive invariant: parents and destinations name folders that     *)
(* have or had a row, every removal has its folder, and a folder about to  *)
(* be created is no other request's (createFolder, updateFolder,           *)
(* deleteFolder, removeFolderIfUnchanged, restoreBackup).                  *)
THEOREM FolderInvHolds == Spec => []FolderInv
<1>1. Init => FolderInv
  BY InitHolds
<1>2. FolderInv /\ [Next]_vars => FolderInv'
  BY FolderInvStays
<1> QED
  BY <1>1, <1>2, PTL DEF Spec

(* However many moves, removals and restores race, in a tree of any size:  *)
(* a cycle in the folder tree is one that a request still to come will see *)
(* and break, unless a handler died before it looked or a removal lifted   *)
(* the children to a parent it read earlier (updateFolder's re-check,      *)
(* restoreUnderRotationLock's passes).                                     *)
THEOREM NoCycleStaysHolds == Spec => []NoCycleStays
<1>1. Init => NoCycleStays
  BY InitHolds
<1>2. FolderInv /\ NoCycleStays /\ [Next]_vars => NoCycleStays'
  BY NoCycleStaysStays
<1> QED
  BY <1>1, <1>2, FolderInvHolds, PTL DEF Spec

(* Nothing active stays filed under a folder whose removal is over, but    *)
(* what was filed there after the sweep by a write that had checked the    *)
(* folder before, what was restored from the trash after it, and what a    *)
(* removal that died left (deleteFolder, removeFolderIfUnchanged,          *)
(* sweepOrphanedFolderReferences, restoreItem, restoreDocument).           *)
THEOREM RemovedFolderIsEmptyHolds == Spec => []RemovedFolderIsEmpty
<1>1. Init => RemovedFolderIsEmpty
  BY InitHolds
<1>2. FolderInv /\ RemovedFolderIsEmpty /\ [Next]_vars => RemovedFolderIsEmpty'
  BY RemovedStaysEmpty
<1> QED
  BY <1>1, <1>2, FolderInvHolds, PTL DEF Spec
=============================================================================
