----------------------------- MODULE FolderGraph -----------------------------
(***************************************************************************)
(* The folder tree of one account and what is filed in it (server:         *)
(* folderController createFolder, updateFolder, deleteFolder and           *)
(* removeFolderIfUnchanged, utils/folderGraph, the folder half of a backup *)
(* restore, the item and document writes that name a folder, and their way *)
(* into the trash and back).                                               *)
(*                                                                         *)
(* No lock covers these requests: each checks the tree and writes later.   *)
(* A $graphLookup reads the tree in one step. The bytes and row caps of a  *)
(* folder are in module VaultQuota, its key fence in VaultRotation.        *)
(***************************************************************************)
EXTENDS Integers, FiniteSets, FiniteSetsExt

CONSTANTS
    Folders, Members,  \* folder ids; items and documents
    Root,              \* no parentId, no folderId
    Unborn, Gone,      \* no row yet, no row any more
    Reqs,              \* requests in progress at once
    Topologies,        \* subset of {"txn", "standalone"}
    MaxDepth,          \* MAX_FOLDER_NESTING_DEPTH
    Trees,             \* the trees a behaviour starts from
    MaxOps, MaxFaults  \* bounds: requests and restored rows, handlers that die

ASSUME FolderAssumption ==
    /\ {MaxDepth, MaxOps} \subseteq Nat \ {0} /\ MaxFaults \in Nat
    /\ Topologies \subseteq {"txn", "standalone"}
    /\ Root # Unborn /\ Root # Gone /\ Unborn # Gone /\ {Root, Unborn, Gone} \cap Folders = {}
    /\ Trees \subseteq [Folders -> Folders \cup {Root, Unborn}]

VARIABLES
    topology,   \* supportsTransactions(mongoose.connection)
    parent,     \* parentId of every folder that has a row
    home,       \* folderId of every member
    trashed,    \* members with a deletedAt
    req,        \* the requests in progress
    ops, faults,
    unchecked,  \* history: folders whose edge closed a cycle and nobody re-checks it
    strayed     \* history: members filed in, or brought back from the trash to, a folder
                \* that was already gone, with no removal left to sweep it

vars == <<topology, parent, home, trashed, req, ops, faults, unchecked, strayed>>
history == <<unchecked, strayed>>

Idle == [pc |-> "idle", f |-> Root, to |-> Root, m |-> Root, act |-> "none"]

-----------------------------------------------------------------------------
(* utils/folderGraph.                                                      *)

Live(p) == {f \in Folders : p[f] \notin {Unborn, Gone}}

\* $graphLookup upwards: the least set of rows that holds the parent of f and, with
\* every row, its own; the start itself only by a cycle.
Ancestors(p, f) ==
    LET live == Live(p)
        Upward(S) == \A g \in S \cup {f} : p[g] \in live => p[g] \in S
    IN  {g \in live : \A S \in SUBSET live : Upward(S) => g \in S}

Depth(p, f) == Cardinality(Ancestors(p, f)) + 1

\* getSubtreeHeight.
Height(p, f) ==
    LET level[n \in 0..Cardinality(Folders)] ==
          IF n = 0 THEN {f}
          ELSE LET above == level[n - 1] IN {g \in Live(p) : p[g] \in above}
    IN  1 + Max({n \in 0..Cardinality(Folders) : level[n] # {}})

HasCycle(p, f) == f \in Live(p) /\ f \in Ancestors(p, f)

\* A behaviour starts from trees.
ASSUME TreesAssumption ==
    \A t \in Trees : \A f \in Live(t) : t[f] \in Live(t) \cup {Root} /\ ~HasCycle(t, f)

-----------------------------------------------------------------------------
Init ==
    /\ topology \in Topologies
    /\ parent \in Trees
    /\ home \in [Members -> Live(parent) \cup {Root}]
    /\ trashed = {}
    /\ req = [r \in Reqs |-> Idle]
    /\ ops = 0 /\ faults = 0
    /\ unchecked = {} /\ strayed = {}

At(r, pc) == req[r].pc = pc
Goto(r, pc) == req' = [req EXCEPT ![r].pc = pc]
End(r) == req' = [req EXCEPT ![r] = Idle]
Begin(r, rec) ==
    /\ At(r, "idle") /\ ops < MaxOps
    /\ ops' = ops + 1
    /\ req' = [req EXCEPT ![r] = rec]
    /\ UNCHANGED <<topology, parent, home, trashed, faults, history>>

\* A new edge replaces the one the history was about.
Reparent(f, to) ==
    /\ parent' = [parent EXCEPT ![f] = to]
    /\ unchecked' = unchecked \ {f}

-----------------------------------------------------------------------------
(* createFolder and updateFolder.                                          *)

CreateFolder(r, f, to) ==
    /\ parent[f] = Unborn /\ \A q \in Reqs : req[q].f # f
    /\ to = Root \/ (to \in Live(parent) /\ Depth(parent, to) < MaxDepth)
    /\ Begin(r, [Idle EXCEPT !.pc = "insert", !.f = f, !.to = to])

Insert(r) ==
    /\ At(r, "insert")
    /\ Reparent(req[r].f, req[r].to) /\ End(r)
    /\ UNCHANGED <<topology, home, trashed, ops, faults, strayed>>

\* updateFolder up to its write: the parent exists, the subtree fits below it, and
\* the folder is not one of its ancestors.
UpdateFolder(r, f, to) ==
    /\ f \in Live(parent)
    /\ \/ to = Root
       \/ /\ to \in Live(parent) \ {f}
          /\ Depth(parent, to) + Height(parent, f) <= MaxDepth
          /\ f \notin Ancestors(parent, to)
    /\ Begin(r, [Idle EXCEPT !.pc = "move", !.f = f, !.to = to])

\* Mutant: the committed state is not looked at again.
MoveUnchecked(r) ==
    LET q == req[r]
    IN  /\ At(r, "move")
        /\ \/ /\ q.f \in Live(parent)
              /\ Reparent(q.f, q.to) /\ End(r)
           \/ q.f \notin Live(parent) /\ End(r) /\ UNCHANGED <<parent, unchecked>>
        /\ UNCHANGED <<topology, home, trashed, ops, faults, strayed>>

\* The write of updateFolder, then the re-check of the committed state.
Move(r) ==
    LET q == req[r]
    IN  /\ At(r, "move")
        /\ \/ /\ q.f \in Live(parent)
              /\ Reparent(q.f, q.to)
              /\ IF q.to = Root THEN End(r) ELSE Goto(r, "recheck")
           \/ q.f \notin Live(parent) /\ End(r) /\ UNCHANGED <<parent, unchecked>>
        /\ UNCHANGED <<topology, home, trashed, ops, faults, strayed>>

Recheck(r) ==
    /\ At(r, "recheck")
    /\ IF HasCycle(parent, req[r].f) THEN Goto(r, "detach") ELSE End(r)
    /\ UNCHANGED <<topology, parent, home, trashed, ops, faults, history>>

\* The cycle is broken by dropping the folder's edge, whatever it is by now.
Detach(r) ==
    /\ At(r, "detach")
    /\ \/ req[r].f \in Live(parent) /\ Reparent(req[r].f, Root)
       \/ req[r].f \notin Live(parent) /\ UNCHANGED <<parent, unchecked>>
    /\ End(r)
    /\ UNCHANGED <<topology, home, trashed, ops, faults, strayed>>

-----------------------------------------------------------------------------
(* Removing a folder: deleteFolder reads the parent, moves the contents    *)
(* and deletes the row; the purge of an unreadable folder claims the row   *)
(* first. With transactions each is one commit.                            *)

ActiveIn(f) == {m \in Members : home[m] = f /\ m \notin trashed}

Removal(r) == req[r].pc \in {"members", "children", "row", "sweep"}

\* A removal of f that has not swept yet.
Removing(f) == \E r \in Reqs : Removal(r) /\ req[r].f = f

\* No row, and no sweep to come.
Lost(f) == f # Root /\ f \notin Live(parent) /\ ~Removing(f)

\* rehomeFolderContents, the members: to the trash, or up. Who is trashed keeps the
\* folderId.
RehomedMembers(f, to, act) ==
    /\ trashed' = IF act = "delete" THEN trashed \cup ActiveIn(f) ELSE trashed
    /\ home' = IF act = "delete" THEN home
               ELSE [m \in Members |-> IF home[m] = f THEN to ELSE home[m]]
    /\ strayed' = IF act # "delete" /\ Lost(to)
                  THEN strayed \cup {m \in Members : home[m] = f} ELSE strayed

\* rehomeFolderContents, the child folders; gone: the row is deleted as well.
RehomedChildren(f, to, gone) ==
    LET children == {g \in Live(parent) : parent[g] = f}
        after == [g \in Folders |-> IF gone /\ g = f THEN Gone
                                    ELSE IF g \in children THEN to ELSE parent[g]]
    IN  /\ parent' = after
        /\ unchecked' = (unchecked \ children) \cup {g \in children : HasCycle(after, g)}

DeleteFolder(r, f, act) ==
    /\ f \in Live(parent)
    /\ Begin(r, [Idle EXCEPT !.pc = IF topology = "txn" THEN "removeTxn" ELSE "members",
                             !.f = f, !.to = parent[f], !.act = act])

\* removeFolderIfUnchanged; a folder renamed since is left alone.
PurgeFolder(r, f) ==
    /\ f \in Live(parent)
    /\ Begin(r, [Idle EXCEPT !.pc = "claim", !.f = f, !.act = "purge"])

\* The transaction of deleteFolder, with the parent read before it began.
RemoveTxn(r) ==
    LET q == req[r]
    IN  /\ At(r, "removeTxn")
        /\ RehomedMembers(q.f, q.to, q.act)
        /\ RehomedChildren(q.f, q.to, TRUE)
        /\ Goto(r, "sweep")
        /\ UNCHANGED <<topology, ops, faults>>

RehomeMembers(r) ==
    LET q == req[r]
    IN  /\ At(r, "members")
        /\ RehomedMembers(q.f, q.to, q.act)
        /\ Goto(r, "children")
        /\ UNCHANGED <<topology, parent, ops, faults, unchecked>>

RehomeChildren(r) ==
    LET q == req[r]
    IN  /\ At(r, "children")
        /\ RehomedChildren(q.f, q.to, FALSE)
        /\ Goto(r, IF q.act = "purge" THEN "sweep" ELSE "row")
        /\ UNCHANGED <<topology, home, trashed, ops, faults, strayed>>

DeleteRow(r) ==
    /\ At(r, "row")
    /\ Reparent(req[r].f, Gone) /\ Goto(r, "sweep")
    /\ UNCHANGED <<topology, home, trashed, ops, faults, strayed>>

\* Mutant: the parent is looked up after the row went.
ClaimThenRead(r) ==
    LET f == req[r].f
    IN  /\ At(r, "claim") /\ f \in Live(parent) /\ topology = "standalone"
        /\ Reparent(f, Gone)
        /\ req' = [req EXCEPT ![r].pc = "members", ![r].to = parent'[f]]
        /\ UNCHANGED <<topology, home, trashed, ops, faults, strayed>>

\* The pinned delete of the purge, and with transactions the moves it commits with;
\* the parent is the one on the row that went.
Claim(r) ==
    LET f == req[r].f
    IN  /\ At(r, "claim")
        /\ \/ /\ f \in Live(parent) /\ topology = "txn"
              /\ RehomedMembers(f, parent[f], "purge")
              /\ RehomedChildren(f, parent[f], TRUE)
              /\ Goto(r, "sweep")
           \/ /\ f \in Live(parent) /\ topology = "standalone"
              /\ req' = [req EXCEPT ![r].pc = "members", ![r].to = parent[f]]
              /\ Reparent(f, Gone)
              /\ UNCHANGED <<home, trashed, strayed>>
           \/ End(r) /\ UNCHANGED <<parent, home, trashed, history>>
        /\ UNCHANGED <<topology, ops, faults>>

\* Mutant: the sweep is not awaited and its process is gone before it runs.
SweepNothing(r) ==
    /\ At(r, "sweep") /\ End(r)
    /\ UNCHANGED <<topology, parent, home, trashed, ops, faults, history>>

\* sweepOrphanedFolderReferences: what was filed meanwhile goes to the root.
Sweep(r) ==
    /\ At(r, "sweep")
    /\ home' = [m \in Members |-> IF m \in ActiveIn(req[r].f) THEN Root ELSE home[m]]
    /\ strayed' = strayed \ ActiveIn(req[r].f)
    /\ End(r)
    /\ UNCHANGED <<topology, parent, trashed, ops, faults, unchecked>>

-----------------------------------------------------------------------------
(* Filing a member: createItem, updateItem, bulkMove, a document's folder. *)

FileMember(r, m, f) ==
    /\ f \in Live(parent)
    /\ Begin(r, [Idle EXCEPT !.pc = "file", !.m = m, !.to = f])

PutMember(r) ==
    LET q == req[r]
    IN  /\ At(r, "file")
        /\ home' = [home EXCEPT ![q.m] = q.to]
        /\ strayed' = IF Lost(q.to) THEN strayed \cup {q.m} ELSE strayed \ {q.m}
        /\ End(r)
        /\ UNCHANGED <<topology, parent, trashed, ops, faults, unchecked>>

-----------------------------------------------------------------------------
(* The trash: one write each, which leaves the folderId as it is.          *)

\* deleteItem, bulkDelete, deleteDocument.
TrashMember(m) ==
    /\ m \notin trashed /\ ops < MaxOps /\ ops' = ops + 1
    /\ trashed' = trashed \cup {m}
    /\ UNCHANGED <<topology, parent, home, req, faults, history>>

\* restoreItem, restoreDocument, and an item of a backup that is in the trash: deletedAt
\* is unset and nobody asks whether the folder still has a row.
RestoreMember(m) ==
    /\ m \in trashed /\ ops < MaxOps /\ ops' = ops + 1
    /\ trashed' = trashed \ {m}
    /\ strayed' = IF Lost(home[m]) THEN strayed \cup {m} ELSE strayed
    /\ UNCHANGED <<topology, parent, home, req, faults, unchecked>>

-----------------------------------------------------------------------------
(* restoreBackup: folder rows are written as the backup has them, then     *)
(* parents without a row, self-parents and cycles are cleared.             *)

Restoring(r) == req[r].pc \in {"restore", "breakCycles", "breakOne"}

\* One restore at a time: it holds the account's rotation lock.
RestoreBackup(r) ==
    /\ \A q \in Reqs : ~Restoring(q)
    /\ Begin(r, [Idle EXCEPT !.pc = "restore"])

\* A row of the backup overwrites the folder it matches or becomes a new one. Its
\* parent is whatever the backup says, remapped: possibly the folder itself, one
\* below it, or one that is gone. An overwrite without a parent keeps the present one.
RestoreRow(r, f, to) ==
    /\ At(r, "restore") /\ ops < MaxOps /\ ops' = ops + 1
    /\ \/ f \in Live(parent) /\ to # Root
       \/ parent[f] = Unborn /\ \A q \in Reqs : req[q].f # f
    /\ to \in {f, Root} \cup {g \in Folders : parent[g] # Unborn}
    /\ Reparent(f, to)
    /\ UNCHANGED <<topology, home, trashed, req, faults, strayed>>

Tidy(r) ==
    /\ At(r, "restore")
    /\ parent' = [f \in Folders |->
           IF f \in Live(parent) /\ parent[f] \notin (Live(parent) \cup {Root}) \ {f}
           THEN Root ELSE parent[f]]
    /\ unchecked' = {f \in unchecked : parent'[f] = parent[f]}
    /\ Goto(r, "breakCycles")
    /\ UNCHANGED <<topology, home, trashed, ops, faults, strayed>>

\* One pass: the first folder found in a cycle, or the end.
FindCycle(r) ==
    /\ At(r, "breakCycles")
    /\ \/ \E f \in Folders : /\ HasCycle(parent, f)
                             /\ req' = [req EXCEPT ![r].f = f, ![r].pc = "breakOne"]
       \/ (\A f \in Folders : ~HasCycle(parent, f)) /\ End(r)
    /\ UNCHANGED <<topology, parent, home, trashed, ops, faults, history>>

BreakCycle(r) ==
    /\ At(r, "breakOne")
    /\ \/ req[r].f \in Live(parent) /\ Reparent(req[r].f, Root)
       \/ req[r].f \notin Live(parent) /\ UNCHANGED <<parent, unchecked>>
    /\ Goto(r, "breakCycles")
    /\ UNCHANGED <<topology, home, trashed, ops, faults, strayed>>

-----------------------------------------------------------------------------
\* A handler dies: a move or a restore before its re-check, a removal before its sweep
\* (or the sweep fails, which is only logged).
Crash(r) ==
    LET q == req[r]
    IN  /\ q.pc \in {"recheck", "detach", "restore", "breakCycles", "breakOne", "members",
                     "children", "row", "sweep"}
        /\ faults < MaxFaults /\ faults' = faults + 1
        /\ unchecked' = IF q.pc \in {"recheck", "detach", "restore", "breakCycles", "breakOne"}
                        THEN unchecked \cup {f \in Folders : HasCycle(parent, f)} ELSE unchecked
        /\ strayed' = IF Removal(r) /\ parent[q.f] = Gone
                      THEN strayed \cup ActiveIn(q.f) ELSE strayed
        /\ End(r)
        /\ UNCHANGED <<topology, parent, home, trashed, ops>>

Step(r) ==
    \/ \E f \in Folders, to \in Folders \cup {Root} :
          \/ CreateFolder(r, f, to) \/ UpdateFolder(r, f, to) \/ RestoreRow(r, f, to)
    \/ \E f \in Folders : \E act \in {"delete", "move"} : DeleteFolder(r, f, act)
    \/ \E f \in Folders : PurgeFolder(r, f)
    \/ \E f \in Folders, m \in Members : FileMember(r, m, f)
    \/ Insert(r) \/ Move(r) \/ Recheck(r) \/ Detach(r)
    \/ RemoveTxn(r) \/ RehomeMembers(r) \/ RehomeChildren(r) \/ DeleteRow(r)
    \/ Claim(r) \/ Sweep(r) \/ PutMember(r)
    \/ RestoreBackup(r) \/ Tidy(r) \/ FindCycle(r) \/ BreakCycle(r)
    \/ Crash(r)

Next == (\E r \in Reqs : Step(r)) \/ (\E m \in Members : TrashMember(m) \/ RestoreMember(m))

Spec == Init /\ [][Next]_vars

-----------------------------------------------------------------------------
(* Properties.                                                             *)

PCs == {"idle", "insert", "move", "recheck", "detach", "removeTxn", "members", "children",
        "row", "claim", "sweep", "file", "restore", "breakCycles", "breakOne"}
Request == [pc: PCs, f: Folders \cup {Root}, to: Folders \cup {Root}, m: Members \cup {Root},
            act: {"none", "delete", "move", "purge"}]

\* The shape of the state.
TypeOK ==
    /\ topology \in Topologies
    /\ parent \in [Folders -> Folders \cup {Root, Unborn, Gone}]
    /\ home \in [Members -> Folders \cup {Root}] /\ trashed \subseteq Members
    /\ req \in [Reqs -> Request]
    /\ ops \in 0..MaxOps /\ faults \in 0..MaxFaults
    /\ unchecked \subseteq Folders /\ strayed \subseteq Members

\* A removal has a folder, a filing a member.
Aimed ==
    \A r \in Reqs : /\ Removal(r) \/ At(r, "removeTxn") => req[r].f \in Folders
                    /\ At(r, "file") => req[r].m \in Members

\* What a row or a request names as a parent has a row, or had one.
Known(f) == f = Root \/ parent[f] # Unborn
NamedIsKnown ==
    /\ \A f \in Live(parent) : Known(parent[f])
    /\ \A r \in Reqs : Known(req[r].to)

\* A folder about to be created is still unborn and no other request's.
NewIsAlone ==
    \A r \in Reqs : At(r, "insert") =>
        /\ req[r].f \in Folders /\ parent[req[r].f] = Unborn
        /\ \A q \in Reqs \ {r} : req[q].f # req[r].f

\* Every row's parent, and everything filed, names a folder that has or had a row or
\* the root, also after a removal that learns the parent from the row it deleted, and
\* a creation meets no other request on its folder.
FolderInv == TypeOK /\ Aimed /\ NamedIsKnown /\ NewIsAlone

CycleOf(f) == {g \in Ancestors(parent, f) : f \in Ancestors(parent, g)}

\* A request that will look at the tree again and break the cycle of f.
WillBreak(r, f) ==
    \/ req[r].pc \in {"recheck", "detach"} /\ req[r].f \in CycleOf(f)
    \/ Restoring(r)

(* Any two or more concurrent moves and restores leave no cycle behind:    *)
(* whichever write closed it, some request still to come sees the          *)
(* committed cycle and drops one of its edges (updateFolder: at least one  *)
(* racing request is guaranteed to observe it). The two ways a cycle can   *)
(* stay are a handler that dies before it has looked, and a removal, which *)
(* re-parents the children to a parent it read earlier and checks nothing. *)
NoCycleStays ==
    \A f \in Live(parent) : HasCycle(parent, f) =>
        CycleOf(f) \cap unchecked # {} \/ \E r \in Reqs : WillBreak(r, f)

(* Once a folder's removal is over, nothing active is filed under it: what *)
(* was filed or brought back from the trash while the removal was under    *)
(* way is found by its sweep, whatever it raced with. Left over are only   *)
(* the members of the history: what a write filed there after the sweep,   *)
(* having checked the folder before (or having read it as the parent of    *)
(* another folder), what was trashed with the folder and restored after    *)
(* the sweep, which nothing in restoreItem or restoreDocument prevents,    *)
(* and what a removal that died left.                                      *)
RemovedFolderIsEmpty ==
    \A m \in Members :
        home[m] \in Folders /\ parent[home[m]] = Gone /\ m \notin trashed
          => Removing(home[m]) \/ m \in strayed
=============================================================================
