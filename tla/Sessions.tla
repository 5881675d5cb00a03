------------------------------ MODULE Sessions ------------------------------
(***************************************************************************)
(* Refresh-token rotation, reuse detection and the ends of a session       *)
(* (server: authController refresh/login/logout/logoutAll, the cleanup     *)
(* job), composed with the browser that drives it (client: the shared      *)
(* cookie, the Web Lock around the refresh POST, lost replies).            *)
(*                                                                         *)
(* A token is the number of its minting; a family is named by its first    *)
(* token. deleteMany is one atomic step: MongoDB visits the rows of a      *)
(* family in insertion order, re-checks each, and sees a successor that a  *)
(* rotation it waited for has committed.                                   *)
(***************************************************************************)
EXTENDS Integers, FiniteSets

CONSTANTS
    Tabs,            \* callers of performTokenRefresh in one browser
    NoTab,           \* nobody holds the Web Lock
    Copies,          \* presenters of a value that is not the jar's current one
    LockManagers,    \* the browsers: subset of {TRUE, FALSE}, with and without Web Locks
    Topologies,      \* subset of {"txn", "standalone"}
    MaxTok,          \* bound: tokens minted in a behaviour
    MaxTime,         \* bound: ticks of the clock
    MaxLogins,       \* bound: sign-ins, each of a family of its own
    MaxFaults,       \* bound: lost replies, lock requests that fail, foreign presentations
    MaxEnds,         \* bound: requests that end sessions other than by a replay
    MaxTrouble,      \* bound: faults and ends together, a browser without Web Locks one of them
    RefreshLife,     \* REFRESH_TOKEN_DAYS, in ticks
    ReuseWindow,     \* REUSE_DETECTION_WINDOW_SECONDS, in ticks
    MaxSessions      \* MAX_SESSIONS

ASSUME SessionsAssumption ==
    /\ {MaxTok, RefreshLife, ReuseWindow, MaxSessions} \subseteq Nat \ {0}
    /\ {MaxTime, MaxLogins, MaxFaults, MaxEnds, MaxTrouble} \subseteq Nat
    /\ Topologies \subseteq {"txn", "standalone"} /\ LockManagers \subseteq BOOLEAN
    /\ Tabs \cap Copies = {} /\ NoTab \notin Tabs

VARIABLES
    topology,   \* supportsTransactions(mongoose.connection)
    weblocks,   \* navigator.locks exists (not in older browsers and insecure contexts)
    now,        \* the clock
    next,       \* the next token to be minted
    rows,       \* the refresh_tokens collection, by token
    pending,    \* User.deletionPending
    req,        \* one request in progress per actor
    cookie,     \* the browser's refresh cookie, 0 when it has none
    lock,       \* the tab holding the Web Lock, NoTab when it is free
    tab,        \* what each tab is doing about a refresh
    faults,     \* how often something outside the server went wrong
    ends,       \* how many requests ended sessions
    log         \* history: see Log

vars == <<topology, weblocks, now, next, rows, pending, req, cookie, lock, tab, faults, ends, log>>

Tok == 1..MaxTok
Actors == Tabs \cup Copies
None == 0
Keep == MaxTok + 1      \* a reply that says nothing about the cookie
Phantom == MaxTok + 2   \* a cookie whose row was never committed
NotUsed == MaxTime + 1  \* usedAt: null

\* What has happened so far, by family, for the properties:
\*   recorded    a token_reuse_detected audit row was written
\*   answered    a request was answered TOKEN_REUSE_DETECTED
\*   interfered  a replay lost its row to another request before its claim
\*   atExpiry    an unused row was taken for a replay
\*   closed      something other than age took a row
Log == {"recorded", "answered", "interfered", "atExpiry", "closed"}

Idle == [pc |-> "idle", tok |-> None, claimed |-> FALSE, new |-> None,
         set |-> Keep, evict |-> {}]

NoRow == [st |-> "unminted", fam |-> None, exp |-> 0, usedAt |-> NotUsed]

-----------------------------------------------------------------------------
(* The rows.                                                               *)

Stored(t) == rows[t].st \in {"live", "used"}
Fam(t) == rows[t].fam
\* Mutant: a claim that does not look at usedAt.
ClaimableUsed(t) == Stored(t) /\ rows[t].exp > now
Claimable(t) == rows[t].st = "live" /\ rows[t].exp > now
Families == {Fam(t) : t \in 1..(next - 1)}
LiveRows == {t \in Tok : rows[t].st = "live"}
FamilyRows(f) == {t \in Tok : Stored(t) /\ Fam(t) = f}

\* RefreshToken.create of the next token, in family f, for the sliding lifetime.
Minted(table, f) ==
    [table EXCEPT ![next] = [st |-> "live", fam |-> f, exp |-> now + RefreshLife,
                             usedAt |-> NotUsed]]

Spent(table, t) ==
    [table EXCEPT ![t] = [st |-> "used", fam |-> @.fam, exp |-> @.exp, usedAt |-> now]]

Without(gone) ==
    [t \in Tok |-> IF t \in gone /\ Stored(t) THEN [rows[t] EXCEPT !.st = "gone"]
                   ELSE rows[t]]

\* Families of which a replay is between its lookup and its own claim.
ReplaysInFlight ==
    {Fam(req[a].tok) : a \in {x \in Actors : req[x].pc \in {"reuse", "record"}}}

\* A deletion by something other than a replay or the passing of time.
RemoveRows(gone) ==
    /\ rows' = Without(gone)
    /\ log' = [log EXCEPT
         !["closed"] = @ \cup {Fam(t) : t \in {x \in gone : Stored(x)}},
         !["interfered"] = @ \cup (ReplaysInFlight \cap
                             {Fam(t) : t \in {x \in gone : rows[x].st = "used"}})]

-----------------------------------------------------------------------------
Init ==
    /\ topology \in Topologies /\ weblocks \in LockManagers
    /\ now = 0 /\ next = 1
    /\ rows = [t \in Tok |-> NoRow]
    /\ pending = FALSE
    /\ req = [a \in Actors |-> Idle]
    /\ cookie = None /\ lock = NoTab
    /\ tab = [t \in Tabs |-> "idle"]
    /\ faults = 0 /\ ends = 0
    /\ log = [k \in Log |-> {}]

At(a, pc) == req[a].pc = pc
Goto(a, pc) == req' = [req EXCEPT ![a].pc = pc]
Answer(a, set) == req' = [req EXCEPT ![a] = [Idle EXCEPT !.pc = "reply", !.set = set]]
browser == <<cookie, lock, tab>>

Trouble == faults + ends + (IF weblocks THEN 0 ELSE 1)
Fault == faults < MaxFaults /\ Trouble < MaxTrouble /\ faults' = faults + 1
End == ends < MaxEnds /\ Trouble < MaxTrouble /\ ends' = ends + 1

-----------------------------------------------------------------------------
(* refresh, on a deployment with transactions: claim, gate and successor   *)
(* commit together; withTransaction re-runs the callback on a conflict.    *)

\* The handler after a branch that claimed nothing looks the row up; a `claimed`
\* that survived would be answered with a cookie nobody stored.
NothingClaimed(a, claimed) ==
    IF claimed THEN Answer(a, Phantom) ELSE Goto(a, "lookup")

\* Mutant: `claimed` is left as the last attempt set it.
AttemptWithoutReset(a) ==
    /\ At(a, "attempt")
    /\ IF Claimable(req[a].tok)
       THEN req' = [req EXCEPT ![a].pc = "commit", ![a].claimed = TRUE]
       ELSE NothingClaimed(a, req[a].claimed)
    /\ UNCHANGED <<topology, weblocks, now, next, rows, pending, browser, faults, ends, log>>

\* One attempt of the callback. `claimed` is reset first: it outlives an
\* attempt whose writes were rolled back.
TxnAttempt(a) ==
    /\ At(a, "attempt")
    /\ LET t == req[a].tok IN
         \/ /\ Claimable(t) /\ ~pending
            /\ req' = [req EXCEPT ![a].pc = "commit", ![a].claimed = TRUE]
         \/ /\ Claimable(t) /\ pending
            /\ Answer(a, None)
         \/ /\ ~Claimable(t)
            /\ NothingClaimed(a, FALSE)
    /\ UNCHANGED <<topology, weblocks, now, next, rows, pending, browser, faults, ends, log>>

\* Mutant: the successor is created outside the session of the transaction.
CommitWithoutSession(a) ==
    /\ At(a, "commit") /\ next <= MaxTok
    /\ LET t == req[a].tok IN
         rows' = Minted(IF rows[t].st = "live" THEN Spent(rows, t) ELSE rows, Fam(t))
    /\ Answer(a, next)
    /\ next' = next + 1
    /\ UNCHANGED <<topology, weblocks, now, pending, browser, faults, ends, log>>

TxnCommit(a) ==
    /\ At(a, "commit")
    /\ next <= MaxTok
    /\ LET t == req[a].tok IN
         /\ rows[t].st = "live"
         /\ rows' = Minted(Spent(rows, t), Fam(t))
    /\ Answer(a, next)
    /\ next' = next + 1
    /\ UNCHANGED <<topology, weblocks, now, pending, browser, faults, ends, log>>

\* A write conflict, or a transient error of the commit: the writes are gone
\* and the callback runs again.
TxnAbort(a) ==
    /\ At(a, "commit")
    /\ Goto(a, "attempt")
    /\ UNCHANGED <<topology, weblocks, now, next, rows, pending, browser, faults, ends, log>>

(* refresh on a standalone server: gate, then claim, then successor.       *)

Gate(a) ==
    /\ At(a, "gate")
    /\ IF Claimable(req[a].tok) /\ pending THEN Answer(a, None) ELSE Goto(a, "claim")
    /\ UNCHANGED <<topology, weblocks, now, next, rows, pending, browser, faults, ends, log>>

Claim(a) ==
    /\ At(a, "claim")
    /\ LET t == req[a].tok IN
         IF Claimable(t) THEN rows' = Spent(rows, t) /\ Goto(a, "create")
         ELSE rows' = rows /\ NothingClaimed(a, FALSE)
    /\ UNCHANGED <<topology, weblocks, now, next, pending, browser, faults, ends, log>>

\* The successor, with the claimed row's family and deadline as it was read.
Create(a) ==
    /\ At(a, "create")
    /\ next <= MaxTok
    /\ LET t == req[a].tok IN rows' = Minted(rows, Fam(t))
    /\ Answer(a, next)
    /\ next' = next + 1
    /\ UNCHANGED <<topology, weblocks, now, pending, browser, faults, ends, log>>

\* The insert failed: logged, the cookie cleared, 500.
CreateFails(a) ==
    /\ At(a, "create")
    /\ Answer(a, None)
    /\ UNCHANGED <<topology, weblocks, now, next, rows, pending, browser, faults, ends, log>>

-----------------------------------------------------------------------------
(* A refresh that claimed nothing.                                         *)

LookupMissing(a) ==
    /\ At(a, "lookup") /\ ~Stored(req[a].tok)
    /\ Answer(a, None)
    /\ UNCHANGED <<topology, weblocks, now, next, rows, pending, browser, faults, ends, log>>

LookupExpired(a) ==
    /\ At(a, "lookup")
    /\ rows[req[a].tok].st = "live" /\ rows[req[a].tok].exp < now
    /\ Answer(a, None)
    /\ rows' = Without({req[a].tok})
    /\ UNCHANGED <<topology, weblocks, now, next, pending, browser, faults, ends, log>>

\* Everything else the row can be is taken for a replay, an unused row at the
\* very instant of its expiry included.
IsReplay(t) == Stored(t) /\ ~(rows[t].st = "live" /\ rows[t].exp < now)

\* The family's live rows go first, then (not state of this module) the trusted
\* devices, the device proofs and the open challenges.
LookupReplay(a) ==
    /\ At(a, "lookup") /\ IsReplay(req[a].tok)
    /\ Goto(a, "reuse")
    /\ log' = [log EXCEPT !["atExpiry"] =
                  IF rows[req[a].tok].st = "live" THEN @ \cup {Fam(req[a].tok)} ELSE @]
    /\ UNCHANGED <<topology, weblocks, now, next, rows, pending, browser, faults, ends>>

\* Mutant: the family's other spent rows go with the live ones, before the claim.
RevokeFamilyFirst(a) ==
    /\ At(a, "reuse")
    /\ LET f == Fam(req[a].tok) IN
         /\ rows' = Without(FamilyRows(f) \ {req[a].tok})
         /\ log' = [log EXCEPT !["closed"] = @ \cup {f}]
    /\ Goto(a, "record")
    /\ UNCHANGED <<topology, weblocks, now, next, pending, browser, faults, ends>>

RevokeLive(a) ==
    /\ At(a, "reuse")
    /\ LET f == Fam(req[a].tok) IN
         /\ rows' = Without(FamilyRows(f) \cap LiveRows)
         /\ log' = [log EXCEPT !["closed"] = @ \cup {f}]
    /\ Goto(a, "record")
    /\ UNCHANGED <<topology, weblocks, now, next, pending, browser, faults, ends>>

\* deleteOne of the replayed row: whoever removes it records the detection.
RecordReuse(a) ==
    /\ At(a, "record")
    /\ LET t == req[a].tok IN
         /\ log' = [log EXCEPT !["recorded"] = IF Stored(t) THEN @ \cup {Fam(t)} ELSE @]
         /\ rows' = Without({t})
    /\ Goto(a, "sweep")
    /\ UNCHANGED <<topology, weblocks, now, next, pending, browser, faults, ends>>

\* The rest of the family, and the refusal.
SweepFamily(a) ==
    /\ At(a, "sweep")
    /\ LET f == Fam(req[a].tok) IN
         /\ rows' = Without(FamilyRows(f))
         /\ log' = [log EXCEPT !["answered"] = @ \cup {f}]
    /\ Answer(a, None)
    /\ UNCHANGED <<topology, weblocks, now, next, pending, browser, faults, ends>>

-----------------------------------------------------------------------------
(* The other requests.                                                     *)

\* finishLogin (and login2fa): a new family, then the session cap.
Login(t) ==
    /\ At(t, "idle") /\ tab[t] = "idle" /\ ~pending
    /\ next <= MaxTok /\ Cardinality(Families) < MaxLogins
    /\ rows' = Minted(rows, next)
    /\ req' = [req EXCEPT ![t] = [Idle EXCEPT !.pc = "capFind", !.new = next]]
    /\ next' = next + 1
    /\ UNCHANGED <<topology, weblocks, now, pending, browser, faults, ends, log>>

\* enforceSessionCap: the oldest live rows beyond the cap are found, then those
\* still live are deleted.
CapFind(t) ==
    /\ At(t, "capFind")
    /\ LET excess == Cardinality(LiveRows) - MaxSessions IN
         IF Cardinality(LiveRows) <= MaxSessions
         THEN Answer(t, req[t].new)
         ELSE req' = [req EXCEPT ![t].pc = "capDelete",
                ![t].evict = {x \in LiveRows :
                                 Cardinality({y \in LiveRows : y < x}) < excess}]
    /\ UNCHANGED <<topology, weblocks, now, next, rows, pending, browser, faults, ends, log>>

CapDelete(t) ==
    /\ At(t, "capDelete")
    /\ RemoveRows(req[t].evict \cap LiveRows)
    /\ Answer(t, req[t].new)
    /\ UNCHANGED <<topology, weblocks, now, next, pending, browser, faults, ends>>

\* logout: the row of the presented cookie, whatever its state. It does not
\* take the refresh lock.
SendLogout(t) ==
    /\ At(t, "idle") /\ tab[t] = "idle" /\ cookie # None
    /\ req' = [req EXCEPT ![t] = [Idle EXCEPT !.pc = "logout", !.tok = cookie]]
    /\ End
    /\ UNCHANGED <<topology, weblocks, now, next, rows, pending, browser, faults, log>>

Logout(t) ==
    /\ At(t, "logout")
    /\ RemoveRows({req[t].tok} \cap Tok)
    /\ Answer(t, None)
    /\ UNCHANGED <<topology, weblocks, now, next, pending, browser, faults, ends>>

\* logoutAll: every row of the account but the caller's own.
LogoutAll(t) ==
    /\ At(t, "idle") /\ tab[t] = "idle" /\ cookie # None
    /\ \E x \in Tok \ {cookie} : Stored(x)
    /\ RemoveRows(Tok \ {cookie})
    /\ End
    /\ UNCHANGED <<topology, weblocks, now, next, pending, req, browser, faults>>

\* changePassword, resetPassword and the erasure: every row of the account.
EndEverySession ==
    /\ \E x \in Tok : Stored(x)
    /\ RemoveRows(Tok)
    /\ End
    /\ UNCHANGED <<topology, weblocks, now, next, pending, req, browser, faults>>

\* revokeSession: the row of an id, spent or not.
RevokeSession(x) ==
    /\ Stored(x)
    /\ RemoveRows({x})
    /\ End
    /\ UNCHANGED <<topology, weblocks, now, next, pending, req, browser, faults>>

\* deleteAccount raises the flag the refresh gate reads.
MarkDeletionPending ==
    /\ ~pending /\ next > 1
    /\ pending' = TRUE
    /\ End
    /\ UNCHANGED <<topology, weblocks, now, next, rows, req, browser, faults, log>>

-----------------------------------------------------------------------------
(* Time: the cleanup job and the TTL index.                                *)

\* A tick is a day and more, a request falls within one.
Tick ==
    /\ now < MaxTime /\ next > 1
    /\ \A a \in Actors : At(a, "idle")
    /\ now' = now + 1
    /\ UNCHANGED <<topology, weblocks, next, rows, pending, req, browser, faults, ends, log>>

\* Mutant: consumed rows are cleaned up at their own expiry too.
CleanupAnyExpired ==
    LET gone == {t \in Tok : Stored(t) /\ rows[t].exp <= now} IN
    /\ gone # {}
    /\ rows' = Without(gone)
    /\ UNCHANGED <<topology, weblocks, now, next, pending, req, browser, faults, ends, log>>

CleanupExpired ==
    LET gone == {t \in LiveRows : rows[t].exp <= now} IN
    /\ gone # {}
    /\ rows' = Without(gone)
    /\ UNCHANGED <<topology, weblocks, now, next, pending, req, browser, faults, ends, log>>

\* The job's safety net and the TTL index on usedAt, which fires at the window.
CleanupConsumed ==
    LET gone == {t \in Tok : rows[t].st = "used" /\ rows[t].usedAt + ReuseWindow <= now} IN
    /\ gone # {}
    /\ rows' = Without(gone)
    /\ log' = [log EXCEPT !["interfered"] = @ \cup (ReplaysInFlight \cap {Fam(t) : t \in gone})]
    /\ UNCHANGED <<topology, weblocks, now, next, pending, req, browser, faults, ends>>

-----------------------------------------------------------------------------
(* The browser.                                                            *)

FirstStep == IF topology = "txn" THEN "attempt" ELSE "gate"
Presenting(tok) == [Idle EXCEPT !.pc = FirstStep, !.tok = tok]

\* performTokenRefresh: ask for the Web Lock.
Queue(t) ==
    /\ tab[t] = "idle" /\ At(t, "idle") /\ cookie # None
    /\ tab' = [tab EXCEPT ![t] = "queued"]
    /\ UNCHANGED <<topology, weblocks, now, next, rows, pending, req, cookie, lock, faults, ends, log>>

\* The POST carries the jar's cookie of that moment; with none the server
\* refuses before it reads anything.
Post(t) ==
    IF cookie = None
    THEN tab' = [tab EXCEPT ![t] = "idle"] /\ req' = req
    ELSE /\ tab' = [tab EXCEPT ![t] = "posted"]
         /\ req' = [req EXCEPT ![t] = Presenting(cookie)]

\* Mutant: the POST is single-flighted within its tab only.
GrantedUnserialized(t) ==
    /\ tab[t] = "queued"
    /\ Post(t)
    /\ UNCHANGED <<topology, weblocks, now, next, rows, pending, cookie, lock, faults, ends, log>>

Granted(t) ==
    /\ tab[t] = "queued" /\ weblocks /\ lock = NoTab
    /\ Post(t)
    /\ lock' = IF cookie = None THEN NoTab ELSE t
    /\ UNCHANGED <<topology, weblocks, now, next, rows, pending, cookie, faults, ends, log>>

\* Without Web Locks the refresh runs at once, single-flighted in its own tab only.
Unserialized(t) ==
    /\ tab[t] = "queued" /\ ~weblocks
    /\ Post(t)
    /\ UNCHANGED <<topology, weblocks, now, next, rows, pending, cookie, lock, faults, ends, log>>

\* REFRESH_LOCK_WAIT_MS elapsed, or the lock manager rejected the request: the refresh
\* runs without the lock, whoever holds it.
LockFails(t) ==
    /\ tab[t] = "queued" /\ weblocks
    /\ Post(t)
    /\ Fault
    /\ UNCHANGED <<topology, weblocks, now, next, rows, pending, cookie, lock, ends, log>>

Release(t) == lock' = IF lock = t THEN NoTab ELSE lock

\* The reply reaches the browser, which applies its Set-Cookie.
Deliver(t) ==
    /\ At(t, "reply")
    /\ cookie' = IF req[t].set = Keep THEN cookie ELSE req[t].set
    /\ req' = [req EXCEPT ![t] = Idle]
    /\ tab' = [tab EXCEPT ![t] = "idle"]
    /\ Release(t)
    /\ UNCHANGED <<topology, weblocks, now, next, rows, pending, faults, ends, log>>

\* The reply is lost, or the handler died (a crash, a failed write) after a
\* step that changed something: the jar keeps what it had.
Lose(a) ==
    /\ req[a].pc \in {"create", "reuse", "record", "sweep", "capFind", "capDelete", "reply"}
    /\ req' = [req EXCEPT ![a] = Idle]
    /\ tab' = [t \in Tabs |-> IF t = a THEN "idle" ELSE tab[t]]
    /\ Release(a)
    /\ Fault
    /\ UNCHANGED <<topology, weblocks, now, next, rows, pending, cookie, ends, log>>

\* A value presented from elsewhere: an older copy of the jar.
Present(c, tok) ==
    /\ At(c, "idle") /\ rows[tok].st # "unminted"
    /\ req' = [req EXCEPT ![c] = Presenting(tok)]
    /\ Fault
    /\ UNCHANGED <<topology, weblocks, now, next, rows, pending, browser, ends, log>>

CopyAnswered(c) ==
    /\ At(c, "reply")
    /\ req' = [req EXCEPT ![c] = Idle]
    /\ UNCHANGED <<topology, weblocks, now, next, rows, pending, browser, faults, ends, log>>

-----------------------------------------------------------------------------
RefreshStep(a) ==
    \/ TxnAttempt(a) \/ TxnCommit(a) \/ TxnAbort(a)
    \/ Gate(a) \/ Claim(a) \/ Create(a) \/ CreateFails(a)
    \/ LookupMissing(a) \/ LookupExpired(a) \/ LookupReplay(a)
    \/ RevokeLive(a) \/ RecordReuse(a) \/ SweepFamily(a)

TabStep(t) ==
    \/ Queue(t) \/ Granted(t) \/ Unserialized(t) \/ LockFails(t) \/ Deliver(t)
    \/ Login(t)
    \/ CapFind(t) \/ CapDelete(t)
    \/ SendLogout(t) \/ Logout(t) \/ LogoutAll(t)

Next ==
    \/ \E a \in Actors : RefreshStep(a) \/ Lose(a)
    \/ \E t \in Tabs : TabStep(t)
    \/ \E c \in Copies : (\E tok \in Tok : Present(c, tok)) \/ CopyAnswered(c)
    \/ EndEverySession \/ MarkDeletionPending
    \/ \E x \in Tok : RevokeSession(x)
    \/ Tick \/ CleanupExpired \/ CleanupConsumed

Spec == Init /\ [][Next]_vars

-----------------------------------------------------------------------------
(* Properties.                                                             *)

Presents == {"attempt", "commit", "gate", "claim", "create", "lookup", "reuse", "record", "sweep"}
PCs == Presents \cup {"idle", "reply", "capFind", "capDelete", "logout"}

Row == [st : {"unminted", "live", "used", "gone"}, fam : 0..MaxTok, exp : Nat, usedAt : 0..NotUsed]
Request == [pc : PCs, tok : 0..Phantom, claimed : BOOLEAN, new : 0..MaxTok, set : 0..Phantom,
            evict : SUBSET Tok]

TypeOK ==
    /\ topology \in Topologies /\ weblocks \in BOOLEAN /\ now \in 0..MaxTime /\ next \in 1..(MaxTok + 1)
    /\ rows \in [Tok -> Row] /\ pending \in BOOLEAN /\ req \in [Actors -> Request]
    /\ cookie \in 0..Phantom /\ lock \in Tabs \cup {NoTab}
    /\ faults \in 0..MaxFaults /\ ends \in 0..MaxEnds
    /\ tab \in [Tabs -> {"idle", "queued", "posted"}]
    /\ log \in [Log -> SUBSET (0..MaxTok)]
    /\ \A t \in Tok : rows[t].st = "unminted" <=> t >= next

\* A family is one chain: however refreshes, replays, crashes and retries
\* interleave, on either topology, it never has two rows that can be claimed.
FamilyLinear ==
    \A t, u \in LiveRows : Fam(t) = Fam(u) => t = u

\* A family is named by its first token.
FamilyIsNamed == \A t \in Tok : t < next => Fam(t) \in 1..t

\* A standalone refresh between its claim and its insert holds the family's only
\* claim to a successor.
CreateIsAlone ==
    \A a \in Actors : At(a, "create") =>
        /\ req[a].tok \in Tok /\ req[a].tok < next
        /\ \A t \in LiveRows : Fam(t) # Fam(req[a].tok)
        /\ \A b \in Actors \ {a} : At(b, "create") => Fam(req[b].tok) # Fam(req[a].tok)

\* The strengthening of FamilyLinear that is inductive.
ChainInv == TypeOK /\ FamilyLinear /\ FamilyIsNamed /\ CreateIsAlone

\* A cookie handed out always names a row that was committed (the reset of
\* `claimed` at the head of each transaction attempt).
IssuedCookieIsBacked ==
    /\ cookie # Phantom
    /\ \A a \in Actors : req[a].set # Phantom

\* A reuse is recorded at least once: whenever some replay of a family has been
\* answered TOKEN_REUSE_DETECTED its audit row exists, whichever spent values
\* raced, unless another request took a spent row from under a replay (or the
\* row presented was unused, at the instant of its expiry).
ReuseRecorded ==
    log["answered"] \subseteq log["recorded"] \cup log["interfered"] \cup log["atExpiry"]

\* With transactions, once a replay is answered no descendant of the family can
\* be claimed, and none appears later from a rotation that was under way.
NoLiveAfterReuse ==
    topology = "txn" => \A f \in log["answered"] : FamilyRows(f) \cap LiveRows = {}

\* Nothing outside the server went wrong, in a browser that has Web Locks.
Undisturbed == faults = 0 /\ weblocks

\* The tabs of one browser that has Web Locks never trip reuse detection on their own: it
\* takes a lost reply, a lock request that failed, a foreign copy of the cookie, or an
\* unused row presented at the instant it expires. (Without Web Locks two tabs do trip
\* it, by presenting one cookie: withRefreshLock then runs the refresh unserialized.)
TabsNeverReplay ==
    Undisturbed => log["answered"] \subseteq log["atExpiry"]

\* A spent row stays for the whole reuse window, whatever its own expiry, the
\* session cap and the cleanup job do, unless its family was ended on purpose.
SpentRowKept ==
    \A t \in Tok :
        rows[t].usedAt <= now /\ now < rows[t].usedAt + ReuseWindow /\ Fam(t) \notin log["closed"]
            => Stored(t)

-----------------------------------------------------------------------------
(* The inductive invariant behind them.                                    *)

\* Every value in flight is that of a token that was minted.
RequestsOK ==
    /\ \A k \in Log : \A f \in log[k] : f < next
    /\ cookie < next
    /\ \A a \in Actors :
        /\ req[a].new < next
        /\ req[a].set < next \/ req[a].set = Keep
        /\ req[a].pc = "reply" => req[a].set # Keep
        /\ req[a].tok < next
        /\ req[a].pc \in Presents => req[a].tok # None
        /\ req[a].pc \in {"gate", "claim", "create"} => topology = "standalone"

\* When a row was spent says whether it was.
UseIsDated ==
    \A t \in Tok :
        /\ rows[t].usedAt \in 0..now \cup {NotUsed}
        /\ rows[t].st \in {"unminted", "live"} => rows[t].usedAt = NotUsed

\* The order of the replay branch: the live rows go before the claim and the claim
\* before the sweep, so a replay that no longer finds its row was recorded by
\* somebody or knows who took it.
ReplayOrder ==
    \A a \in Actors :
        LET f == Fam(req[a].tok)
            accounted == log["recorded"] \cup log["interfered"] \cup log["atExpiry"]
        IN  /\ req[a].pc \in {"reuse", "record"} => f \in accounted \/ rows[req[a].tok].st = "used"
            /\ req[a].pc \in {"record", "sweep"} => f \in log["closed"]
            /\ req[a].pc \in {"record", "sweep"} /\ topology = "txn" => FamilyRows(f) \cap LiveRows = {}
            /\ req[a].pc = "sweep" => f \in accounted

\* A tab whose refresh POST is under way.
Refreshing(t) == tab[t] = "posted"

\* With Web Locks, until something goes wrong, every token value is in one place only, so what a tab
\* presents is unspent: the tab that refreshes holds the lock, a reply not yet
\* delivered carries a value nobody has seen, and the jar's value is spent only while
\* the reply that replaces it is on its way.
OneHolderPerToken ==
    Undisturbed =>
        /\ \A a \in Copies : req[a] = Idle
        /\ \A t \in Tabs :
            /\ Refreshing(t) <=> lock = t
            /\ req[t].pc \in Presents => Refreshing(t)
            /\ Refreshing(t) => req[t].pc \in Presents \cup {"reply"}
            /\ req[t].pc \in {"attempt", "commit", "gate", "claim", "lookup"} =>
                  rows[req[t].tok].st # "used"
            /\ req[t].pc \in {"reuse", "record", "sweep"} => Fam(req[t].tok) \in log["atExpiry"]
            /\ LET fresh == IF req[t].pc = "reply" THEN req[t].set ELSE req[t].new IN
                  fresh \in Tok =>
                    /\ rows[fresh].st # "used" /\ cookie # fresh
                    /\ \A u \in Tabs : req[u].tok # fresh
                    /\ \A u \in Tabs \ {t} :
                          fresh # IF req[u].pc = "reply" THEN req[u].set ELSE req[u].new
        /\ cookie \in Tok /\ rows[cookie].st = "used" =>
              \E t \in Tabs : Refreshing(t) /\ req[t].pc \in {"create", "reply"}

SessionsInv ==
    /\ ChainInv /\ RequestsOK /\ UseIsDated /\ ReplayOrder /\ OneHolderPerToken
    /\ IssuedCookieIsBacked /\ ReuseRecorded /\ NoLiveAfterReuse /\ TabsNeverReplay /\ SpentRowKept

=============================================================================
