--------------------------- MODULE SessionsProofs ---------------------------
(***************************************************************************)
(* The properties of Sessions hold for every number of tabs, copies,       *)
(* tokens, ticks, faults and ends, on both topologies, in browsers with    *)
(* Web Locks and without. SessionsInv is inductive; it is proved part by   *)
(* part from the effect every action has on the rows, the requests and the *)
(* history, which is stated field by field first.                          *)
(***************************************************************************)
EXTENDS Sessions, TLAPS

USE DEF Tok, None, Keep, Phantom, NotUsed, Actors
\* What the assumption on the constants says of each of them.
LEMMA Constants ==
    /\ MaxTok \in Nat /\ MaxTok # 0 /\ MaxTime \in Nat /\ RefreshLife \in Nat /\ RefreshLife # 0
    /\ ReuseWindow \in Nat /\ ReuseWindow # 0 /\ MaxFaults \in Nat /\ MaxEnds \in Nat
    /\ NoTab \notin Tabs /\ Tabs \cap Copies = {} /\ Topologies \subseteq {"txn", "standalone"}
BY SessionsAssumption
USE Constants

(* What a step does, field by field.                                       *)

Removes(gone) ==
    /\ rows' \in [Tok -> Row]
    /\ \A t \in Tok :
        /\ rows'[t].fam = rows[t].fam /\ rows'[t].exp = rows[t].exp
        /\ rows'[t].usedAt = rows[t].usedAt
        /\ rows'[t].st = IF t \in gone /\ Stored(t) THEN "gone" ELSE rows[t].st

Spends(k) ==
    /\ rows' \in [Tok -> Row]
    /\ \A t \in Tok :
        /\ rows'[t].fam = rows[t].fam /\ rows'[t].exp = rows[t].exp
        /\ rows'[t].usedAt = (IF t = k THEN now ELSE rows[t].usedAt)
        /\ rows'[t].st = IF t = k THEN "used" ELSE rows[t].st

Mints(f) ==
    /\ rows' \in [Tok -> Row] /\ next \in Tok /\ next' = next + 1
    /\ \A t \in Tok \ {next} : rows'[t] = rows[t]
    /\ rows'[next].st = "live" /\ rows'[next].fam = f /\ rows'[next].usedAt = NotUsed

Rotates(k) ==
    /\ rows' \in [Tok -> Row] /\ next \in Tok /\ next' = next + 1 /\ k # next
    /\ \A t \in Tok \ {next} :
        /\ rows'[t].fam = rows[t].fam /\ rows'[t].exp = rows[t].exp
        /\ rows'[t].usedAt = (IF t = k THEN now ELSE rows[t].usedAt)
        /\ rows'[t].st = IF t = k THEN "used" ELSE rows[t].st
    /\ rows'[next].st = "live" /\ rows'[next].fam = Fam(k) /\ rows'[next].usedAt = NotUsed

Becomes(a, p, tok, new, set) ==
    /\ req' \in [Actors -> Request]
    /\ \A b \in Actors \ {a} : req'[b] = req[b]
    /\ req'[a].pc = p /\ req'[a].tok = tok /\ req'[a].new = new /\ req'[a].set = set

Moves(a, p) == Becomes(a, p, req[a].tok, req[a].new, req[a].set)
Answers(a, v) == Becomes(a, "reply", 0, 0, v)

\* A deletion changes the state of the deleted rows and nothing else of any row.
LEMMA WithoutFacts ==
    ASSUME rows \in [Tok -> Row], NEW gone, rows' = Without(gone)
    PROVE  /\ rows' \in [Tok -> Row]
           /\ \A t \in Tok :
                /\ rows'[t].fam = rows[t].fam /\ rows'[t].exp = rows[t].exp
                /\ rows'[t].usedAt = rows[t].usedAt
                /\ rows'[t].st = IF t \in gone /\ Stored(t) THEN "gone" ELSE rows[t].st
<1>1. ASSUME NEW t \in Tok PROVE /\ rows'[t] \in Row
                /\ rows'[t].fam = rows[t].fam /\ rows'[t].exp = rows[t].exp
                /\ rows'[t].usedAt = rows[t].usedAt
                /\ rows'[t].st = IF t \in gone /\ Stored(t) THEN "gone" ELSE rows[t].st
  BY DEF Without, Row
<1> QED BY <1>1 DEF Without

\* Claiming a row changes its state and its date of use.
LEMMA SpentFacts ==
    ASSUME rows \in [Tok -> Row], now \in 0..MaxTime, NEW k \in Tok
    PROVE  /\ Spent(rows, k) \in [Tok -> Row]
           /\ \A t \in Tok :
                /\ Spent(rows, k)[t].fam = rows[t].fam /\ Spent(rows, k)[t].exp = rows[t].exp
                /\ Spent(rows, k)[t].usedAt = (IF t = k THEN now ELSE rows[t].usedAt)
                /\ Spent(rows, k)[t].st = IF t = k THEN "used" ELSE rows[t].st
<1>1. [st |-> "used", fam |-> rows[k].fam, exp |-> rows[k].exp, usedAt |-> now] \in Row
  BY DEF Row
<1> QED
  BY <1>1 DEF Spent

\* Minting changes the row of the next token only.
LEMMA MintedFacts ==
    ASSUME NEW table \in [Tok -> Row], now \in 0..MaxTime, next \in Tok, NEW f \in 1..MaxTok
    PROVE  /\ Minted(table, f) \in [Tok -> Row]
           /\ \A t \in Tok \ {next} : Minted(table, f)[t] = table[t]
           /\ Minted(table, f)[next] = [st |-> "live", fam |-> f, exp |-> now + RefreshLife,
                             usedAt |-> NotUsed]
  BY DEF Minted, Row

\* A handler that moves on keeps what it knows; nobody else's request changes.
LEMMA GotoFacts ==
    ASSUME req \in [Actors -> Request], NEW a \in Actors, NEW p \in PCs, Goto(a, p)
    PROVE  /\ req' \in [Actors -> Request]
           /\ \A b \in Actors \ {a} : req'[b] = req[b]
           /\ req'[a].pc = p /\ req'[a].tok = req[a].tok /\ req'[a].claimed = req[a].claimed
           /\ req'[a].new = req[a].new /\ req'[a].set = req[a].set /\ req'[a].evict = req[a].evict
  BY DEF Goto, Request

\* A request that has not begun is a request.
LEMMA IdleIsRequest == Idle \in Request
<1>1. "idle" \in PCs /\ 0 \in 0..Phantom /\ Keep \in 0..Phantom /\ 0 \in 0..MaxTok
  BY DEF PCs
<1> HIDE DEF Phantom, Tok, Keep
<1> QED
  BY <1>1 DEF Request, Idle

\* A request that begins with one field given is a request.
LEMMA RecordsBegun ==
    ASSUME NEW p \in PCs, NEW v \in 0..Phantom
    PROVE  /\ [Idle EXCEPT !.pc = p, !.set = v] \in Request
           /\ [Idle EXCEPT !.pc = p, !.tok = v] \in Request
           /\ v <= MaxTok => [Idle EXCEPT !.pc = p, !.new = v] \in Request
<1>1. [Idle EXCEPT !.pc = p] \in Request
  BY IdleIsRequest DEF Request
<1>2. v <= MaxTok => v \in 0..MaxTok
  OBVIOUS
<1> HIDE DEF Phantom, Tok, Idle
<1> QED
  BY <1>1, <1>2 DEF Request

\* A request stays one when its handler notes a claim or the rows to evict.
LEMMA RecordsChanged ==
    ASSUME NEW r \in Request, NEW p \in PCs, NEW e \in SUBSET Tok
    PROVE  /\ [r EXCEPT !.pc = p, !.claimed = TRUE] \in Request
           /\ [r EXCEPT !.pc = p, !.evict = e] \in Request
<1> HIDE DEF Phantom, Tok
<1>1. [r EXCEPT !.pc = p] \in Request
  BY DEF Request
<1> DEFINE q == [r EXCEPT !.pc = p]
<1>2. [q EXCEPT !.claimed = TRUE] \in Request /\ [q EXCEPT !.evict = e] \in Request
  <2> HIDE DEF q
  <2> QED BY <1>1 DEF Request, q
<1> QED
  BY <1>2

\* A handler that answers keeps nothing but its reply.
LEMMA AnswerFacts ==
    ASSUME req \in [Actors -> Request], NEW a \in Actors, NEW v \in 0..Phantom, Answer(a, v)
    PROVE  /\ req' \in [Actors -> Request]
           /\ \A b \in Actors \ {a} : req'[b] = req[b]
           /\ req'[a].pc = "reply" /\ req'[a].set = v /\ req'[a].tok = 0 /\ req'[a].new = 0
           /\ req'[a].claimed = FALSE /\ req'[a].evict = {}
<1>1. "reply" \in PCs
  BY DEF PCs
<1>2. req' \in [Actors -> Request]
  BY <1>1, RecordsBegun DEF Answer
<1>3. req'[a] = [Idle EXCEPT !.pc = "reply", !.set = v]
  BY DEF Answer
<1>4. \A b \in Actors \ {a} : req'[b] = req[b]
  BY DEF Answer
<1> QED
  BY <1>2, <1>3, <1>4 DEF Idle

\* deleteMany and deleteOne, row by row.
LEMMA EffectRemoves ==
    ASSUME TypeOK, NEW gone, rows' = Without(gone) PROVE Removes(gone)
BY WithoutFacts DEF TypeOK, Removes

\* The claim, row by row.
LEMMA EffectSpends ==
    ASSUME TypeOK, NEW k \in Tok, rows' = Spent(rows, k) PROVE Spends(k)
BY SpentFacts DEF TypeOK, Spends

\* RefreshToken.create, row by row.
LEMMA EffectMints ==
    ASSUME TypeOK, next <= MaxTok, NEW f \in 1..MaxTok, rows' = Minted(rows, f), next' = next + 1
    PROVE  Mints(f)
<1>1. next \in Tok /\ now \in 0..MaxTime
  BY DEF TypeOK
<1> QED
  <2>1. /\ rows' \in [Tok -> Row]
        /\ \A t \in Tok \ {next} : rows'[t] = rows[t]
        /\ rows'[next] = [st |-> "live", fam |-> f, exp |-> now + RefreshLife, usedAt |-> NotUsed]
    BY <1>1, MintedFacts DEF TypeOK
  <2> QED
    BY <1>1, <2>1 DEF Mints

\* The committed transaction: one row spent, one minted.
LEMMA EffectRotates ==
    ASSUME TypeOK, next <= MaxTok, NEW k \in Tok, k # next, Fam(k) \in 1..MaxTok,
           rows' = Minted(Spent(rows, k), Fam(k)), next' = next + 1
    PROVE  Rotates(k)
<1>1. next \in Tok /\ now \in 0..MaxTime
  BY DEF TypeOK
<1>2. Spent(rows, k) \in [Tok -> Row]
  BY <1>1, SpentFacts DEF TypeOK
<1> DEFINE table == Spent(rows, k)
<1>3. /\ Minted(table, Fam(k)) \in [Tok -> Row]
      /\ \A t \in Tok \ {next} : Minted(table, Fam(k))[t] = table[t]
      /\ Minted(table, Fam(k))[next] = [st |-> "live", fam |-> Fam(k), exp |-> now + RefreshLife,
                             usedAt |-> NotUsed]
  <2> HIDE DEF table
  <2> QED BY <1>1, <1>2, MintedFacts DEF table
<1>4. \A t \in Tok :
        /\ table[t].fam = rows[t].fam /\ table[t].exp = rows[t].exp
        /\ table[t].usedAt = (IF t = k THEN now ELSE rows[t].usedAt)
        /\ table[t].st = IF t = k THEN "used" ELSE rows[t].st
  BY <1>1, SpentFacts DEF TypeOK
<1> HIDE DEF table
<1>5. rows' = Minted(table, Fam(k))
  BY DEF table
<1>6. rows'[next].st = "live" /\ rows'[next].fam = Fam(k) /\ rows'[next].usedAt = NotUsed
  BY <1>3, <1>5
<1>7. \A t \in Tok \ {next} : rows'[t] = table[t]
  BY <1>3, <1>5
<1> QED
  BY <1>1, <1>3, <1>4, <1>5, <1>6, <1>7 DEF Rotates

\* A handler moving on, field by field.
LEMMA EffectMoves ==
    ASSUME TypeOK, NEW a \in Actors, NEW p \in PCs, Goto(a, p) PROVE Moves(a, p)
BY GotoFacts DEF TypeOK, Moves, Becomes

\* A handler answering, field by field.
LEMMA EffectAnswers ==
    ASSUME TypeOK, NEW a \in Actors, NEW v \in 0..Phantom, Answer(a, v) PROVE Answers(a, v)
BY AnswerFacts DEF TypeOK, Answers, Becomes

(* Types, and the values in flight: what the effect of every step needs.   *)
Core == TypeOK /\ RequestsOK /\ FamilyIsNamed

\* The value a refresh presents is that of a minted token with a named family.
LEMMA Presented ==
    ASSUME Core, NEW a \in Actors, req[a].pc \in Presents
    PROVE  /\ req[a].tok \in Tok /\ req[a].tok < next /\ req[a].tok # next
           /\ Fam(req[a].tok) \in 1..MaxTok /\ Fam(req[a].tok) < next
           /\ rows[req[a].tok] \in Row
<1>1. req[a] \in Request /\ req[a].tok < next /\ req[a].tok # 0 /\ next \in 1..(MaxTok + 1)
  BY DEF Core, TypeOK, RequestsOK
<1>2. req[a].tok \in Nat
  BY <1>1 DEF Request
<1>3. req[a].tok \in Tok /\ req[a].tok < next /\ req[a].tok # next
  BY <1>1, <1>2
<1>4. Fam(req[a].tok) \in 1..req[a].tok
  BY <1>3 DEF Core, FamilyIsNamed
<1> QED
  BY <1>1, <1>3, <1>4 DEF Core, TypeOK

\* The steps a handler is at are steps of the model.
LEMMA PCsUsed ==
    /\ {"attempt", "commit", "gate", "claim", "create", "lookup", "reuse", "record", "sweep"} \subseteq Presents
    /\ {"attempt", "commit", "gate", "claim", "create", "lookup", "reuse", "record", "sweep",
        "idle", "reply", "capFind", "capDelete", "logout"} \subseteq PCs
    /\ Presents \subseteq PCs /\ "reply" \notin Presents
BY DEF Presents, PCs

\* The effect of one attempt of the transaction callback, field by field.
LEMMA TxnAttemptEffect ==
    ASSUME Core, NEW a \in Actors, TxnAttempt(a)
    PROVE  /\ req[a].pc = "attempt"
           /\ Moves(a, "commit") \/ Moves(a, "lookup") \/ Answers(a, 0)
           /\ UNCHANGED <<topology, weblocks, now, next, rows, pending, cookie, lock, tab, faults, ends, log>>
<1>0. TypeOK
  BY DEF Core
<1>1. CASE req' = [req EXCEPT ![a].pc = "commit", ![a].claimed = TRUE]
  <2>1. req' = [req EXCEPT ![a] = [req[a] EXCEPT !.pc = "commit", !.claimed = TRUE]]
    BY <1>1
  <2>2. [req[a] EXCEPT !.pc = "commit", !.claimed = TRUE] \in Request
    BY <1>0, PCsUsed, RecordsChanged DEF TypeOK
  <2>3. Moves(a, "commit")
    BY <1>0, <2>1, <2>2 DEF TypeOK, Moves, Becomes, Request
  <2> QED
    BY <2>3, PCsUsed DEF TxnAttempt, At, browser
<1>2. CASE Answer(a, None) \/ NothingClaimed(a, FALSE)
  BY <1>0, <1>2, PCsUsed, EffectMoves, EffectAnswers DEF TxnAttempt, At, browser, NothingClaimed
<1> QED
  BY <1>1, <1>2 DEF TxnAttempt

\* The effect of a conflict, field by field.
LEMMA TxnAbortEffect ==
    ASSUME Core, NEW a \in Actors, TxnAbort(a)
    PROVE  /\ req[a].pc = "commit"
           /\ Moves(a, "attempt")
           /\ UNCHANGED <<topology, weblocks, now, next, rows, pending, cookie, lock, tab, faults, ends, log>>
<1>0. TypeOK
  BY DEF Core
<1> QED
  BY <1>0, PCsUsed, EffectMoves, EffectAnswers DEF TxnAbort, At, browser, NothingClaimed

\* The effect of the standalone gate, field by field.
LEMMA GateEffect ==
    ASSUME Core, NEW a \in Actors, Gate(a)
    PROVE  /\ req[a].pc = "gate"
           /\ Moves(a, "claim") \/ Answers(a, 0)
           /\ UNCHANGED <<topology, weblocks, now, next, rows, pending, cookie, lock, tab, faults, ends, log>>
<1>0. TypeOK
  BY DEF Core
<1> QED
  BY <1>0, PCsUsed, EffectMoves, EffectAnswers DEF Gate, At, browser, NothingClaimed

\* The effect of a failed insert, field by field.
LEMMA CreateFailsEffect ==
    ASSUME Core, NEW a \in Actors, CreateFails(a)
    PROVE  /\ req[a].pc = "create"
           /\ Answers(a, 0)
           /\ UNCHANGED <<topology, weblocks, now, next, rows, pending, cookie, lock, tab, faults, ends, log>>
<1>0. TypeOK
  BY DEF Core
<1> QED
  BY <1>0, PCsUsed, EffectMoves, EffectAnswers DEF CreateFails, At, browser, NothingClaimed

\* The effect of the lookup that finds no row, field by field.
LEMMA LookupMissingEffect ==
    ASSUME Core, NEW a \in Actors, LookupMissing(a)
    PROVE  /\ req[a].pc = "lookup"
           /\ Answers(a, 0)
           /\ UNCHANGED <<topology, weblocks, now, next, rows, pending, cookie, lock, tab, faults, ends, log>>
<1>0. TypeOK
  BY DEF Core
<1> QED
  BY <1>0, PCsUsed, EffectMoves, EffectAnswers DEF LookupMissing, At, browser, NothingClaimed

\* The effect of the commit, field by field.
LEMMA TxnCommitEffect ==
    ASSUME Core, NEW a \in Actors, TxnCommit(a)
    PROVE  /\ req[a].pc = "commit" /\ rows[req[a].tok].st = "live"
           /\ Rotates(req[a].tok)
           /\ Answers(a, next)
           /\ UNCHANGED <<topology, weblocks, now, pending, cookie, lock, tab, faults, ends, log>>
<1>0. TypeOK /\ req[a].pc = "commit"
  BY DEF Core, TxnCommit, At
<1>1. /\ req[a].tok \in Tok /\ req[a].tok # next /\ Fam(req[a].tok) \in 1..MaxTok
  BY <1>0, Presented, PCsUsed
<1>2. Rotates(req[a].tok)
  BY <1>0, <1>1, EffectRotates DEF TxnCommit
<1>3. next \in 0..Phantom
  BY <1>0 DEF TypeOK
<1>4. Answers(a, next)
  BY <1>0, <1>3, EffectAnswers DEF TxnCommit
<1> QED
  BY <1>0, <1>2, <1>4 DEF TxnCommit, browser

\* The effect of the standalone claim, field by field.
LEMMA ClaimEffect ==
    ASSUME Core, NEW a \in Actors, Claim(a)
    PROVE  /\ req[a].pc = "claim"
           /\ \/ /\ Claimable(req[a].tok) /\ Spends(req[a].tok) /\ Moves(a, "create")
              \/ rows' = rows /\ Moves(a, "lookup")
           /\ UNCHANGED <<topology, weblocks, now, next, pending, cookie, lock, tab, faults, ends, log>>
<1>0. TypeOK /\ req[a].pc = "claim"
  BY DEF Core, Claim, At
<1>1. req[a].tok \in Tok
  BY <1>0, Presented, PCsUsed
<1> QED
  BY <1>0, <1>1, PCsUsed, EffectSpends, EffectMoves DEF Claim, NothingClaimed, browser

\* The effect of the insert of the successor, field by field.
LEMMA CreateEffect ==
    ASSUME Core, NEW a \in Actors, Create(a)
    PROVE  /\ req[a].pc = "create"
           /\ Mints(Fam(req[a].tok))
           /\ Answers(a, next)
           /\ UNCHANGED <<topology, weblocks, now, pending, cookie, lock, tab, faults, ends, log>>
<1>0. TypeOK /\ req[a].pc = "create"
  BY DEF Core, Create, At
<1>1. Fam(req[a].tok) \in 1..MaxTok
  BY <1>0, Presented, PCsUsed
<1>2. Mints(Fam(req[a].tok))
  BY <1>0, <1>1, EffectMints DEF Create
<1>3. next \in 0..Phantom
  BY <1>0 DEF TypeOK
<1>4. Answers(a, next)
  BY <1>0, <1>3, EffectAnswers DEF Create
<1> QED
  BY <1>0, <1>2, <1>4 DEF Create, browser

\* The effect of the lookup of an expired row, field by field.
LEMMA LookupExpiredEffect ==
    ASSUME Core, NEW a \in Actors, LookupExpired(a)
    PROVE  /\ req[a].pc = "lookup" /\ rows[req[a].tok].st = "live"
           /\ Removes({req[a].tok})
           /\ Answers(a, 0)
           /\ UNCHANGED <<topology, weblocks, now, next, pending, cookie, lock, tab, faults, ends, log>>
<1>0. TypeOK
  BY DEF Core
<1> QED
  BY <1>0, EffectRemoves, EffectAnswers DEF LookupExpired, At, browser

\* The effect of the lookup of a replay, field by field.
LEMMA LookupReplayEffect ==
    ASSUME Core, NEW a \in Actors, LookupReplay(a)
    PROVE  /\ req[a].pc = "lookup" /\ Stored(req[a].tok)
           /\ Moves(a, "reuse")
           /\ log' = [log EXCEPT !["atExpiry"] =
                  IF rows[req[a].tok].st = "live" THEN @ \cup {Fam(req[a].tok)} ELSE @]
           /\ UNCHANGED <<topology, weblocks, now, next, rows, pending, cookie, lock, tab, faults, ends>>
<1>0. TypeOK
  BY DEF Core
<1> QED
  BY <1>0, PCsUsed, EffectMoves DEF LookupReplay, IsReplay, At, browser

\* The effect of the revocation of the live rows, field by field.
LEMMA RevokeLiveEffect ==
    ASSUME Core, NEW a \in Actors, RevokeLive(a)
    PROVE  /\ req[a].pc = "reuse"
           /\ Removes(FamilyRows(Fam(req[a].tok)) \cap LiveRows)
           /\ Moves(a, "record")
           /\ log' = [log EXCEPT !["closed"] = @ \cup {Fam(req[a].tok)}]
           /\ UNCHANGED <<topology, weblocks, now, next, pending, cookie, lock, tab, faults, ends>>
<1>0. TypeOK
  BY DEF Core
<1> QED
  BY <1>0, PCsUsed, EffectMoves, EffectRemoves DEF RevokeLive, At, browser

\* The effect of the claim of the audit row, field by field.
LEMMA RecordReuseEffect ==
    ASSUME Core, NEW a \in Actors, RecordReuse(a)
    PROVE  /\ req[a].pc = "record"
           /\ Removes({req[a].tok})
           /\ Moves(a, "sweep")
           /\ log' = [log EXCEPT !["recorded"] = IF Stored(req[a].tok) THEN @ \cup {Fam(req[a].tok)} ELSE @]
           /\ UNCHANGED <<topology, weblocks, now, next, pending, cookie, lock, tab, faults, ends>>
<1>0. TypeOK
  BY DEF Core
<1> QED
  BY <1>0, PCsUsed, EffectMoves, EffectRemoves DEF RecordReuse, At, browser

\* The effect of the sweep and the refusal, field by field.
LEMMA SweepFamilyEffect ==
    ASSUME Core, NEW a \in Actors, SweepFamily(a)
    PROVE  /\ req[a].pc = "sweep"
           /\ Removes(FamilyRows(Fam(req[a].tok)))
           /\ Answers(a, 0)
           /\ log' = [log EXCEPT !["answered"] = @ \cup {Fam(req[a].tok)}]
           /\ UNCHANGED <<topology, weblocks, now, next, pending, cookie, lock, tab, faults, ends>>
<1>0. TypeOK
  BY DEF Core
<1> QED
  BY <1>0, EffectAnswers, EffectRemoves DEF SweepFamily, At, browser

\* Rows are taken by something other than a replay or age: it is noted that their
\* families were closed, and that replays under way lost their row.
Takes(gone) ==
    /\ Removes(gone)
    /\ log' \in [Log -> SUBSET (0..MaxTok)]
    /\ \A k \in Log : log[k] \subseteq log'[k] /\ (\A f \in log'[k] : f < next)
    /\ log'["recorded"] = log["recorded"] /\ log'["answered"] = log["answered"]
    /\ log'["atExpiry"] = log["atExpiry"]
    /\ \A t \in Tok : t \in gone /\ Stored(t) => Fam(t) \in log'["closed"]
    /\ \A a \in Actors :
         req[a].pc \in {"reuse", "record"} /\ req[a].tok \in gone /\ rows[req[a].tok].st = "used"
            => Fam(req[a].tok) \in log'["interfered"]

\* A row in the collection belongs to a minted token.
LEMMA StoredIsMinted ==
    ASSUME Core, NEW t \in Tok, Stored(t)
    PROVE  t < next /\ Fam(t) \in 1..MaxTok /\ Fam(t) \in 0..MaxTok /\ Fam(t) < next
<1>1. t < next /\ next \in 1..(MaxTok + 1)
  BY DEF Core, TypeOK, Stored
<1>2. Fam(t) \in 1..t
  BY <1>1 DEF Core, FamilyIsNamed
<1> QED
  BY <1>1, <1>2

\* Adding minted families to one of the histories keeps them histories of minted families.
LEMMA LogAdds ==
    ASSUME Core, NEW l, l \in [Log -> SUBSET (0..MaxTok)], \A k \in Log : \A f \in l[k] : f < next,
           NEW c \in Log, NEW s, s \subseteq 0..MaxTok, \A f \in s : f < next
    PROVE  /\ [l EXCEPT ![c] = @ \cup s] \in [Log -> SUBSET (0..MaxTok)]
           /\ \A k \in Log : \A f \in [l EXCEPT ![c] = @ \cup s][k] : f < next
           /\ \A k \in Log : [l EXCEPT ![c] = @ \cup s][k] = IF k = c THEN l[k] \cup s ELSE l[k]
<1>1. l[c] \cup s \in SUBSET (0..MaxTok) /\ \A f \in l[c] \cup s : f < next
  OBVIOUS
<1> QED
  BY <1>1

\* RemoveRows, row by row, and what the history keeps of it.
LEMMA EffectTakes ==
    ASSUME Core, NEW gone \in SUBSET Tok, RemoveRows(gone)
    PROVE  Takes(gone)
<1> DEFINE c == {Fam(t) : t \in {x \in gone : Stored(x)}}
           i == ReplaysInFlight \cap {Fam(t) : t \in {x \in gone : rows[x].st = "used"}}
           l == [log EXCEPT !["closed"] = @ \cup c]
<1>0. TypeOK /\ RequestsOK /\ {"closed", "interfered", "recorded", "answered", "atExpiry"} = Log
  BY DEF Core, Log
<1>1. c \subseteq 0..MaxTok /\ \A f \in c : f < next
  BY StoredIsMinted
<1>2. i \subseteq 0..MaxTok /\ \A f \in i : f < next
  BY StoredIsMinted DEF Stored
<1>3. log \in [Log -> SUBSET (0..MaxTok)] /\ \A k \in Log : \A f \in log[k] : f < next
  BY <1>0 DEF TypeOK, RequestsOK
<1>4. log' = [l EXCEPT !["interfered"] = @ \cup i]
  <2>1. log' = [log EXCEPT !["closed"] = @ \cup c, !["interfered"] = @ \cup i]
    BY DEF RemoveRows
  <2> HIDE DEF c, i
  <2> QED BY <2>1, <1>3, <1>0 DEF Log
<1>5. \A t \in Tok : t \in gone /\ Stored(t) => Fam(t) \in c
  OBVIOUS
<1>6. \A a \in Actors :
         req[a].pc \in {"reuse", "record"} /\ req[a].tok \in gone /\ rows[req[a].tok].st = "used"
            => Fam(req[a].tok) \in i
  BY DEF ReplaysInFlight
<1>7. Removes(gone)
  BY <1>0, EffectRemoves DEF RemoveRows
<1> HIDE DEF c, i
<1>8. /\ l \in [Log -> SUBSET (0..MaxTok)] /\ \A k \in Log : \A f \in l[k] : f < next
      /\ \A k \in Log : l[k] = IF k = "closed" THEN log[k] \cup c ELSE log[k]
  BY <1>0, <1>1, <1>3, LogAdds
<1> HIDE DEF l
<1>9. /\ log' \in [Log -> SUBSET (0..MaxTok)] /\ \A k \in Log : (\A f \in log'[k] : f < next)
      /\ \A k \in Log : log'[k] = IF k = "interfered" THEN l[k] \cup i ELSE l[k]
  BY <1>0, <1>2, <1>4, <1>8, LogAdds
<1>10. /\ \A k \in Log : log[k] \subseteq log'[k]
       /\ log'["recorded"] = log["recorded"] /\ log'["answered"] = log["answered"]
       /\ log'["atExpiry"] = log["atExpiry"]
       /\ c \subseteq log'["closed"] /\ i \subseteq log'["interfered"]
  BY <1>0, <1>8, <1>9
<1> QED
  BY <1>5, <1>6, <1>7, <1>9, <1>10 DEF Takes

\* The effect of a login, field by field.
LEMMA LoginEffect ==
    ASSUME Core, NEW t \in Tabs, Login(t)
    PROVE  /\ req[t].pc = "idle" /\ tab[t] = "idle"
           /\ Mints(next)
           /\ Becomes(t, "capFind", 0, next, Keep)
           /\ UNCHANGED <<topology, weblocks, now, pending, cookie, lock, tab, faults, ends, log>>
<1>0. TypeOK /\ next \in 1..MaxTok /\ t \in Actors
  BY DEF Core, Login, TypeOK
<1>1. Mints(next)
  <2>1. next <= MaxTok /\ rows' = Minted(rows, next) /\ next' = next + 1
    BY DEF Login
  <2>2. \A f \in 1..MaxTok : rows' = Minted(rows, f) => Mints(f)
    BY <1>0, <2>1, EffectMints
  <2> QED
    BY <1>0, <2>1, <2>2
<1>2. [Idle EXCEPT !.pc = "capFind", !.new = next] \in Request
  <2>1. "capFind" \in PCs /\ next \in 0..Phantom /\ next <= MaxTok
    BY <1>0, PCsUsed
  <2> HIDE DEF Phantom
  <2> QED
    BY <2>1, RecordsBegun
<1>3. req' = [req EXCEPT ![t] = [Idle EXCEPT !.pc = "capFind", !.new = next]]
  BY DEF Login
<1>4. Becomes(t, "capFind", 0, next, Keep)
  BY <1>0, <1>2, <1>3 DEF TypeOK, Becomes, Idle
<1> QED
  BY <1>1, <1>4 DEF Login, At, browser

\* The effect of the search of enforceSessionCap, field by field.
LEMMA CapFindEffect ==
    ASSUME Core, NEW t \in Tabs, CapFind(t)
    PROVE  /\ req[t].pc = "capFind"
           /\ Answers(t, req[t].new) \/ Moves(t, "capDelete")
           /\ UNCHANGED <<topology, weblocks, now, next, rows, pending, cookie, lock, tab, faults, ends, log>>
<1>0. TypeOK /\ t \in Actors
  BY DEF Core
<1>1. CASE Answer(t, req[t].new)
  <2>1. req[t].new \in 0..Phantom
    BY <1>0 DEF TypeOK, Request
  <2> QED
    BY <1>0, <1>1, <2>1, EffectAnswers DEF CapFind, At, browser
<1>2. CASE ~Answer(t, req[t].new)
  <2> DEFINE e == {x \in LiveRows : Cardinality({y \in LiveRows : y < x}) < Cardinality(LiveRows) - MaxSessions}
             r == [req[t] EXCEPT !.pc = "capDelete", !.evict = e]
  <2>1. e \in SUBSET Tok
    BY DEF LiveRows
  <2>2. req' = [req EXCEPT ![t].pc = "capDelete", ![t].evict = e]
    BY <1>2 DEF CapFind
  <2> HIDE DEF e
  <2>3. req' = [req EXCEPT ![t] = r]
    BY <2>2
  <2>4. r \in Request
    BY <1>0, <2>1, PCsUsed, RecordsChanged DEF TypeOK
  <2>5. r.pc = "capDelete" /\ r.tok = req[t].tok /\ r.new = req[t].new /\ r.set = req[t].set
    BY <1>0 DEF TypeOK, Request
  <2> HIDE DEF r
  <2>6. Moves(t, "capDelete")
    BY <1>0, <2>3, <2>4, <2>5 DEF TypeOK, Moves, Becomes
  <2> QED
    BY <2>6 DEF CapFind, At, browser
<1> QED
  BY <1>1, <1>2

\* The effect of its deletion, field by field.
LEMMA CapDeleteEffect ==
    ASSUME Core, NEW t \in Tabs, CapDelete(t)
    PROVE  /\ req[t].pc = "capDelete"
           /\ Takes(req[t].evict \cap LiveRows)
           /\ Answers(t, req[t].new)
           /\ UNCHANGED <<topology, weblocks, now, next, pending, cookie, lock, tab, faults, ends>>
<1>0. TypeOK /\ t \in Actors
  BY DEF Core
<1>1. req[t].new \in 0..Phantom
  BY <1>0 DEF TypeOK, Request
<1>2. req[t].evict \cap LiveRows \in SUBSET Tok
  BY DEF LiveRows
<1>3. Takes(req[t].evict \cap LiveRows)
  BY <1>2, EffectTakes DEF CapDelete
<1> QED
  BY <1>0, <1>1, <1>3, EffectAnswers DEF CapDelete, At, browser

\* The effect of a logout that is sent, field by field.
LEMMA SendLogoutEffect ==
    ASSUME Core, NEW t \in Tabs, SendLogout(t)
    PROVE  /\ req[t].pc = "idle" /\ tab[t] = "idle"
           /\ Becomes(t, "logout", cookie, 0, Keep)
           /\ ends' \in 0..MaxEnds
           /\ UNCHANGED <<topology, weblocks, now, next, rows, pending, cookie, lock, tab, faults, log>>
<1>0. TypeOK /\ t \in Actors
  BY DEF Core
<1>1. cookie \in 0..Phantom /\ ends' \in 0..MaxEnds
  BY <1>0, SMTT(30) DEF TypeOK, SendLogout, End, Trouble
<1>2. [Idle EXCEPT !.pc = "logout", !.tok = cookie] \in Request
  BY <1>1, PCsUsed, RecordsBegun
<1>3. req' = [req EXCEPT ![t] = [Idle EXCEPT !.pc = "logout", !.tok = cookie]]
  BY DEF SendLogout
<1>4. Becomes(t, "logout", cookie, 0, Keep)
  BY <1>0, <1>2, <1>3 DEF TypeOK, Becomes, Idle
<1> QED
  BY <1>1, <1>4 DEF SendLogout, At, browser

\* The effect of the logout handler, field by field.
LEMMA LogoutEffect ==
    ASSUME Core, NEW t \in Tabs, Logout(t)
    PROVE  /\ req[t].pc = "logout"
           /\ Takes({req[t].tok} \cap Tok)
           /\ Answers(t, 0)
           /\ UNCHANGED <<topology, weblocks, now, next, pending, cookie, lock, tab, faults, ends>>
<1>0. TypeOK /\ t \in Actors
  BY DEF Core
<1>2. {req[t].tok} \cap Tok \in SUBSET Tok
  OBVIOUS
<1>3. Takes({req[t].tok} \cap Tok)
  BY <1>2, EffectTakes DEF Logout
<1> QED
  BY <1>0, <1>3, EffectAnswers DEF Logout, At, browser

\* What logoutAll, revokeSession, a password change and an erasure do to the rows.
LEMMA EndEffect ==
    ASSUME Core, \/ \E t \in Tabs : LogoutAll(t)
                 \/ EndEverySession
                 \/ \E x \in Tok : RevokeSession(x)
    PROVE  /\ \E gone \in SUBSET Tok : Takes(gone)
           /\ ends' \in 0..MaxEnds
           /\ UNCHANGED <<topology, weblocks, now, next, pending, req, cookie, lock, tab, faults>>
<1>0. ends \in 0..MaxEnds
  BY DEF Core, TypeOK
<1>1. CASE \E t \in Tabs : LogoutAll(t)
  <2>1. Tok \ {cookie} \in SUBSET Tok
    OBVIOUS
  <2> QED
    BY <1>0, <1>1, <2>1, EffectTakes DEF LogoutAll, End, Trouble, browser
<1>2. CASE EndEverySession
  <2>1. Tok \in SUBSET Tok
    OBVIOUS
  <2> QED
    BY <1>0, <1>2, <2>1, EffectTakes DEF EndEverySession, End, Trouble, browser
<1>3. CASE \E x \in Tok : RevokeSession(x)
  <2>1. PICK x \in Tok : RevokeSession(x)
    BY <1>3
  <2>2. {x} \in SUBSET Tok
    OBVIOUS
  <2> QED
    BY <1>0, <2>1, <2>2, EffectTakes DEF RevokeSession, End, Trouble, browser
<1> QED
  BY <1>1, <1>2, <1>3

-----------------------------------------------------------------------------
(* The browser and the passing of time.                                    *)

Clears(a) == Becomes(a, "idle", 0, 0, Keep)

Sets(t, v) ==
    /\ tab' \in [Tabs -> {"idle", "queued", "posted"}]
    /\ tab'[t] = v /\ \A u \in Tabs \ {t} : tab'[u] = tab[u]

\* The tab posts the jar's cookie, or finds that there is none.
Posts(t) ==
    \/ /\ cookie = 0 /\ Sets(t, "idle") /\ req' = req
    \/ /\ cookie # 0 /\ Sets(t, "posted")
       /\ \/ Becomes(t, "attempt", cookie, 0, Keep)
          \/ topology = "standalone" /\ Becomes(t, "gate", cookie, 0, Keep)

\* A request that ended.
LEMMA EffectClears ==
    ASSUME TypeOK, NEW a \in Actors, req' = [req EXCEPT ![a] = Idle]
    PROVE  Clears(a)
BY IdleIsRequest DEF TypeOK, Clears, Becomes, Idle

\* A refresh that begins, on either topology.
LEMMA EffectPresents ==
    ASSUME TypeOK, NEW a \in Actors, NEW v \in 0..Phantom, req' = [req EXCEPT ![a] = Presenting(v)]
    PROVE  \/ Becomes(a, "attempt", v, 0, Keep)
           \/ topology = "standalone" /\ Becomes(a, "gate", v, 0, Keep)
<1>1. FirstStep = "attempt" \/ (FirstStep = "gate" /\ topology = "standalone")
  <2>1. topology \in {"txn", "standalone"}
    BY DEF TypeOK
  <2>2. CASE topology = "txn"
    BY <2>2 DEF FirstStep
  <2>3. CASE topology = "standalone"
    BY <2>3 DEF FirstStep
  <2> QED
    BY <2>1, <2>2, <2>3
<1>2. FirstStep \in PCs
  BY <1>1, PCsUsed
<1>3. Presenting(v) \in Request
  <2> HIDE DEF Phantom
  <2> QED BY <1>2, RecordsBegun DEF Presenting
<1>4. Presenting(v).pc = FirstStep /\ Presenting(v).tok = v /\ Presenting(v).new = 0 /\ Presenting(v).set = Keep
  BY DEF Presenting, Idle
<1>5. Becomes(a, FirstStep, v, 0, Keep)
  BY <1>3, <1>4 DEF TypeOK, Becomes
<1>6. CASE FirstStep = "attempt"
  BY <1>5, <1>6
<1>7. CASE FirstStep = "gate" /\ topology = "standalone"
  BY <1>5, <1>7
<1> QED
  BY <1>1, <1>6, <1>7

\* What the POST of a tab does to the browser and to the request.
LEMMA EffectPosts ==
    ASSUME TypeOK, NEW t \in Tabs, Post(t) PROVE Posts(t)
<1>1. cookie \in 0..Phantom /\ tab \in [Tabs -> {"idle", "queued", "posted"}] /\ t \in Actors
  BY DEF TypeOK
<1>2. CASE cookie = 0
  BY <1>1, <1>2 DEF Post, Posts, Sets
<1>3. CASE cookie # 0
  <2>1. req' = [req EXCEPT ![t] = Presenting(cookie)] /\ Sets(t, "posted")
    BY <1>1, <1>3 DEF Post, Sets
  <2>2. \A v \in 0..Phantom : req' = [req EXCEPT ![t] = Presenting(v)] =>
           \/ Becomes(t, "attempt", v, 0, Keep)
           \/ topology = "standalone" /\ Becomes(t, "gate", v, 0, Keep)
    BY <1>1, EffectPresents
  <2> QED
    BY <1>1, <1>3, <2>1, <2>2 DEF Posts
<1> QED
  BY <1>2, <1>3

\* The effect of asking for the Web Lock, field by field.
LEMMA QueueEffect ==
    ASSUME Core, NEW t \in Tabs, Queue(t)
    PROVE  /\ req[t].pc = "idle" /\ tab[t] = "idle"
           /\ Sets(t, "queued")
           /\ UNCHANGED <<topology, weblocks, now, next, rows, pending, req, cookie, lock, faults, ends, log>>
<1>1. tab \in [Tabs -> {"idle", "queued", "posted"}]
  BY DEF Core, TypeOK
<1> QED
  BY <1>1 DEF Queue, At, Sets

\* The effect of being granted it, field by field.
LEMMA GrantedEffect ==
    ASSUME Core, NEW t \in Tabs, Granted(t)
    PROVE  /\ tab[t] = "queued" /\ lock = NoTab
           /\ Posts(t)
           /\ lock' = IF cookie = None THEN NoTab ELSE t
           /\ UNCHANGED <<topology, weblocks, now, next, rows, pending, cookie, faults, ends, log>>
<1>1. TypeOK
  BY DEF Core
<1> QED
  BY <1>1, EffectPosts DEF Granted

\* The effect of a refresh in a browser without Web Locks, field by field.
LEMMA UnserializedEffect ==
    ASSUME Core, NEW t \in Tabs, Unserialized(t)
    PROVE  /\ tab[t] = "queued" /\ ~weblocks
           /\ Posts(t)
           /\ UNCHANGED <<topology, weblocks, now, next, rows, pending, cookie, lock, faults, ends, log>>
<1>1. TypeOK
  BY DEF Core
<1> QED
  BY <1>1, EffectPosts DEF Unserialized

\* The effect of a lock request that fails, field by field.
LEMMA LockFailsEffect ==
    ASSUME Core, NEW t \in Tabs, LockFails(t)
    PROVE  /\ tab[t] = "queued"
           /\ Posts(t)
           /\ faults' \in 0..MaxFaults /\ faults' > 0
           /\ UNCHANGED <<topology, weblocks, now, next, rows, pending, cookie, lock, ends, log>>
<1>1. TypeOK /\ faults \in 0..MaxFaults
  BY DEF Core, TypeOK
<1> QED
  BY <1>1, EffectPosts DEF LockFails, Fault, Trouble

\* The effect of a reply that is delivered, field by field.
LEMMA DeliverEffect ==
    ASSUME Core, NEW t \in Tabs, Deliver(t)
    PROVE  /\ req[t].pc = "reply"
           /\ req[t].set \in 0..Phantom /\ req[t].set < next /\ cookie' = req[t].set
           /\ Clears(t) /\ Sets(t, "idle")
           /\ lock' = IF lock = t THEN NoTab ELSE lock
           /\ UNCHANGED <<topology, weblocks, now, next, rows, pending, faults, ends, log>>
<1>1. TypeOK /\ t \in Actors /\ tab \in [Tabs -> {"idle", "queued", "posted"}] /\ req[t].pc = "reply"
  BY DEF Core, TypeOK, Deliver, At
<1>2. req[t].set \in 0..Phantom /\ req[t].set < next /\ req[t].set # Keep
  <2>1. req[t].set < next /\ req[t].set # Keep
    BY <1>1 DEF Core, RequestsOK
  <2>2. req[t].set \in 0..Phantom
    BY <1>1 DEF TypeOK, Request
  <2> QED
    BY <2>1, <2>2
<1>3. Clears(t)
  BY <1>1, EffectClears DEF Deliver
<1> QED
  BY <1>1, <1>2, <1>3 DEF Deliver, Release, Sets

\* The effect of a reply that is lost, field by field.
LEMMA LoseEffect ==
    ASSUME Core, NEW a \in Actors, Lose(a)
    PROVE  /\ req[a].pc # "idle"
           /\ Clears(a)
           /\ tab' \in [Tabs -> {"idle", "queued", "posted"}]
           /\ lock' \in Tabs \cup {NoTab}
           /\ faults' \in 0..MaxFaults /\ faults' > 0
           /\ UNCHANGED <<topology, weblocks, now, next, rows, pending, cookie, ends, log>>
<1>1. TypeOK /\ faults \in 0..MaxFaults /\ lock \in Tabs \cup {NoTab}
      /\ tab \in [Tabs -> {"idle", "queued", "posted"}]
  BY DEF Core, TypeOK
<1>2. Clears(a)
  BY <1>1, EffectClears DEF Lose
<1>3. tab' \in [Tabs -> {"idle", "queued", "posted"}]
  BY <1>1 DEF Lose
<1> QED
  BY <1>1, <1>2, <1>3 DEF Lose, Release, Fault, Trouble

\* The effect of an older value presented, field by field.
LEMMA PresentEffect ==
    ASSUME Core, NEW c \in Copies, NEW tok \in Tok, Present(c, tok)
    PROVE  /\ tok < next
           /\ \/ Becomes(c, "attempt", tok, 0, Keep)
              \/ topology = "standalone" /\ Becomes(c, "gate", tok, 0, Keep)
           /\ faults' \in 0..MaxFaults /\ faults' > 0
           /\ UNCHANGED <<topology, weblocks, now, next, rows, pending, cookie, lock, tab, ends, log>>
<1>1. TypeOK /\ faults \in 0..MaxFaults /\ c \in Actors /\ tok \in 0..Phantom /\ tok < next
  BY DEF Core, TypeOK, Present
<1>2. \A v \in 0..Phantom : req' = [req EXCEPT ![c] = Presenting(v)] =>
           \/ Becomes(c, "attempt", v, 0, Keep)
           \/ topology = "standalone" /\ Becomes(c, "gate", v, 0, Keep)
  BY <1>1, EffectPresents
<1>3. \/ Becomes(c, "attempt", tok, 0, Keep)
      \/ topology = "standalone" /\ Becomes(c, "gate", tok, 0, Keep)
  BY <1>1, <1>2 DEF Present
<1>4. faults' \in 0..MaxFaults /\ faults' > 0
  BY <1>1 DEF Present, Fault, Trouble
<1> QED
  BY <1>1, <1>3, <1>4 DEF Present, browser

\* The effect of its answer, field by field.
LEMMA CopyAnsweredEffect ==
    ASSUME Core, NEW c \in Copies, CopyAnswered(c)
    PROVE  /\ req[c].pc = "reply"
           /\ Clears(c)
           /\ UNCHANGED <<topology, weblocks, now, next, rows, pending, cookie, lock, tab, faults, ends, log>>
<1>1. TypeOK /\ c \in Actors
  BY DEF Core
<1> QED
  BY <1>1, EffectClears DEF CopyAnswered, At, browser

\* The effect of the deletion flag, field by field.
LEMMA MarkDeletionPendingEffect ==
    ASSUME Core, MarkDeletionPending
    PROVE  /\ pending' \in BOOLEAN /\ ends' \in 0..MaxEnds
           /\ UNCHANGED <<topology, weblocks, now, next, rows, req, cookie, lock, tab, faults, log>>
<1>1. ends \in 0..MaxEnds
  BY DEF Core, TypeOK
<1> QED
  BY <1>1 DEF MarkDeletionPending, End, Trouble, browser

\* The effect of the clock, field by field.
LEMMA TickEffect ==
    ASSUME Core, Tick
    PROVE  /\ now' = now + 1 /\ now' \in 0..MaxTime /\ \A a \in Actors : req[a].pc = "idle"
           /\ UNCHANGED <<topology, weblocks, next, rows, pending, req, cookie, lock, tab, faults, ends, log>>
<1>1. now \in 0..MaxTime
  BY DEF Core, TypeOK
<1> QED
  BY <1>1 DEF Tick, At, browser

\* The effect of the cleanup of expired rows, field by field.
LEMMA CleanupExpiredEffect ==
    ASSUME Core, CleanupExpired
    PROVE  /\ Removes({t \in LiveRows : rows[t].exp <= now})
           /\ UNCHANGED <<topology, weblocks, now, next, pending, req, cookie, lock, tab, faults, ends, log>>
<1>1. TypeOK
  BY DEF Core
<1> QED
  BY <1>1, EffectRemoves DEF CleanupExpired, browser

\* The effect of the cleanup of consumed rows, field by field.
LEMMA CleanupConsumedEffect ==
    ASSUME Core, CleanupConsumed
    PROVE  /\ Removes({t \in Tok : rows[t].st = "used" /\ rows[t].usedAt + ReuseWindow <= now})
           /\ log' \in [Log -> SUBSET (0..MaxTok)]
           /\ \A k \in Log : log[k] \subseteq log'[k] /\ (\A f \in log'[k] : f < next)
           /\ log'["recorded"] = log["recorded"] /\ log'["answered"] = log["answered"]
           /\ log'["atExpiry"] = log["atExpiry"] /\ log'["closed"] = log["closed"]
           /\ \A a \in Actors :
                /\ req[a].pc \in {"reuse", "record"}
                /\ req[a].tok \in Tok
                /\ rows[req[a].tok].st = "used" /\ rows[req[a].tok].usedAt + ReuseWindow <= now
                => Fam(req[a].tok) \in log'["interfered"]
           /\ UNCHANGED <<topology, weblocks, now, next, pending, req, cookie, lock, tab, faults, ends>>
<1> DEFINE gone == {t \in Tok : rows[t].st = "used" /\ rows[t].usedAt + ReuseWindow <= now}
           i == ReplaysInFlight \cap {Fam(t) : t \in gone}
<1>0. TypeOK /\ {"closed", "interfered", "recorded", "answered", "atExpiry"} = Log
  BY DEF Core, Log
<1>1. Removes(gone)
  <2>1. rows' = Without(gone)
    BY DEF CleanupConsumed
  <2> HIDE DEF gone
  <2> QED BY <1>0, <2>1, EffectRemoves
<1>2. i \subseteq 0..MaxTok /\ \A f \in i : f < next
  BY StoredIsMinted DEF Stored
<1>3. log \in [Log -> SUBSET (0..MaxTok)] /\ \A k \in Log : \A f \in log[k] : f < next
  BY DEF Core, TypeOK, RequestsOK
<1>4. log' = [log EXCEPT !["interfered"] = @ \cup i]
  BY DEF CleanupConsumed
<1>5. \A a \in Actors : req[a].pc \in {"reuse", "record"} /\ req[a].tok \in gone => Fam(req[a].tok) \in i
  BY DEF ReplaysInFlight
<1>6. /\ log' \in [Log -> SUBSET (0..MaxTok)] /\ \A k \in Log : (\A f \in log'[k] : f < next)
      /\ \A k \in Log : log'[k] = IF k = "interfered" THEN log[k] \cup i ELSE log[k]
  <2> HIDE DEF i
  <2> QED BY <1>0, <1>2, <1>3, <1>4, LogAdds
<1>7. /\ \A k \in Log : log[k] \subseteq log'[k]
      /\ log'["recorded"] = log["recorded"] /\ log'["answered"] = log["answered"]
      /\ log'["atExpiry"] = log["atExpiry"] /\ log'["closed"] = log["closed"]
      /\ i \subseteq log'["interfered"]
  <2> HIDE DEF i
  <2> QED BY <1>0, <1>6
<1>8. UNCHANGED <<topology, weblocks, now, next, pending, req, cookie, lock, tab, faults, ends>>
  BY DEF CleanupConsumed, browser
<1>9. \A a \in Actors :
                /\ req[a].pc \in {"reuse", "record"}
                /\ req[a].tok \in Tok
                /\ rows[req[a].tok].st = "used" /\ rows[req[a].tok].usedAt + ReuseWindow <= now
                => Fam(req[a].tok) \in log'["interfered"]
  <2> HIDE DEF i
  <2> QED BY <1>5, <1>7
<1> HIDE DEF i
<1> QED
  BY <1>1, <1>6, <1>7, <1>8, <1>9

-----------------------------------------------------------------------------
(* What the other parts rest on: types, and every value in flight is that of a minted token.*)

(* Core in three parts, each with what preserves it. *)
RowsOK ==
    /\ rows \in [Tok -> Row] /\ next \in 1..(MaxTok + 1)
    /\ \A t \in Tok : rows[t].st = "unminted" <=> t >= next
    /\ FamilyIsNamed

ReqOK(a) ==
    /\ req[a].new < next
    /\ req[a].set < next \/ req[a].set = Keep
    /\ req[a].pc = "reply" => req[a].set # Keep
    /\ req[a].tok < next
    /\ req[a].pc \in Presents => req[a].tok # 0
    /\ req[a].pc \in {"gate", "claim", "create"} => topology = "standalone"

ReqsOK == req \in [Actors -> Request] /\ \A a \in Actors : ReqOK(a)

RestOK ==
    /\ topology \in Topologies /\ weblocks \in BOOLEAN /\ now \in 0..MaxTime /\ pending \in BOOLEAN
    /\ cookie \in 0..Phantom /\ cookie < next /\ lock \in Tabs \cup {NoTab}
    /\ faults \in 0..MaxFaults /\ ends \in 0..MaxEnds
    /\ tab \in [Tabs -> {"idle", "queued", "posted"}]
    /\ log \in [Log -> SUBSET (0..MaxTok)] /\ \A k \in Log : \A f \in log[k] : f < next

\* Core is the conjunction of its parts.
LEMMA CoreParts == Core <=> RowsOK /\ ReqsOK /\ RestOK
<1>1. Core => RowsOK /\ ReqsOK /\ RestOK
  <2> SUFFICES ASSUME Core PROVE RowsOK /\ ReqsOK /\ RestOK
    OBVIOUS
  <2>1. RowsOK
    BY DEF Core, TypeOK, RowsOK
  <2>2. ReqsOK
    BY DEF Core, TypeOK, RequestsOK, ReqsOK, ReqOK
  <2>3. RestOK
    BY DEF Core, TypeOK, RequestsOK, RestOK
  <2> QED
    BY <2>1, <2>2, <2>3
<1>2. RowsOK /\ ReqsOK /\ RestOK => Core
  <2> SUFFICES ASSUME RowsOK, ReqsOK, RestOK PROVE Core
    OBVIOUS
  <2>3. TypeOK
    BY DEF RowsOK, ReqsOK, RestOK, TypeOK
  <2>4. RequestsOK
    BY DEF ReqsOK, ReqOK, RestOK, RequestsOK
  <2> QED
    BY <2>3, <2>4 DEF RowsOK, Core
<1> QED
  BY <1>1, <1>2

\* Rows that are left alone stay well formed.
LEMMA RowsSame ==
    ASSUME RowsOK, UNCHANGED <<rows, next>> PROVE RowsOK'
BY DEF RowsOK, FamilyIsNamed, Fam

\* Rows stay well formed when some are deleted.
LEMMA RowsRemoved ==
    ASSUME RowsOK, UNCHANGED next, NEW gone, Removes(gone) PROVE RowsOK'
<1>1. rows' \in [Tok -> Row] /\ next' \in 1..(MaxTok + 1)
  BY DEF RowsOK, Removes
<1>2. FamilyIsNamed'
  BY DEF RowsOK, Removes, FamilyIsNamed, Fam
<1>3. \A t \in Tok : rows'[t].st = "unminted" <=> t >= next'
  BY DEF RowsOK, Removes, Stored
<1> QED
  BY <1>1, <1>2, <1>3 DEF RowsOK

\* Rows stay well formed when a live one is spent.
LEMMA RowsSpent ==
    ASSUME RowsOK, UNCHANGED next, NEW k \in Tok, Spends(k), rows[k].st = "live" PROVE RowsOK'
<1>1. rows' \in [Tok -> Row] /\ next' \in 1..(MaxTok + 1)
  BY DEF RowsOK, Spends
<1>2. FamilyIsNamed'
  BY DEF RowsOK, Spends, FamilyIsNamed, Fam
<1>3. \A t \in Tok : rows'[t].st = "unminted" <=> t >= next'
  BY DEF RowsOK, Spends
<1> QED
  BY <1>1, <1>2, <1>3 DEF RowsOK

\* Rows stay well formed when the next token is minted.
LEMMA RowsMinted ==
    ASSUME RowsOK, NEW f \in Nat, Mints(f), f \in 1..next PROVE RowsOK'
<1>1. rows' \in [Tok -> Row] /\ next' \in 1..(MaxTok + 1)
  BY DEF RowsOK, Mints
<1>2. FamilyIsNamed'
  BY DEF RowsOK, Mints, FamilyIsNamed, Fam
<1>3. \A t \in Tok : rows'[t].st = "unminted" <=> t >= next'
  BY DEF RowsOK, Mints
<1> QED
  BY <1>1, <1>2, <1>3 DEF RowsOK

\* Rows stay well formed when a live one is rotated.
LEMMA RowsRotated ==
    ASSUME RowsOK, NEW k \in Tok, Rotates(k), rows[k].st = "live" PROVE RowsOK'
<1>1. rows' \in [Tok -> Row] /\ next' \in 1..(MaxTok + 1) /\ next \in Tok /\ next' = next + 1
  BY DEF RowsOK, Rotates
<1>2. k < next
  BY DEF RowsOK
<1>3. Fam(k) \in 1..k
  BY <1>2 DEF RowsOK, FamilyIsNamed
<1>4. FamilyIsNamed'
  <2> SUFFICES ASSUME NEW t \in Tok, t < next' PROVE rows'[t].fam \in 1..t
    BY DEF FamilyIsNamed, Fam
  <2>1. CASE t = next
    BY <1>1, <1>2, <1>3, <2>1 DEF Rotates
  <2>2. CASE t # next
    BY <1>1, <2>2 DEF Rotates, RowsOK, FamilyIsNamed, Fam
  <2> QED
    BY <2>1, <2>2
<1>5. \A t \in Tok : rows'[t].st = "unminted" <=> t >= next'
  BY <1>1, <1>2 DEF RowsOK, Rotates
<1> QED
  BY <1>1, <1>4, <1>5 DEF RowsOK

\* Requests that are left alone stay well formed.
LEMMA RequestsSame ==
    ASSUME ReqsOK, UNCHANGED <<req, next, topology>> PROVE ReqsOK'
BY DEF ReqsOK, ReqOK

\* Requests stay well formed when one of them changes and presents, holds or carries minted values.
LEMMA RequestsChange ==
    ASSUME RowsOK, ReqsOK, UNCHANGED topology, next' = next \/ next' = next + 1,
           NEW a \in Actors, NEW p, NEW tok \in Nat, NEW n \in Nat, NEW v \in Nat, Becomes(a, p, tok, n, v),
           n < next', v < next' \/ v = Keep, p = "reply" => v # Keep, tok < next',
           p \in Presents => tok # 0, p \in {"gate", "claim", "create"} => topology = "standalone"
    PROVE  ReqsOK'
<1>1. next \in Nat /\ next' \in Nat /\ next <= next'
  BY DEF RowsOK
<1>2. ReqOK(a)'
  <2>1. req'[a].pc = p /\ req'[a].tok = tok /\ req'[a].new = n /\ req'[a].set = v
    BY DEF Becomes
  <2>3. topology' = topology
    OBVIOUS
  <2> HIDE DEF Keep
  <2> QED
    BY <2>1, <2>3 DEF ReqOK
<1>3. ASSUME NEW b \in Actors, b # a PROVE ReqOK(b)'
  <2>1. req'[b] = req[b] /\ req[b] \in Request /\ ReqOK(b)
    BY <1>3 DEF Becomes, ReqsOK
  <2>2. req[b].new \in Nat /\ req[b].set \in Nat /\ req[b].tok \in Nat
    BY <2>1 DEF Request
  <2> QED
    BY <1>1, <2>1, <2>2 DEF ReqOK
<1>4. req' \in [Actors -> Request]
  BY DEF Becomes
<1> QED
  BY <1>2, <1>3, <1>4 DEF ReqsOK

\* Requests stay well formed when a handler moves on.
LEMMA RequestsMoved ==
    ASSUME RowsOK, ReqsOK, UNCHANGED <<topology, weblocks, next>>, NEW a \in Actors, NEW p, Moves(a, p), p # "reply",
           p \in Presents => req[a].tok # 0, p \in {"gate", "claim", "create"} => topology = "standalone"
    PROVE  ReqsOK'
<1>1. req[a] \in Request /\ ReqOK(a)
  BY DEF ReqsOK
<1>2. req[a].new \in Nat /\ req[a].set \in Nat /\ req[a].tok \in Nat
  BY <1>1 DEF Request
<1>3. \A tok, n, v \in Nat : Becomes(a, p, tok, n, v) /\ n < next' /\ (v < next' \/ v = Keep) /\ tok < next'
                               /\ (p \in Presents => tok # 0)
         => ReqsOK'
  BY RequestsChange
<1>4. req[a].new < next' /\ (req[a].set < next' \/ req[a].set = Keep) /\ req[a].tok < next'
  BY <1>1 DEF ReqOK
<1> QED
  BY <1>2, <1>3, <1>4 DEF Moves

\* Requests stay well formed when a handler answers with a minted value or none.
LEMMA RequestsAnswered ==
    ASSUME RowsOK, ReqsOK, UNCHANGED topology, next' = next \/ next' = next + 1,
           NEW a \in Actors, NEW v \in 0..MaxTok, Answers(a, v), v < next'
    PROVE  ReqsOK'
<1>1. next' \in Nat /\ next' > 0 /\ "reply" \notin Presents /\ v # Keep
  BY PCsUsed DEF RowsOK
<1>2. Becomes(a, "reply", 0, 0, v)
  BY DEF Answers
<1> QED
  BY <1>1, <1>2, RequestsChange

\* Requests stay well formed when one ends.
LEMMA RequestsCleared ==
    ASSUME RowsOK, ReqsOK, UNCHANGED <<topology, weblocks, next>>, NEW a \in Actors, Clears(a)
    PROVE  ReqsOK'
<1>1. next' \in Nat /\ next' > 0 /\ "idle" \notin Presents /\ Keep \in Nat
  BY DEF RowsOK, Presents
<1>2. Becomes(a, "idle", 0, 0, Keep)
  BY DEF Clears
<1> QED
  BY <1>1, <1>2, RequestsChange

\* Requests stay well formed when a refresh begins with a minted value.
LEMMA RequestsPosted ==
    ASSUME RowsOK, ReqsOK, UNCHANGED <<topology, weblocks, next>>, NEW a \in Actors, NEW v \in Nat, v # 0, v < next,
           \/ Becomes(a, "attempt", v, 0, Keep)
           \/ topology = "standalone" /\ Becomes(a, "gate", v, 0, Keep)
    PROVE  ReqsOK'
<1>1. next' \in Nat /\ next' > 0 /\ Keep \in Nat
  BY DEF RowsOK
<1>2. CASE Becomes(a, "attempt", v, 0, Keep)
  BY <1>1, <1>2, RequestsChange
<1>3. CASE topology = "standalone" /\ Becomes(a, "gate", v, 0, Keep)
  BY <1>1, <1>3, RequestsChange
<1> QED
  BY <1>2, <1>3

\* The remaining variables stay well formed when they are left alone.
LEMMA RestSame ==
    ASSUME RowsOK, RestOK, next' = next \/ next' = next + 1,
           UNCHANGED <<topology, weblocks, now, pending, cookie, lock, tab, faults, ends, log>>
    PROVE  RestOK'
<1>1. next \in Nat /\ next' \in Nat /\ next <= next'
  BY DEF RowsOK
<1>2. cookie \in Nat /\ \A k \in Log : log[k] \subseteq Nat
  BY DEF RestOK
<1> QED
  BY <1>1, <1>2 DEF RestOK

\* Every step of the refresh handler preserves Core.
LEMMA RefreshStepCore ==
    ASSUME Core, NEW a \in Actors, RefreshStep(a)
    PROVE  RowsOK' /\ ReqsOK' /\ RestOK'
<1>0. RowsOK /\ ReqsOK /\ RestOK
  BY CoreParts
<1>1. next \in Nat /\ next > 0 /\ 0 \in 0..MaxTok
  BY <1>0 DEF RowsOK
<1>2. req[a].pc \in Presents => /\ req[a].tok \in Tok /\ req[a].tok # 0 /\ req[a].tok < next
                                /\ Fam(req[a].tok) \in Nat /\ Fam(req[a].tok) \in 1..next
                                /\ Fam(req[a].tok) < next /\ Fam(req[a].tok) \in 0..MaxTok
  BY <1>1, Presented
<1>3. /\ \A v \in 0..MaxTok : /\ UNCHANGED topology /\ (next' = next \/ next' = next + 1)
                        /\ Answers(a, v) /\ v < next' => ReqsOK'
      /\ \A p : /\ UNCHANGED <<topology, weblocks, next>> /\ Moves(a, p) /\ p # "reply" /\ req[a].tok # 0
                /\ p \in {"gate", "claim", "create"} => topology = "standalone"
                => ReqsOK'
  BY <1>0, RequestsAnswered, RequestsMoved
<1>4. CASE TxnAttempt(a)
  BY <1>0, <1>1, <1>2, <1>3, <1>4, TxnAttemptEffect, PCsUsed, RowsSame, RestSame
<1>5. CASE TxnAbort(a)
  BY <1>0, <1>1, <1>2, <1>3, <1>5, TxnAbortEffect, PCsUsed, RowsSame, RestSame
<1>6. CASE Gate(a)
  <2>1. req[a].pc = "gate" => topology = "standalone"
    BY <1>0 DEF ReqsOK, ReqOK
  <2> QED
    BY <1>0, <1>1, <1>2, <1>3, <1>6, <2>1, GateEffect, PCsUsed, RowsSame, RestSame
<1>7. CASE Claim(a)
  <2>1. req[a].pc = "claim" => topology = "standalone"
    BY <1>0 DEF ReqsOK, ReqOK
  <2>2. rows' = rows => RowsOK'
    BY <1>0, <1>7, RowsSame, ClaimEffect
  <2>3. Claimable(req[a].tok) /\ Spends(req[a].tok) => RowsOK'
    BY <1>0, <1>2, <1>7, RowsSpent, ClaimEffect, PCsUsed DEF Claimable
  <2> QED
    BY <1>0, <1>1, <1>2, <1>3, <1>7, <2>1, <2>2, <2>3, ClaimEffect, PCsUsed, RestSame
<1>8. CASE Create(a)
  <2>1. RowsOK'
    BY <1>0, <1>2, <1>8, CreateEffect, PCsUsed, RowsMinted
  <2> QED
    BY <1>0, <1>1, <1>2, <1>3, <1>8, <2>1, CreateEffect, PCsUsed, RestSame DEF Mints
<1>9. CASE CreateFails(a)
  BY <1>0, <1>1, <1>2, <1>3, <1>9, CreateFailsEffect, PCsUsed, RowsSame, RestSame
<1>10. CASE TxnCommit(a)
  <2>1. RowsOK'
    BY <1>0, <1>2, <1>10, TxnCommitEffect, PCsUsed, RowsRotated
  <2> QED
    BY <1>0, <1>1, <1>2, <1>3, <1>10, <2>1, TxnCommitEffect, PCsUsed, RestSame DEF Rotates
<1>11. CASE LookupMissing(a)
  BY <1>0, <1>1, <1>2, <1>3, <1>11, LookupMissingEffect, PCsUsed, RowsSame, RestSame
<1>12. CASE LookupExpired(a)
  <2>1. RowsOK'
    BY <1>0, <1>12, LookupExpiredEffect, RowsRemoved
  <2> QED
    BY <1>0, <1>1, <1>2, <1>3, <1>12, <2>1, LookupExpiredEffect, PCsUsed, RestSame
<1>13. CASE LookupReplay(a)
  <2>1. RowsOK' /\ ReqsOK'
    BY <1>0, <1>2, <1>3, <1>13, LookupReplayEffect, PCsUsed, RowsSame
  <2>2. RestOK'
    BY <1>0, <1>2, <1>13, LookupReplayEffect, PCsUsed DEF RestOK, Log
  <2> QED
    BY <2>1, <2>2
<1>14. CASE RevokeLive(a)
  <2>1. RowsOK' /\ ReqsOK'
    BY <1>0, <1>2, <1>3, <1>14, RevokeLiveEffect, PCsUsed, RowsRemoved
  <2>2. RestOK'
    <3>1. /\ UNCHANGED <<topology, weblocks, now, next, pending, cookie, lock, tab, faults, ends>>
          /\ log' = log \/ log' = [log EXCEPT !["closed"] = @ \cup {Fam(req[a].tok)}]
          /\ req[a].pc \in Presents /\ "closed" \in Log
      BY <1>0, <1>14, RevokeLiveEffect, PCsUsed DEF Log, RestOK
    <3>2. log' \in [Log -> SUBSET (0..MaxTok)] /\ \A k \in Log : \A f \in log'[k] : f < next
      BY <1>0, <1>2, <3>1 DEF RestOK
    <3> QED
      BY <1>0, <3>1, <3>2 DEF RestOK
  <2> QED
    BY <2>1, <2>2
<1>15. CASE RecordReuse(a)
  <2>1. RowsOK' /\ ReqsOK'
    BY <1>0, <1>2, <1>3, <1>15, RecordReuseEffect, PCsUsed, RowsRemoved
  <2>2. RestOK'
    <3>1. /\ UNCHANGED <<topology, weblocks, now, next, pending, cookie, lock, tab, faults, ends>>
          /\ log' = log \/ log' = [log EXCEPT !["recorded"] = @ \cup {Fam(req[a].tok)}]
          /\ req[a].pc \in Presents /\ "recorded" \in Log
      BY <1>0, <1>15, RecordReuseEffect, PCsUsed DEF Log, RestOK
    <3>2. log' \in [Log -> SUBSET (0..MaxTok)] /\ \A k \in Log : \A f \in log'[k] : f < next
      BY <1>0, <1>2, <3>1 DEF RestOK
    <3> QED
      BY <1>0, <3>1, <3>2 DEF RestOK
  <2> QED
    BY <2>1, <2>2
<1>16. CASE SweepFamily(a)
  <2>1. RowsOK' /\ ReqsOK'
    BY <1>0, <1>1, <1>2, <1>3, <1>16, SweepFamilyEffect, PCsUsed, RowsRemoved
  <2>2. RestOK'
    BY <1>0, <1>2, <1>16, SweepFamilyEffect, PCsUsed DEF RestOK, Log
  <2> QED
    BY <2>1, <2>2
<1> QED
  BY <1>4, <1>5, <1>6, <1>7, <1>8, <1>9, <1>10, <1>11, <1>12, <1>13, <1>14, <1>15, <1>16 DEF RefreshStep

\* The end of sessions preserves the rows and the history.
LEMMA TakesCore ==
    ASSUME RowsOK, RestOK, NEW gone, Takes(gone),
           UNCHANGED <<topology, weblocks, now, next, pending, cookie, lock, tab, faults>>,
           ends' \in 0..MaxEnds
    PROVE  RowsOK' /\ RestOK'
<1>1. RowsOK'
  BY RowsRemoved DEF Takes
<1>2. RestOK'
  BY DEF Takes, RestOK
<1> QED
  BY <1>1, <1>2

\* Every step of a tab and of its requests preserves Core.
LEMMA TabStepCore ==
    ASSUME Core, NEW t \in Tabs, TabStep(t)
    PROVE  RowsOK' /\ ReqsOK' /\ RestOK'
<1>0. RowsOK /\ ReqsOK /\ RestOK /\ t \in Actors
  BY CoreParts
<1>1. next \in Nat /\ next > 0 /\ 0 \in 0..MaxTok /\ Keep \in Nat /\ cookie \in Nat /\ cookie < next /\ ends \in 0..MaxEnds
  BY <1>0 DEF RowsOK, RestOK
<1>2. /\ req[t].new \in 0..MaxTok /\ req[t].new < next
  <2>1. req[t] \in Request /\ ReqOK(t)
    BY <1>0 DEF ReqsOK
  <2> QED
    BY <2>1 DEF Request, ReqOK
<1>3. Posts(t) /\ UNCHANGED <<topology, weblocks, next>> => ReqsOK'
  BY <1>0, <1>1, RequestsPosted, RequestsSame DEF Posts
<1>4. CASE Queue(t)
  <2>1. RowsOK' /\ ReqsOK'
    BY <1>0, <1>4, QueueEffect, RowsSame, RequestsSame
  <2> QED
    BY <1>0, <1>4, <2>1, QueueEffect DEF RestOK, Sets
<1>5. CASE Granted(t)
  <2>1. RowsOK' /\ ReqsOK'
    BY <1>0, <1>3, <1>5, GrantedEffect, RowsSame
  <2>2. tab' \in [Tabs -> {"idle", "queued", "posted"}] /\ lock' \in Tabs \cup {NoTab}
    BY <1>5, GrantedEffect DEF Posts, Sets
  <2>3. RestOK'
    BY <1>0, <1>5, <2>2, GrantedEffect DEF RestOK
  <2> QED
    BY <2>1, <2>3
<1>6. CASE LockFails(t)
  <2>1. RowsOK' /\ ReqsOK'
    BY <1>0, <1>3, <1>6, LockFailsEffect, RowsSame
  <2>2. tab' \in [Tabs -> {"idle", "queued", "posted"}]
    BY <1>6, LockFailsEffect DEF Posts, Sets
  <2>3. RestOK'
    BY <1>0, <1>6, <2>2, LockFailsEffect DEF RestOK
  <2> QED
    BY <2>1, <2>3
<1>6a. CASE Unserialized(t)
  <2>1. RowsOK' /\ ReqsOK'
    BY <1>0, <1>3, <1>6a, UnserializedEffect, RowsSame
  <2>2. tab' \in [Tabs -> {"idle", "queued", "posted"}]
    BY <1>6a, UnserializedEffect DEF Posts, Sets
  <2>3. RestOK'
    BY <1>0, <1>6a, <2>2, UnserializedEffect DEF RestOK
  <2> QED
    BY <2>1, <2>3
<1>7. CASE Deliver(t)
  <2>1. RowsOK' /\ ReqsOK'
    BY <1>0, <1>7, DeliverEffect, RowsSame, RequestsCleared
  <2>2. tab' \in [Tabs -> {"idle", "queued", "posted"}] /\ lock' \in Tabs \cup {NoTab}
        /\ cookie' \in 0..Phantom /\ cookie' < next'
    BY <1>0, <1>7, DeliverEffect DEF Sets, RestOK
  <2>3. RestOK'
    BY <1>0, <1>7, <2>2, DeliverEffect DEF RestOK
  <2> QED
    BY <2>1, <2>3
<1>8. CASE Login(t)
  <2>1. Mints(next) /\ next' = next + 1 /\ next \in Nat /\ next \in 1..next
    BY <1>1, <1>8, LoginEffect DEF Mints
  <2>2. RowsOK'
    BY <1>0, <2>1, RowsMinted
  <2>3. ReqsOK'
    <3>1. /\ Becomes(t, "capFind", 0, next, Keep) /\ next < next' /\ 0 < next' /\ topology' = topology
          /\ "capFind" \notin Presents
      BY <1>1, <1>8, <2>1, LoginEffect DEF Presents
    <3> HIDE DEF Keep
    <3> QED
      BY <1>0, <1>1, <2>1, <3>1, RequestsChange
  <2> QED
    BY <1>0, <1>8, <2>1, <2>2, <2>3, LoginEffect, RestSame
<1>9. CASE CapFind(t)
  <2>1. Answers(t, req[t].new) => ReqsOK'
    BY <1>0, <1>2, <1>9, CapFindEffect, RequestsAnswered
  <2>2. Moves(t, "capDelete") => ReqsOK'
    <3>1. "capDelete" \notin Presents
      BY DEF Presents
    <3> QED
      BY <1>0, <1>9, <3>1, CapFindEffect, RequestsMoved
  <2> QED
    BY <1>0, <1>9, <2>1, <2>2, CapFindEffect, RowsSame, RestSame
<1>10. CASE CapDelete(t)
  <2>1. RowsOK' /\ RestOK'
    BY <1>0, <1>1, <1>10, CapDeleteEffect, TakesCore
  <2> QED
    BY <1>0, <1>2, <1>10, <2>1, CapDeleteEffect, RequestsAnswered
<1>11. CASE SendLogout(t)
  <2>1. /\ Becomes(t, "logout", cookie, 0, Keep) /\ 0 < next' /\ topology' = topology
        /\ "logout" \notin Presents /\ next' = next
    BY <1>1, <1>11, SendLogoutEffect DEF Presents
  <2>2. ReqsOK'
    <3> HIDE DEF Keep
    <3> QED
      BY <1>0, <1>1, <2>1, RequestsChange
  <2>3. RestOK'
    BY <1>0, <1>11, SendLogoutEffect DEF RestOK
  <2> QED
    BY <1>0, <1>11, <2>2, <2>3, SendLogoutEffect, RowsSame
<1>12. CASE Logout(t)
  <2>1. RowsOK' /\ RestOK'
    BY <1>0, <1>1, <1>12, LogoutEffect, TakesCore
  <2> QED
    BY <1>0, <1>1, <1>12, <2>1, LogoutEffect, RequestsAnswered
<1>13. CASE LogoutAll(t)
  BY <1>0, <1>13, EndEffect, TakesCore, RequestsSame
<1> QED
  BY <1>4, <1>5, <1>6, <1>6a, <1>7, <1>8, <1>9, <1>10, <1>11, <1>12, <1>13 DEF TabStep

\* Every step preserves the types and the bounds on the values in flight.
LEMMA CorePreserved ==
    ASSUME Core, [Next]_vars PROVE Core'
<1>0. RowsOK /\ ReqsOK /\ RestOK
  BY CoreParts
<1>1. (RowsOK /\ ReqsOK /\ RestOK)' => Core'
  BY CoreParts, PTL
<1>2. CASE \E a \in Actors : RefreshStep(a)
  BY <1>1, <1>2, RefreshStepCore
<1>3. ASSUME NEW a \in Actors, Lose(a) PROVE Core'
  <2>1. RowsOK' /\ ReqsOK'
    BY <1>0, <1>3, LoseEffect, RowsSame, RequestsCleared
  <2>2. RestOK'
    BY <1>0, <1>3, LoseEffect DEF RestOK
  <2> QED
    BY <1>1, <2>1, <2>2
<1>4. CASE \E t \in Tabs : TabStep(t)
  BY <1>1, <1>4, TabStepCore
<1>5. ASSUME NEW c \in Copies, NEW tok \in Tok, Present(c, tok) PROVE Core'
  <2>1. c \in Actors /\ tok \in Nat /\ tok # 0
    OBVIOUS
  <2>2. RowsOK' /\ ReqsOK'
    BY <1>0, <1>5, <2>1, PresentEffect, RowsSame, RequestsPosted
  <2>3. RestOK'
    BY <1>0, <1>5, PresentEffect DEF RestOK
  <2> QED
    BY <1>1, <2>2, <2>3
<1>6. ASSUME NEW c \in Copies, CopyAnswered(c) PROVE Core'
  <2>1. c \in Actors
    OBVIOUS
  <2>2. RowsOK' /\ ReqsOK' /\ RestOK'
    BY <1>0, <1>6, <2>1, CopyAnsweredEffect, RowsSame, RequestsCleared, RestSame
  <2> QED
    BY <1>1, <2>2
<1>7. CASE EndEverySession \/ \E x \in Tok : RevokeSession(x)
  BY <1>0, <1>1, <1>7, EndEffect, TakesCore, RequestsSame
<1>8. CASE MarkDeletionPending
  <2>1. RestOK'
    BY <1>0, <1>8, MarkDeletionPendingEffect DEF RestOK
  <2> QED
    BY <1>0, <1>1, <1>8, <2>1, MarkDeletionPendingEffect, RowsSame, RequestsSame
<1>9. CASE Tick
  <2>1. RestOK'
    BY <1>0, <1>9, TickEffect DEF RestOK
  <2> QED
    BY <1>0, <1>1, <1>9, <2>1, TickEffect, RowsSame, RequestsSame
<1>10. CASE CleanupExpired
  <2>1. RowsOK'
    BY <1>0, <1>10, CleanupExpiredEffect, RowsRemoved
  <2> QED
    BY <1>0, <1>1, <1>10, <2>1, CleanupExpiredEffect, RequestsSame, RestSame
<1>11. CASE CleanupConsumed
  <2>1. RowsOK'
    BY <1>0, <1>11, CleanupConsumedEffect, RowsRemoved
  <2>2. RestOK'
    BY <1>0, <1>11, CleanupConsumedEffect DEF RestOK
  <2> QED
    BY <1>0, <1>1, <1>11, <2>1, <2>2, CleanupConsumedEffect, RequestsSame
<1>12. CASE UNCHANGED vars
  BY <1>0, <1>1, <1>12, RowsSame, RequestsSame, RestSame DEF vars
<1> QED
  BY <1>2, <1>3, <1>4, <1>5, <1>6, <1>7, <1>8, <1>9, <1>10, <1>11, <1>12 DEF Next

-----------------------------------------------------------------------------
(* A family never forks.                                                   *)

\* Nobody comes to hold a claim or a replay.
Held == {"create", "reuse", "record", "sweep"}
NobodyNew ==
    \A a \in Actors : req'[a].pc \in Held => req[a].pc = req'[a].pc /\ req'[a].tok = req[a].tok

\* The database is only read.
Quiet ==
    /\ UNCHANGED <<topology, weblocks, next, rows, log>> /\ NobodyNew
    /\ now' = now \/ (now' = now + 1 /\ now' \in 0..MaxTime)
    /\ faults' = faults \/ faults' > 0

Ending == UNCHANGED <<topology, weblocks, now, next, faults>> /\ NobodyNew /\ \E gone \in SUBSET Tok : Takes(gone)

\* A claim that found its row.
Claims(a) ==
    /\ Claim(a) /\ req[a].pc = "claim"
    /\ Claimable(req[a].tok) /\ Spends(req[a].tok) /\ Moves(a, "create")
    /\ UNCHANGED <<topology, weblocks, now, next, pending, cookie, lock, tab, faults, ends, log>>

\* The changes of a request that give nobody a claim or a replay.
LEMMA NobodyNews ==
    /\ UNCHANGED req => NobodyNew
    /\ \A a \in Actors : \A p, tok, n, v : Becomes(a, p, tok, n, v) /\ p \notin Held => NobodyNew
    /\ \A a \in Actors : \A p : Moves(a, p) /\ p \notin Held => NobodyNew
    /\ \A a \in Actors : \A v : Answers(a, v) => NobodyNew
    /\ \A a \in Actors : Clears(a) => NobodyNew
    /\ \A t \in Tabs : Posts(t) => NobodyNew
<1>1. UNCHANGED req => NobodyNew
  BY DEF NobodyNew
<1>2. \A a \in Actors : \A p, tok, n, v : Becomes(a, p, tok, n, v) /\ p \notin Held => NobodyNew
  BY DEF NobodyNew, Becomes
<1>3. \A a \in Actors : \A p : Moves(a, p) /\ p \notin Held => NobodyNew
  BY <1>2 DEF Moves
<1>4. \A a \in Actors : \A v : Answers(a, v) => NobodyNew
  BY <1>2 DEF Answers, Held
<1>5. \A a \in Actors : Clears(a) => NobodyNew
  BY <1>2 DEF Clears, Held
<1>6. \A t \in Tabs : Posts(t) => NobodyNew
  BY <1>1, <1>2 DEF Posts, Held
<1> QED
  BY <1>1, <1>2, <1>3, <1>4, <1>5, <1>6

\* The steps at which a handler holds neither.
LEMMA NotHeld ==
    /\ "attempt" \notin Held /\ "commit" \notin Held /\ "gate" \notin Held /\ "claim" \notin Held
    /\ "lookup" \notin Held /\ "capFind" \notin Held /\ "capDelete" \notin Held /\ "logout" \notin Held
BY DEF Held

\* Every step reads the database only, ends sessions on purpose, or is one of the few that change rows.
LEMMA StepKinds ==
    ASSUME Core, [Next]_vars
    PROVE  \/ Quiet \/ Ending
           \/ \E a \in Actors :
                \/ TxnCommit(a) \/ Claims(a) \/ Create(a)
                \/ LookupExpired(a) \/ LookupReplay(a) \/ RevokeLive(a) \/ RecordReuse(a) \/ SweepFamily(a)
           \/ \E t \in Tabs : Login(t)
           \/ CleanupExpired \/ CleanupConsumed
<1> USE NobodyNews, NotHeld
<1>1. ASSUME NEW a \in Actors, RefreshStep(a)
      PROVE  \/ Quiet \/ TxnCommit(a) \/ Claims(a) \/ Create(a) \/ LookupExpired(a) \/ LookupReplay(a)
             \/ RevokeLive(a) \/ RecordReuse(a) \/ SweepFamily(a)
  <2>1. CASE TxnAttempt(a)
    BY <2>1, TxnAttemptEffect DEF Quiet
  <2>2. CASE TxnAbort(a)
    BY <2>2, TxnAbortEffect DEF Quiet
  <2>3. CASE Gate(a)
    BY <2>3, GateEffect DEF Quiet
  <2>4. CASE CreateFails(a)
    BY <2>4, CreateFailsEffect DEF Quiet
  <2>5. CASE LookupMissing(a)
    BY <2>5, LookupMissingEffect DEF Quiet
  <2>6. CASE Claim(a)
    BY <2>6, ClaimEffect DEF Quiet, Claims
  <2> QED
    BY <1>1, <2>1, <2>2, <2>3, <2>4, <2>5, <2>6 DEF RefreshStep
<1>2. ASSUME NEW t \in Tabs, TabStep(t) PROVE Quiet \/ Ending \/ Login(t)
  <2>0. t \in Actors
    OBVIOUS
  <2>1. CASE Queue(t)
    BY <2>1, QueueEffect DEF Quiet
  <2>2. CASE Granted(t)
    BY <2>2, GrantedEffect DEF Quiet
  <2>3. CASE LockFails(t)
    BY <2>3, LockFailsEffect DEF Quiet
  <2>3a. CASE Unserialized(t)
    BY <2>3a, UnserializedEffect DEF Quiet
  <2>4. CASE Deliver(t)
    BY <2>0, <2>4, DeliverEffect DEF Quiet
  <2>5. CASE CapFind(t)
    BY <2>0, <2>5, CapFindEffect DEF Quiet
  <2>6. CASE CapDelete(t)
    <3>1. req[t].evict \cap LiveRows \in SUBSET Tok
      BY DEF LiveRows
    <3> QED
      BY <2>0, <2>6, <3>1, CapDeleteEffect DEF Ending
  <2>7. CASE SendLogout(t)
    BY <2>0, <2>7, SendLogoutEffect DEF Quiet
  <2>8. CASE Logout(t)
    <3>1. {req[t].tok} \cap Tok \in SUBSET Tok
      OBVIOUS
    <3> QED
      BY <2>0, <2>8, <3>1, LogoutEffect DEF Ending
  <2>9. CASE LogoutAll(t)
    BY <2>9, EndEffect DEF Ending
  <2> QED
    BY <1>2, <2>1, <2>2, <2>3, <2>3a, <2>4, <2>5, <2>6, <2>7, <2>8, <2>9 DEF TabStep
<1>3. ASSUME NEW a \in Actors, Lose(a) PROVE Quiet
  BY <1>3, LoseEffect DEF Quiet
<1>4. ASSUME NEW c \in Copies, NEW tok \in Tok, Present(c, tok) PROVE Quiet
  <2>1. c \in Actors
    OBVIOUS
  <2> QED
    BY <1>4, <2>1, PresentEffect DEF Quiet
<1>5. ASSUME NEW c \in Copies, CopyAnswered(c) PROVE Quiet
  <2>1. c \in Actors
    OBVIOUS
  <2> QED
    BY <1>5, <2>1, CopyAnsweredEffect DEF Quiet
<1>6. CASE EndEverySession \/ \E x \in Tok : RevokeSession(x)
  BY <1>6, EndEffect DEF Ending
<1>7. CASE MarkDeletionPending
  BY <1>7, MarkDeletionPendingEffect DEF Quiet
<1>8. CASE Tick
  BY <1>8, TickEffect DEF Quiet
<1>9. CASE UNCHANGED vars
  BY <1>9 DEF Quiet, vars
<1> QED
  BY <1>1, <1>2, <1>3, <1>4, <1>5, <1>6, <1>7, <1>8, <1>9 DEF Next

\* A step that spends and mints no token: rows may go, and nobody comes to hold a claim.
RowsFade ==
    \A t \in Tok :
        /\ rows'[t].fam = rows[t].fam /\ rows'[t].usedAt = rows[t].usedAt
        /\ rows'[t].st = rows[t].st \/ (Stored(t) /\ rows'[t].st = "gone")

NoNewClaim ==
    \A a \in Actors : req'[a].pc = "create" => req[a].pc = "create" /\ req'[a].tok = req[a].tok

Calm ==
    /\ UNCHANGED <<next, topology>> /\ RowsFade /\ NoNewClaim
    /\ now' = now \/ (now' = now + 1 /\ now' \in 0..MaxTime)

\* Rows left alone fade.
LEMMA FadeSame == ASSUME UNCHANGED rows PROVE RowsFade
BY DEF RowsFade

\* Deleting rows makes them fade.
LEMMA FadeRemoved == ASSUME NEW gone, Removes(gone) PROVE RowsFade
BY DEF RowsFade, Removes

\* The changes of a request that give nobody a claim.
LEMMA NoNewClaims ==
    /\ NobodyNew => NoNewClaim
    /\ \A a \in Actors : \A p, tok, n, v : Becomes(a, p, tok, n, v) /\ p # "create" => NoNewClaim
    /\ \A a \in Actors : \A p : Moves(a, p) /\ p # "create" => NoNewClaim
    /\ \A a \in Actors : \A v : Answers(a, v) => NoNewClaim
<1>1. NobodyNew => NoNewClaim
  BY DEF NobodyNew, NoNewClaim, Held
<1>2. \A a \in Actors : \A p, tok, n, v : Becomes(a, p, tok, n, v) /\ p # "create" => NoNewClaim
  BY DEF NoNewClaim, Becomes
<1>3. \A a \in Actors : \A p : Moves(a, p) /\ p # "create" => NoNewClaim
  BY <1>2 DEF Moves
<1>4. \A a \in Actors : \A v : Answers(a, v) => NoNewClaim
  BY <1>2 DEF Answers
<1> QED
  BY <1>1, <1>2, <1>3, <1>4

\* Only a rotation, a claim, the insert after it and a login do more than take rows away.
LEMMA CalmSteps ==
    ASSUME Core, [Next]_vars
    PROVE  \/ Calm
           \/ \E a \in Actors : TxnCommit(a) \/ Claims(a) \/ Create(a)
           \/ \E t \in Tabs : Login(t)
<1> USE NoNewClaims
<1>1. CASE Quiet
  BY <1>1, FadeSame DEF Quiet, Calm
<1>2. CASE Ending
  BY <1>2, FadeRemoved DEF Ending, Calm, Takes
<1>3. CASE \E a \in Actors : LookupExpired(a)
  BY <1>3, LookupExpiredEffect, FadeRemoved DEF Calm
<1>4. CASE \E a \in Actors : LookupReplay(a)
  BY <1>4, LookupReplayEffect, FadeSame DEF Calm
<1>5. CASE \E a \in Actors : RevokeLive(a)
  BY <1>5, RevokeLiveEffect, FadeRemoved DEF Calm
<1>6. CASE \E a \in Actors : RecordReuse(a)
  BY <1>6, RecordReuseEffect, FadeRemoved DEF Calm
<1>7. CASE \E a \in Actors : SweepFamily(a)
  BY <1>7, SweepFamilyEffect, FadeRemoved DEF Calm
<1>8. CASE CleanupExpired
  BY <1>8, CleanupExpiredEffect, FadeRemoved DEF Calm, NoNewClaim
<1>9. CASE CleanupConsumed
  BY <1>9, CleanupConsumedEffect, FadeRemoved DEF Calm, NoNewClaim
<1> QED
  BY <1>1, <1>2, <1>3, <1>4, <1>5, <1>6, <1>7, <1>8, <1>9, StepKinds

Chain == FamilyLinear /\ CreateIsAlone

\* Chain, field by field.
LEMMA ChainMeans ==
    Chain <=>
      /\ \A t, u \in Tok : rows[t].st = "live" /\ rows[u].st = "live" /\ rows[t].fam = rows[u].fam => t = u
      /\ \A a \in Actors : req[a].pc = "create" => req[a].tok \in Tok /\ req[a].tok < next
      /\ \A a \in Actors, t \in Tok : req[a].pc = "create" /\ rows[t].st = "live" => rows[t].fam # rows[req[a].tok].fam
      /\ \A a, b \in Actors : b # a /\ req[a].pc = "create" /\ req[b].pc = "create"
                            => rows[req[b].tok].fam # rows[req[a].tok].fam
BY DEF Chain, FamilyLinear, CreateIsAlone, LiveRows, Fam, At

\* However refreshes interleave, no step gives a family a second row that can be claimed.
LEMMA ChainPreserved ==
    ASSUME Core, Chain, [Next]_vars PROVE Chain'
<1>0. /\ next \in Nat
      /\ \A t \in Tok : rows[t].st = "live" => t < next
      /\ \A t \in Tok : t < next => rows[t].fam \in Nat /\ rows[t].fam <= t
  BY DEF Core, TypeOK, FamilyIsNamed, Fam
<1> DEFINE Linear(r) == \A t, u \in Tok : r[t].st = "live" /\ r[u].st = "live" /\ r[t].fam = r[u].fam => t = u
           Minting(q, n) == \A a \in Actors : q[a].pc = "create" => q[a].tok \in Tok /\ q[a].tok < n
           Alone(r, q) == \A a \in Actors, t \in Tok : q[a].pc = "create" /\ r[t].st = "live" => r[t].fam # r[q[a].tok].fam
           Apart(r, q) == \A a, b \in Actors : b # a /\ q[a].pc = "create" /\ q[b].pc = "create"
                            => r[q[b].tok].fam # r[q[a].tok].fam
<1>1. Linear(rows) /\ Minting(req, next) /\ Alone(rows, req) /\ Apart(rows, req)
  BY ChainMeans
<1>2. Linear(rows') /\ Minting(req', next') /\ Alone(rows', req') /\ Apart(rows', req') => Chain'
  BY DEF Chain, FamilyLinear, CreateIsAlone, LiveRows, Fam, At
<1>3. CASE Calm
  <2>1. Linear(rows')
    BY <1>0, <1>1, <1>3 DEF Calm, RowsFade
  <2>2. Minting(req', next')
    BY <1>0, <1>1, <1>3 DEF Calm, NoNewClaim
  <2>3. Alone(rows', req')
    BY <1>0, <1>1, <1>3 DEF Calm, RowsFade, NoNewClaim
  <2>4. Apart(rows', req')
    BY <1>0, <1>1, <1>3 DEF Calm, RowsFade, NoNewClaim
  <2> QED
    BY <1>2, <2>1, <2>2, <2>3, <2>4
<1>4. ASSUME NEW a \in Actors, TxnCommit(a) PROVE Chain'
  <2>0. Rotates(req[a].tok) /\ NoNewClaim /\ req[a].tok \in Tok /\ rows[req[a].tok].st = "live"
    BY <1>4, TxnCommitEffect, NoNewClaims, Presented, PCsUsed
  <2>1. Linear(rows')
    BY <1>0, <1>1, <2>0 DEF Rotates, Fam
  <2>2. Minting(req', next')
    BY <1>0, <1>1, <2>0 DEF Rotates, NoNewClaim
  <2>3. Alone(rows', req')
    BY <1>0, <1>1, <2>0, SMTT(30) DEF Rotates, NoNewClaim, Fam
  <2>4. Apart(rows', req')
    BY <1>0, <1>1, <2>0, SMTT(30) DEF Rotates, NoNewClaim, Fam
  <2> QED
    BY <1>2, <2>1, <2>2, <2>3, <2>4
<1>5. ASSUME NEW a \in Actors, Claims(a) PROVE Chain'
  <2>0. /\ next' = next /\ req[a].tok \in Tok /\ req[a].tok < next /\ rows[req[a].tok].st = "live"
        /\ Spends(req[a].tok) /\ Moves(a, "create")
    BY <1>5, Presented, PCsUsed DEF Claims, Claimable
  <2>1. Linear(rows')
    BY <1>0, <1>1, <2>0 DEF Spends
  <2>2. Minting(req', next')
    BY <1>0, <1>1, <2>0 DEF Moves, Becomes
  <2>3. Alone(rows', req')
    BY <1>0, <1>1, <2>0, SMTT(30) DEF Spends, Moves, Becomes
  <2>4. Apart(rows', req')
    <3>1. \A b \in Actors : req'[b].pc = "create" =>
             req'[b].tok \in Tok /\ req'[b].tok = req[b].tok /\ rows'[req'[b].tok].fam = rows[req[b].tok].fam
      BY <1>1, <2>0 DEF Spends, Moves, Becomes
    <3>2. \A b \in Actors : req'[b].pc = "create" /\ b # a =>
             req[b].pc = "create" /\ rows[req[b].tok].fam # rows[req[a].tok].fam
      BY <1>1, <2>0 DEF Moves, Becomes
    <3> QED
      BY <1>1, <3>1, <3>2
  <2> QED
    BY <1>2, <2>1, <2>2, <2>3, <2>4
<1>6. ASSUME NEW a \in Actors, Create(a) PROVE Chain'
  <2>0. /\ Mints(Fam(req[a].tok)) /\ req[a].pc = "create" /\ req[a].tok \in Tok
        /\ req'[a].pc = "reply" /\ \A b \in Actors \ {a} : req'[b] = req[b]
    BY <1>6, CreateEffect, Presented, PCsUsed DEF Answers, Becomes
  <2>1. Linear(rows')
    BY <1>0, <1>1, <2>0, SMTT(30) DEF Mints, Fam
  <2>2. Minting(req', next')
    BY <1>0, <1>1, <2>0 DEF Mints
  <2>3. Alone(rows', req')
    <3>1. \A b \in Actors : req'[b].pc = "create" =>
             b # a /\ req'[b] = req[b] /\ req[b].pc = "create" /\ req[b].tok \in Tok \ {next}
      BY <1>0, <1>1, <2>0
    <3>2. \A b \in Actors : req'[b].pc = "create" => rows'[req'[b].tok].fam = rows[req[b].tok].fam
      BY <2>0, <3>1 DEF Mints
    <3>3. ASSUME NEW b \in Actors, NEW t \in Tok, req'[b].pc = "create", rows'[t].st = "live"
          PROVE  rows'[t].fam # rows[req[b].tok].fam
      <4>1. CASE t = next
        BY <1>1, <2>0, <3>1, <3>3, <4>1 DEF Mints, Fam
      <4>2. CASE t # next
        BY <1>1, <2>0, <3>1, <3>3, <4>2 DEF Mints
      <4> QED
        BY <4>1, <4>2
    <3> QED
      BY <3>2, <3>3
  <2>4. Apart(rows', req')
    <3>1. \A b \in Actors : req'[b].pc = "create" =>
             req[b].pc = "create" /\ req'[b].tok = req[b].tok /\ req[b].tok \in Tok \ {next}
      BY <1>0, <1>1, <2>0
    <3>2. \A b \in Actors : req'[b].pc = "create" => rows'[req'[b].tok].fam = rows[req[b].tok].fam
      BY <2>0, <3>1 DEF Mints
    <3> QED
      BY <1>1, <3>1, <3>2
  <2> QED
    BY <1>2, <2>1, <2>2, <2>3, <2>4
<1>7. ASSUME NEW t \in Tabs, Login(t) PROVE Chain'
  <2>0. Mints(next) /\ NoNewClaim
    BY <1>7, LoginEffect, NoNewClaims
  <2>1. Linear(rows')
    BY <1>0, <1>1, <2>0 DEF Mints
  <2>2. Minting(req', next')
    BY <1>0, <1>1, <2>0 DEF Mints, NoNewClaim
  <2>3. Alone(rows', req')
    BY <1>0, <1>1, <2>0, SMTT(30) DEF Mints, NoNewClaim
  <2>4. Apart(rows', req')
    <3>1. \A b \in Actors : req'[b].pc = "create" =>
             req[b].pc = "create" /\ req'[b].tok = req[b].tok /\ req[b].tok \in Tok \ {next}
      BY <1>0, <1>1, <2>0 DEF NoNewClaim
    <3>2. \A b \in Actors : req'[b].pc = "create" => rows'[req'[b].tok].fam = rows[req[b].tok].fam
      BY <2>0, <3>1 DEF Mints
    <3> QED
      BY <1>1, <3>1, <3>2
  <2> QED
    BY <1>2, <2>1, <2>2, <2>3, <2>4
<1> QED
  BY <1>3, <1>4, <1>5, <1>6, <1>7, CalmSteps

-----------------------------------------------------------------------------
(* A spent row outlasts its reuse window.                                  *)

\* Every step keeps the date of use in step with the state of the row.
LEMMA DatedPreserved ==
    ASSUME Core, UseIsDated, [Next]_vars PROVE UseIsDated'
<1>0. now \in 0..MaxTime
  BY DEF Core, TypeOK
<1>1. CASE Calm
  BY <1>0, <1>1 DEF Calm, RowsFade, UseIsDated, Stored
<1>2. ASSUME NEW a \in Actors, TxnCommit(a) PROVE UseIsDated'
  <2>1. Rotates(req[a].tok) /\ now' = now
    BY <1>2, TxnCommitEffect
  <2> QED
    BY <1>0, <2>1 DEF Rotates, UseIsDated
<1>3. ASSUME NEW a \in Actors, Claims(a) PROVE UseIsDated'
  BY <1>0, <1>3 DEF Claims, Spends, UseIsDated
<1>4. ASSUME NEW a \in Actors, Create(a) PROVE UseIsDated'
  <2>1. Mints(Fam(req[a].tok)) /\ now' = now
    BY <1>4, CreateEffect
  <2> QED
    BY <1>0, <2>1 DEF Mints, UseIsDated
<1>5. ASSUME NEW t \in Tabs, Login(t) PROVE UseIsDated'
  <2>1. Mints(next) /\ now' = now
    BY <1>5, LoginEffect
  <2> QED
    BY <1>0, <2>1 DEF Mints, UseIsDated
<1> QED
  BY <1>1, <1>2, <1>3, <1>4, <1>5, CalmSteps

\* Rows spent within the window leave only with their family closed.
KeptBy ==
    /\ log["closed"] \subseteq log'["closed"]
    /\ \A t \in Tok :
        /\ rows'[t].usedAt = rows[t].usedAt /\ rows'[t].fam = rows[t].fam
        /\ Stored(t) => \/ rows'[t].st \in {"live", "used"}
                        \/ rows[t].st = "live"
                        \/ rows[t].usedAt + ReuseWindow <= now
                        \/ Fam(t) \in log'["closed"]

\* No cleanup, cap or replay takes a spent row within its window from a family nobody closed.
LEMMA KeptPreserved ==
    ASSUME Core, UseIsDated, ReplayOrder, SpentRowKept, [Next]_vars PROVE SpentRowKept'
<1>0. now \in 0..MaxTime /\ rows \in [Tok -> Row] /\ log \in [Log -> SUBSET (0..MaxTok)]
      /\ "closed" \in Log
  BY DEF Core, TypeOK, Log
<1>1. ASSUME KeptBy, now' = now \/ (now' = now + 1 /\ now' \in 0..MaxTime) PROVE SpentRowKept'
  <2> SUFFICES ASSUME NEW t \in Tok, rows'[t].usedAt <= now', now' < rows'[t].usedAt + ReuseWindow,
                      rows'[t].fam \notin log'["closed"]
               PROVE  rows'[t].st \in {"live", "used"}
    BY DEF SpentRowKept, Stored, Fam
  <2>1. rows[t].usedAt = rows'[t].usedAt /\ rows[t].fam \notin log'["closed"] /\ rows[t].fam \notin log["closed"]
    BY <1>1 DEF KeptBy
  <2>2. rows[t].usedAt \in 0..now \cup {NotUsed}
    BY DEF UseIsDated
  <2>3. rows[t].usedAt \in 0..now
    BY <1>0, <1>1, <2>1, <2>2
  <2>4. rows[t].usedAt <= now /\ now < rows[t].usedAt + ReuseWindow
    BY <1>0, <1>1, <2>1, <2>3
  <2>5. Stored(t) /\ rows[t].st # "live"
    BY <1>0, <2>1, <2>3, <2>4 DEF SpentRowKept, UseIsDated, Fam
  <2> QED
    BY <1>0, <1>1, <2>1, <2>3, <2>4, <2>5 DEF KeptBy, Fam
<1>2. CASE Quiet
  BY <1>1, <1>2 DEF Quiet, KeptBy, Stored
<1>3. CASE Ending
  <2>1. PICK gone \in SUBSET Tok : Takes(gone)
    BY <1>3 DEF Ending
  <2>2. KeptBy
    BY <1>0, <2>1 DEF KeptBy, Takes, Removes, Stored
  <2> QED
    BY <1>1, <1>3, <2>2 DEF Ending
<1>4. ASSUME NEW a \in Actors, LookupExpired(a) PROVE SpentRowKept'
  <2>1. KeptBy
    BY <1>4, LookupExpiredEffect DEF KeptBy, Removes, Stored
  <2> QED
    BY <1>1, <1>4, <2>1, LookupExpiredEffect
<1>5. ASSUME NEW a \in Actors, LookupReplay(a) PROVE SpentRowKept'
  <2>0. rows' = rows /\ now' = now /\ log'["closed"] = log["closed"]
    BY <1>0, <1>5, LookupReplayEffect DEF Log
  <2>1. KeptBy
    BY <2>0 DEF KeptBy, Stored
  <2> QED
    BY <1>1, <2>0, <2>1
<1>6. ASSUME NEW a \in Actors, RevokeLive(a) PROVE SpentRowKept'
  <2>0. Removes(FamilyRows(Fam(req[a].tok)) \cap LiveRows) /\ now' = now
        /\ log["closed"] \subseteq log'["closed"]
    BY <1>0, <1>6, RevokeLiveEffect
  <2>1. KeptBy
    BY <2>0 DEF KeptBy, Removes, Stored, LiveRows
  <2> QED
    BY <1>1, <2>0, <2>1
<1>7. ASSUME NEW a \in Actors, RecordReuse(a) PROVE SpentRowKept'
  <2>0. Removes({req[a].tok}) /\ now' = now /\ log'["closed"] = log["closed"] /\ Fam(req[a].tok) \in log["closed"]
    BY <1>0, <1>7, RecordReuseEffect DEF ReplayOrder, Log
  <2>1. KeptBy
    BY <2>0 DEF KeptBy, Removes, Stored
  <2> QED
    BY <1>1, <2>0, <2>1
<1>8. ASSUME NEW a \in Actors, SweepFamily(a) PROVE SpentRowKept'
  <2>0. Removes(FamilyRows(Fam(req[a].tok))) /\ now' = now /\ log'["closed"] = log["closed"]
        /\ Fam(req[a].tok) \in log["closed"]
    BY <1>0, <1>8, SweepFamilyEffect DEF ReplayOrder, Log
  <2>1. KeptBy
    BY <2>0 DEF KeptBy, Removes, Stored, FamilyRows
  <2> QED
    BY <1>1, <2>0, <2>1
<1>9. CASE CleanupExpired
  <2>1. KeptBy
    BY <1>9, CleanupExpiredEffect DEF KeptBy, Removes, Stored, LiveRows
  <2> QED
    BY <1>1, <1>9, <2>1, CleanupExpiredEffect
<1>10. CASE CleanupConsumed
  <2>1. KeptBy
    BY <1>0, <1>10, CleanupConsumedEffect DEF KeptBy, Removes, Stored
  <2> QED
    BY <1>1, <1>10, <2>1, CleanupConsumedEffect
<1>11. ASSUME NEW a \in Actors, TxnCommit(a) PROVE SpentRowKept'
  <2>1. Rotates(req[a].tok) /\ now' = now /\ log' = log
    BY <1>11, TxnCommitEffect
  <2> QED
    BY <2>1 DEF Rotates, SpentRowKept, Stored, Fam
<1>12. ASSUME NEW a \in Actors, Claims(a) PROVE SpentRowKept'
  BY <1>12 DEF Claims, Spends, SpentRowKept, Stored, Fam
<1>13. ASSUME NEW a \in Actors, Create(a) PROVE SpentRowKept'
  <2>1. Mints(Fam(req[a].tok)) /\ now' = now /\ log' = log
    BY <1>13, CreateEffect
  <2> QED
    BY <2>1 DEF Mints, SpentRowKept, Stored, Fam
<1>14. ASSUME NEW t \in Tabs, Login(t) PROVE SpentRowKept'
  <2>1. Mints(next) /\ now' = now /\ log' = log
    BY <1>14, LoginEffect
  <2> QED
    BY <2>1 DEF Mints, SpentRowKept, Stored, Fam
<1> QED
  BY <1>2, <1>3, <1>4, <1>5, <1>6, <1>7, <1>8, <1>9, <1>10, <1>11, <1>12, <1>13, <1>14, StepKinds

-----------------------------------------------------------------------------
(* A replay is recorded, and its family is gone.                           *)

Accounted == log["recorded"] \cup log["interfered"] \cup log["atExpiry"]
Replays == {"reuse", "record", "sweep"}

InOrder(a) ==
    /\ req[a].pc \in {"reuse", "record"} => rows[req[a].tok].fam \in Accounted \/ rows[req[a].tok].st = "used"
    /\ req[a].pc \in {"record", "sweep"} => rows[req[a].tok].fam \in log["closed"]
    /\ req[a].pc \in {"record", "sweep"} /\ topology = "txn" =>
          \A t \in Tok : rows[t].st = "live" => rows[t].fam # rows[req[a].tok].fam
    /\ req[a].pc = "sweep" => rows[req[a].tok].fam \in Accounted

\* The replay properties, field by field.
LEMMA OrderMeans ==
    /\ ReplayOrder <=> \A a \in Actors : InOrder(a)
    /\ ReuseRecorded <=> log["answered"] \subseteq Accounted
    /\ NoLiveAfterReuse <=>
         (topology = "txn" => \A t \in Tok : rows[t].st = "live" => rows[t].fam \notin log["answered"])
<1>1. ReplayOrder <=> \A a \in Actors : InOrder(a)
  BY DEF ReplayOrder, InOrder, Accounted, FamilyRows, LiveRows, Stored, Fam
<1>2. ReuseRecorded <=> log["answered"] \subseteq Accounted
  BY DEF ReuseRecorded, Accounted
<1>3. NoLiveAfterReuse <=>
         (topology = "txn" => \A t \in Tok : rows[t].st = "live" => rows[t].fam \notin log["answered"])
  BY DEF NoLiveAfterReuse, FamilyRows, LiveRows, Stored, Fam
<1> QED
  BY <1>1, <1>2, <1>3

\* No live row appears in a family that had none, but for a new family's first.
NoRevival ==
    topology = "txn" => \A t \in Tok : rows'[t].st = "live" =>
        \/ rows'[t].fam = next
        \/ \E k \in Tok : rows[k].st = "live" /\ rows[k].fam = rows'[t].fam

LogGrows == Accounted \subseteq Accounted' /\ log["closed"] \subseteq log'["closed"]

\* A spent row that a replay has found goes only with an account of it.
ReplayKept(b) ==
    /\ rows'[req[b].tok].fam = rows[req[b].tok].fam
    /\ req[b].pc \in {"reuse", "record"} /\ rows[req[b].tok].st = "used" =>
          rows'[req[b].tok].st = "used" \/ rows[req[b].tok].fam \in Accounted'

\* A replay under way stays in order while others act.
LEMMA BystanderInOrder ==
    ASSUME Core, NEW b \in Actors, InOrder(b), topology' = topology, LogGrows, NoRevival,
           req[b].pc \in Replays => ReplayKept(b),
           req'[b].pc \in Replays => req'[b].pc = req[b].pc /\ req'[b].tok = req[b].tok
    PROVE  InOrder(b)'
<1> SUFFICES ASSUME req'[b].pc \in Replays PROVE InOrder(b)'
  BY DEF InOrder, Replays
<1>1. /\ req'[b].pc = req[b].pc /\ req'[b].tok = req[b].tok /\ ReplayKept(b)
      /\ req[b].tok \in Tok /\ rows[req[b].tok].fam < next /\ rows[req[b].tok].fam \in Nat
  BY Presented, PCsUsed DEF Replays, Fam
<1>2. rows[req[b].tok].fam # next
  BY <1>1 DEF Core, TypeOK
<1>3. req[b].pc \in {"record", "sweep"} /\ topology = "txn" =>
          \A t \in Tok : rows'[t].st = "live" => rows'[t].fam # rows[req[b].tok].fam
  BY <1>1, <1>2 DEF InOrder, NoRevival
<1> QED
  BY <1>1, <1>3 DEF InOrder, LogGrows, ReplayKept

\* With transactions, no step brings a live row to a family that has none.
LEMMA RevivalByStep ==
    ASSUME Core, [Next]_vars PROVE NoRevival /\ topology' = topology
<1>1. CASE Calm
  BY <1>1 DEF Calm, RowsFade, NoRevival
<1>2. ASSUME NEW a \in Actors, TxnCommit(a) PROVE NoRevival /\ topology' = topology
  <2>1. Rotates(req[a].tok) /\ rows[req[a].tok].st = "live" /\ req[a].tok \in Tok
    BY <1>2, TxnCommitEffect, Presented, PCsUsed
  <2> QED
    BY <1>2, <2>1, TxnCommitEffect DEF Rotates, NoRevival, Fam
<1>3. ASSUME NEW a \in Actors, Claims(a) PROVE NoRevival /\ topology' = topology
  BY <1>3 DEF Claims, Spends, NoRevival
<1>4. ASSUME NEW a \in Actors, Create(a) PROVE NoRevival /\ topology' = topology
  <2>1. topology = "standalone" /\ topology' = topology
    BY <1>4, CreateEffect DEF Core, RequestsOK
  <2> QED
    BY <2>1 DEF NoRevival
<1>5. ASSUME NEW t \in Tabs, Login(t) PROVE NoRevival /\ topology' = topology
  <2>1. Mints(next)
    BY <1>5, LoginEffect
  <2> QED
    BY <1>5, <2>1, LoginEffect DEF Mints, NoRevival
<1> QED
  BY <1>1, <1>2, <1>3, <1>4, <1>5, CalmSteps

\* What the replay branch leaves to the properties.
Answered ==
    /\ ReplayOrder
    /\ log["answered"] \subseteq Accounted
    /\ topology = "txn" => \A t \in Tok : rows[t].st = "live" => rows[t].fam \notin log["answered"]

\* A step that answers no replay keeps what was true of the answered families.
LEMMA AnsweredKept ==
    ASSUME Core, [Next]_vars, \A a \in Actors : InOrder(a), log["answered"] \subseteq Accounted, LogGrows,
           topology = "txn" => \A t \in Tok : rows[t].st = "live" => rows[t].fam \notin log["answered"],
           log'["answered"] = log["answered"]
    PROVE  /\ log'["answered"] \subseteq Accounted'
           /\ topology' = "txn" => \A t \in Tok : rows'[t].st = "live" => rows'[t].fam \notin log'["answered"]
<1>1. next \notin log["answered"]
  <2>1. \A f \in log["answered"] : f < next /\ f \in Nat
    BY DEF Core, TypeOK, RequestsOK, Log
  <2> QED
    BY <2>1 DEF Core, TypeOK
<1> QED
  BY <1>1, RevivalByStep DEF NoRevival, LogGrows

Unbothered(b) == req'[b].pc \in Replays => req'[b].pc = req[b].pc /\ req'[b].tok = req[b].tok

\* The changes of a request that leave the other replays where they are.
LEMMA UnbotheredBy ==
    /\ NobodyNew \/ UNCHANGED req => \A b \in Actors : Unbothered(b)
    /\ \A a \in Actors : \A v : Answers(a, v) => \A b \in Actors : Unbothered(b)
<1>1. NobodyNew \/ UNCHANGED req => \A b \in Actors : Unbothered(b)
  BY DEF NobodyNew, Unbothered, Replays, Held
<1>2. \A a \in Actors : \A v : Answers(a, v) => \A b \in Actors : Unbothered(b)
  BY DEF Answers, Becomes, Unbothered, Replays
<1> QED
  BY <1>1, <1>2

\* Every step keeps the replay branch in order and its answers accounted for.
LEMMA ReplayPreserved ==
    ASSUME Core, ReplayOrder, ReuseRecorded, NoLiveAfterReuse, [Next]_vars
    PROVE  (ReplayOrder /\ ReuseRecorded /\ NoLiveAfterReuse)'
<1>0. /\ log \in [Log -> SUBSET (0..MaxTok)] /\ rows \in [Tok -> Row]
      /\ \A k \in {"closed", "interfered", "recorded", "answered", "atExpiry"} : k \in Log
      /\ \A b \in Actors : req[b].pc \in Replays => req[b].tok \in Tok
  BY Presented, PCsUsed DEF Core, TypeOK, Log, Replays
<1>1. /\ \A a \in Actors : InOrder(a)
      /\ log["answered"] \subseteq Accounted
      /\ topology = "txn" => \A t \in Tok : rows[t].st = "live" => rows[t].fam \notin log["answered"]
  BY OrderMeans
<1>2. ASSUME \A a \in Actors : InOrder(a)',
             log'["answered"] \subseteq Accounted',
             topology' = "txn" => \A t \in Tok : rows'[t].st = "live" => rows'[t].fam \notin log'["answered"]
      PROVE  (ReplayOrder /\ ReuseRecorded /\ NoLiveAfterReuse)'
  BY <1>2 DEF ReplayOrder, ReuseRecorded, NoLiveAfterReuse, InOrder, Accounted, FamilyRows, LiveRows, Stored, Fam
<1>3. NoRevival /\ topology' = topology
  BY RevivalByStep
<1>4. ASSUME LogGrows, NEW b \in Actors, req[b].pc \in Replays => ReplayKept(b), Unbothered(b)
      PROVE  InOrder(b)'
  BY <1>1, <1>3, <1>4, BystanderInOrder DEF Unbothered
<1>5. ASSUME LogGrows, log'["answered"] = log["answered"], \A a \in Actors : InOrder(a)'
      PROVE  (ReplayOrder /\ ReuseRecorded /\ NoLiveAfterReuse)'
  BY <1>1, <1>2, <1>5, AnsweredKept
<1>6. ASSUME LogGrows, log'["answered"] = log["answered"], \A b \in Actors : Unbothered(b),
             \A b \in Actors : req[b].pc \in Replays => ReplayKept(b)
      PROVE  (ReplayOrder /\ ReuseRecorded /\ NoLiveAfterReuse)'
  BY <1>4, <1>5, <1>6
<1>7. CASE Quiet
  <2>1. LogGrows /\ log' = log
    BY <1>7 DEF Quiet, LogGrows, Accounted
  <2>2. \A b \in Actors : req[b].pc \in Replays => ReplayKept(b)
    BY <1>7 DEF Quiet, ReplayKept
  <2> QED
    BY <1>6, <1>7, <2>1, <2>2, UnbotheredBy DEF Quiet
<1>8. CASE Ending
  <2>0. PICK gone \in SUBSET Tok : Takes(gone)
    BY <1>8 DEF Ending
  <2>1. LogGrows /\ log'["answered"] = log["answered"]
    BY <1>0, <2>0 DEF Takes, LogGrows, Accounted
  <2>2. \A b \in Actors : req[b].pc \in Replays => ReplayKept(b)
    BY <1>0, <2>0 DEF Takes, Removes, ReplayKept, Accounted, Fam, Stored
  <2> QED
    BY <1>6, <1>8, <2>1, <2>2, UnbotheredBy DEF Ending
<1>9. ASSUME NEW a \in Actors, TxnCommit(a) PROVE (ReplayOrder /\ ReuseRecorded /\ NoLiveAfterReuse)'
  <2>0. Rotates(req[a].tok) /\ log' = log /\ rows[req[a].tok].st = "live" /\ Answers(a, next)
    BY <1>9, TxnCommitEffect
  <2>1. LogGrows
    BY <2>0 DEF LogGrows, Accounted
  <2>2. \A b \in Actors : req[b].pc \in Replays => req[b].tok # next
    BY Presented, PCsUsed DEF Replays
  <2>3. \A b \in Actors : req[b].pc \in Replays => ReplayKept(b)
    BY <1>0, <2>0, <2>2 DEF Rotates, ReplayKept
  <2> QED
    BY <1>6, <2>0, <2>1, <2>3, UnbotheredBy
<1>10. ASSUME NEW a \in Actors, Claims(a) PROVE (ReplayOrder /\ ReuseRecorded /\ NoLiveAfterReuse)'
  <2>0. Spends(req[a].tok) /\ log' = log /\ Moves(a, "create") /\ "create" \notin Replays
    BY <1>10 DEF Claims, Replays
  <2>1. LogGrows
    BY <2>0 DEF LogGrows, Accounted
  <2>2. \A b \in Actors : req[b].pc \in Replays => ReplayKept(b)
    BY <1>0, <2>0 DEF Spends, ReplayKept
  <2>3. \A b \in Actors : Unbothered(b)
    BY <2>0 DEF Unbothered, Moves, Becomes
  <2> QED
    BY <1>6, <2>0, <2>1, <2>2, <2>3
<1>11. ASSUME NEW a \in Actors, Create(a) PROVE (ReplayOrder /\ ReuseRecorded /\ NoLiveAfterReuse)'
  <2>0. Mints(Fam(req[a].tok)) /\ log' = log /\ Answers(a, next)
    BY <1>11, CreateEffect
  <2>1. LogGrows
    BY <2>0 DEF LogGrows, Accounted
  <2>2. \A b \in Actors : req[b].pc \in Replays => req[b].tok # next
    BY Presented, PCsUsed DEF Replays
  <2>3. \A b \in Actors : req[b].pc \in Replays => ReplayKept(b)
    BY <1>0, <2>0, <2>2 DEF Mints, ReplayKept
  <2> QED
    BY <1>6, <2>0, <2>1, <2>3, UnbotheredBy
<1>12. ASSUME NEW t \in Tabs, Login(t) PROVE (ReplayOrder /\ ReuseRecorded /\ NoLiveAfterReuse)'
  <2>0. Mints(next) /\ log' = log /\ NobodyNew
    BY <1>12, LoginEffect, NobodyNews, NotHeld
  <2>1. LogGrows
    BY <2>0 DEF LogGrows, Accounted
  <2>2. \A b \in Actors : req[b].pc \in Replays => req[b].tok # next
    BY Presented, PCsUsed DEF Replays
  <2>3. \A b \in Actors : req[b].pc \in Replays => ReplayKept(b)
    BY <1>0, <2>0, <2>2 DEF Mints, ReplayKept
  <2> QED
    BY <1>6, <2>0, <2>1, <2>3, UnbotheredBy
<1>13. ASSUME NEW a \in Actors, LookupExpired(a) PROVE (ReplayOrder /\ ReuseRecorded /\ NoLiveAfterReuse)'
  <2>0. Removes({req[a].tok}) /\ log' = log /\ Answers(a, 0) /\ rows[req[a].tok].st = "live"
    BY <1>13, LookupExpiredEffect
  <2>1. LogGrows
    BY <2>0 DEF LogGrows, Accounted
  <2>2. \A b \in Actors : req[b].pc \in Replays => ReplayKept(b)
    BY <1>0, <2>0 DEF Removes, ReplayKept
  <2> QED
    BY <1>6, <2>0, <2>1, <2>2, UnbotheredBy
<1>14. CASE CleanupExpired
  <2>0. Removes({t \in LiveRows : rows[t].exp <= now}) /\ log' = log /\ req' = req
    BY <1>14, CleanupExpiredEffect
  <2>1. LogGrows
    BY <2>0 DEF LogGrows, Accounted
  <2>2. \A b \in Actors : req[b].pc \in Replays => ReplayKept(b)
    BY <1>0, <2>0 DEF Removes, ReplayKept, LiveRows
  <2> QED
    BY <1>6, <2>0, <2>1, <2>2, UnbotheredBy
<1>15. CASE CleanupConsumed
  <2>1. LogGrows /\ log'["answered"] = log["answered"] /\ req' = req
    BY <1>0, <1>15, CleanupConsumedEffect DEF LogGrows, Accounted
  <2>2. \A b \in Actors : req[b].pc \in Replays => ReplayKept(b)
    BY <1>0, <1>15, CleanupConsumedEffect DEF Removes, ReplayKept, Accounted, Fam, Stored
  <2> QED
    BY <1>6, <2>1, <2>2, UnbotheredBy
<1>16. ASSUME NEW a \in Actors, LookupReplay(a) PROVE (ReplayOrder /\ ReuseRecorded /\ NoLiveAfterReuse)'
  <2>0. /\ rows' = rows /\ Moves(a, "reuse") /\ req[a].pc = "lookup" /\ Stored(req[a].tok)
        /\ log' = [log EXCEPT !["atExpiry"] =
                  IF rows[req[a].tok].st = "live" THEN @ \cup {Fam(req[a].tok)} ELSE @]
    BY <1>16, LookupReplayEffect
  <2>1. /\ log'["answered"] = log["answered"] /\ log'["closed"] = log["closed"]
        /\ log'["recorded"] = log["recorded"] /\ log'["interfered"] = log["interfered"]
        /\ log["atExpiry"] \subseteq log'["atExpiry"]
        /\ rows[req[a].tok].st = "live" => Fam(req[a].tok) \in log'["atExpiry"]
    BY <1>0, <2>0 DEF Log
  <2>2. LogGrows
    BY <2>1 DEF LogGrows, Accounted
  <2>3. \A b \in Actors : req[b].pc \in Replays => ReplayKept(b)
    BY <2>0 DEF ReplayKept
  <2>4. InOrder(a)'
    BY <2>0, <2>1 DEF InOrder, Moves, Becomes, Stored, Fam, Accounted
  <2>5. \A b \in Actors \ {a} : InOrder(b)'
    <3>1. \A b \in Actors \ {a} : Unbothered(b)
      BY <2>0 DEF Unbothered, Moves, Becomes
    <3> QED
      BY <1>4, <2>2, <2>3, <3>1
  <2> QED
    BY <1>5, <2>1, <2>2, <2>4, <2>5
<1>17. ASSUME NEW a \in Actors, RevokeLive(a) PROVE (ReplayOrder /\ ReuseRecorded /\ NoLiveAfterReuse)'
  <2>0. /\ Removes(FamilyRows(Fam(req[a].tok)) \cap LiveRows) /\ Moves(a, "record")
        /\ req[a].pc = "reuse" /\ req[a].tok \in Tok
        /\ log' = [log EXCEPT !["closed"] = @ \cup {Fam(req[a].tok)}]
    BY <1>0, <1>17, RevokeLiveEffect DEF Replays
  <2>1. /\ log'["answered"] = log["answered"] /\ log["closed"] \subseteq log'["closed"]
        /\ log'["recorded"] = log["recorded"] /\ log'["interfered"] = log["interfered"]
        /\ log["atExpiry"] = log'["atExpiry"]
        /\ Fam(req[a].tok) \in log'["closed"]
    BY <1>0, <2>0 DEF Log
  <2>2. LogGrows /\ Accounted' = Accounted
    BY <2>1 DEF LogGrows, Accounted
  <2>3. \A b \in Actors : req[b].pc \in Replays => ReplayKept(b)
    BY <1>0, <2>0 DEF Removes, ReplayKept, LiveRows
  <2>4. \A t \in Tok : rows'[t].st = "live" => rows'[t].fam # rows'[req[a].tok].fam
    BY <2>0 DEF Removes, LiveRows, FamilyRows, Stored, Fam
  <2>5. /\ req'[a].pc = "record" /\ req'[a].tok = req[a].tok /\ rows'[req[a].tok].fam = rows[req[a].tok].fam
        /\ rows[req[a].tok].st = "used" => rows'[req[a].tok].st = "used"
    BY <2>0 DEF Moves, Becomes, Removes, LiveRows
  <2>6. rows[req[a].tok].fam \in Accounted \/ rows[req[a].tok].st = "used"
    BY <1>1, <2>0 DEF InOrder
  <2>7. InOrder(a)'
    BY <2>1, <2>2, <2>4, <2>5, <2>6 DEF InOrder, Fam
  <2>8. \A b \in Actors \ {a} : InOrder(b)'
    <3>1. \A b \in Actors \ {a} : Unbothered(b)
      BY <2>0 DEF Unbothered, Moves, Becomes
    <3> QED
      BY <1>4, <2>2, <2>3, <3>1
  <2> QED
    BY <1>5, <2>1, <2>2, <2>7, <2>8
<1>18. ASSUME NEW a \in Actors, RecordReuse(a) PROVE (ReplayOrder /\ ReuseRecorded /\ NoLiveAfterReuse)'
  <2>0. /\ Removes({req[a].tok}) /\ Moves(a, "sweep")
        /\ req[a].pc = "record" /\ req[a].tok \in Tok
        /\ log' = [log EXCEPT !["recorded"] = IF Stored(req[a].tok) THEN @ \cup {Fam(req[a].tok)} ELSE @]
    BY <1>0, <1>18, RecordReuseEffect DEF Replays
  <2>1. /\ log'["answered"] = log["answered"] /\ log["closed"] = log'["closed"]
        /\ log["recorded"] \subseteq log'["recorded"] /\ log'["interfered"] = log["interfered"]
        /\ log["atExpiry"] = log'["atExpiry"]
        /\ Stored(req[a].tok) => Fam(req[a].tok) \in log'["recorded"]
    BY <1>0, <2>0 DEF Log
  <2>2. LogGrows
    BY <2>1 DEF LogGrows, Accounted
  <2>3. \A b \in Actors : req[b].pc \in Replays => ReplayKept(b)
    BY <1>0, <2>0, <2>1 DEF Removes, ReplayKept, Accounted, Stored, Fam
  <2>5. /\ req'[a].pc = "sweep" /\ req'[a].tok = req[a].tok /\ rows'[req[a].tok].fam = rows[req[a].tok].fam
        /\ \A t \in Tok : rows'[t].st = "live" => rows[t].st = "live" /\ rows'[t].fam = rows[t].fam
    BY <2>0 DEF Moves, Becomes, Removes
  <2>6. rows[req[a].tok].fam \in Accounted'
    BY <1>1, <2>0, <2>1, <2>2 DEF InOrder, LogGrows, Accounted, Stored, Fam
  <2>7. InOrder(a)'
    BY <1>1, <1>3, <2>0, <2>1, <2>5, <2>6 DEF InOrder
  <2>8. \A b \in Actors \ {a} : InOrder(b)'
    <3>1. \A b \in Actors \ {a} : Unbothered(b)
      BY <2>0 DEF Unbothered, Moves, Becomes
    <3> QED
      BY <1>4, <2>2, <2>3, <3>1
  <2> QED
    BY <1>5, <2>1, <2>2, <2>7, <2>8
<1>19. ASSUME NEW a \in Actors, SweepFamily(a) PROVE (ReplayOrder /\ ReuseRecorded /\ NoLiveAfterReuse)'
  <2>0. /\ Removes(FamilyRows(Fam(req[a].tok))) /\ Answers(a, 0)
        /\ req[a].pc = "sweep" /\ req[a].tok \in Tok
        /\ log' = [log EXCEPT !["answered"] = @ \cup {Fam(req[a].tok)}]
    BY <1>0, <1>19, SweepFamilyEffect DEF Replays
  <2>1. /\ log'["answered"] = log["answered"] \cup {Fam(req[a].tok)} /\ log["closed"] = log'["closed"]
        /\ log["recorded"] = log'["recorded"] /\ log'["interfered"] = log["interfered"]
        /\ log["atExpiry"] = log'["atExpiry"]
    BY <1>0, <2>0 DEF Log
  <2>2. LogGrows /\ Accounted' = Accounted
    BY <2>1 DEF LogGrows, Accounted
  <2>3. Fam(req[a].tok) \in Accounted
    BY <1>1, <2>0 DEF InOrder, Fam
  <2>4. \A b \in Actors : req[b].pc \in Replays => ReplayKept(b)
    BY <1>0, <2>0, <2>2, <2>3 DEF Removes, ReplayKept, FamilyRows, Fam
  <2>5. \A b \in Actors : InOrder(b)'
    BY <1>4, <2>0, <2>2, <2>4, UnbotheredBy
  <2>6. \A t \in Tok : rows'[t].st = "live" =>
           rows[t].st = "live" /\ rows'[t].fam = rows[t].fam /\ rows[t].fam # Fam(req[a].tok)
    BY <2>0 DEF Removes, FamilyRows, Stored, Fam
  <2> QED
    BY <1>1, <1>2, <1>3, <2>1, <2>2, <2>3, <2>5, <2>6
<1> QED
  BY <1>7, <1>8, <1>9, <1>10, <1>11, <1>12, <1>13, <1>14, <1>15, <1>16, <1>17, <1>18, <1>19, StepKinds

-----------------------------------------------------------------------------
(* Tabs that lose nothing never replay.                                    *)

Early == {"attempt", "commit", "gate", "claim", "lookup"}
FreshOf(t) == IF req[t].pc = "reply" THEN req[t].set ELSE req[t].new

\* What a tab may be doing while nothing has gone wrong.
TabHolds(t) ==
    /\ tab[t] = "posted" <=> lock = t
    /\ req[t].pc \in Presents => tab[t] = "posted"
    /\ tab[t] = "posted" => req[t].pc \in Presents \cup {"reply"}
    /\ req[t].pc \in Early => rows[req[t].tok].st # "used"
    /\ req[t].pc \in Replays => rows[req[t].tok].fam \in log["atExpiry"]

\* The value a tab is about to receive is nobody else's.
TabFresh(t) ==
    FreshOf(t) \in Tok =>
        /\ rows[FreshOf(t)].st # "used" /\ cookie # FreshOf(t)
        /\ \A u \in Tabs : req[u].tok # FreshOf(t)
        /\ \A u \in Tabs \ {t} : FreshOf(u) # FreshOf(t)

JarHolds ==
    cookie \in Tok /\ rows[cookie].st = "used" =>
        \E t \in Tabs : tab[t] = "posted" /\ req[t].pc \in {"create", "reply"}

CopiesIdle == \A c \in Copies : req[c] = Idle

Holding == CopiesIdle /\ (\A t \in Tabs : TabHolds(t)) /\ (\A t \in Tabs : TabFresh(t)) /\ JarHolds

\* OneHolderPerToken, part by part.
LEMMA HoldingMeans == OneHolderPerToken <=> (Undisturbed => Holding)
<1>1. ASSUME OneHolderPerToken, Undisturbed PROVE Holding
  <2>1. CopiesIdle /\ JarHolds
    BY <1>1 DEF OneHolderPerToken, CopiesIdle, JarHolds, Refreshing
  <2>2. \A t \in Tabs : TabHolds(t)
    BY <1>1 DEF OneHolderPerToken, TabHolds, Refreshing, Early, Replays, Fam
  <2>3. \A t \in Tabs : TabFresh(t)
    BY <1>1 DEF OneHolderPerToken, TabFresh, FreshOf
  <2> QED
    BY <2>1, <2>2, <2>3 DEF Holding
<1>2. ASSUME Holding PROVE OneHolderPerToken
  BY <1>2 DEF OneHolderPerToken, CopiesIdle, JarHolds, Refreshing, TabHolds, TabFresh, FreshOf, Early, Replays, Fam, Holding
<1>3. ASSUME ~Undisturbed PROVE OneHolderPerToken
  BY <1>3 DEF OneHolderPerToken
<1> QED
  BY <1>1, <1>2, <1>3

\* A step that moves no token value to a new place.
GentleTab(t) ==
    /\ FreshOf(t)' \in {FreshOf(t), 0} /\ req'[t].tok \in {req[t].tok, 0}
    /\ req'[t].pc \in Presents => req[t].pc \in Presents /\ req'[t].tok = req[t].tok
    /\ req[t].pc \in Presents \cup {"reply"} => req'[t].pc \in Presents \cup {"reply"}
    /\ req'[t].pc \in Early => req[t].pc \in Early
    /\ req'[t].pc \in Replays => req[t].pc \in Replays \/ rows[req[t].tok].fam \in log'["atExpiry"]
    /\ req[t].pc \in {"create", "reply"} => req'[t].pc \in {"create", "reply"}

Gentle ==
    /\ \A c \in Copies : req'[c] = req[c]
    /\ \A t \in Tok : rows'[t].fam = rows[t].fam /\ (rows'[t].st = "used" => rows[t].st = "used")
    /\ log["atExpiry"] \subseteq log'["atExpiry"]
    /\ UNCHANGED <<cookie, lock, tab>>
    /\ \A t \in Tabs : GentleTab(t)

\* A step that moves no token value to a new place keeps every value in one place.
LEMMA HoldingGentle ==
    ASSUME Core, Holding, Gentle PROVE Holding'
<1>1. CopiesIdle'
  BY DEF Holding, CopiesIdle, Gentle
<1>2. ASSUME NEW t \in Tabs PROVE TabHolds(t)'
  <2>0. TabHolds(t) /\ GentleTab(t) /\ lock' = lock /\ tab' = tab /\ t \in Actors
    BY DEF Holding, Gentle
  <2>1. req'[t].pc \in Early => req[t].tok \in Tok /\ req'[t].tok = req[t].tok
    BY <2>0, Presented, PCsUsed DEF GentleTab, Early
  <2>2. req'[t].pc \in Replays => req[t].tok \in Tok /\ req'[t].tok = req[t].tok
    BY <2>0, Presented, PCsUsed DEF GentleTab, Replays
  <2>3. (tab[t] = "posted" <=> lock = t)' /\ (req[t].pc \in Presents => tab[t] = "posted")'
        /\ (tab[t] = "posted" => req[t].pc \in Presents \cup {"reply"})'
    BY <2>0 DEF TabHolds, GentleTab
  <2>4. (req[t].pc \in Early => rows[req[t].tok].st # "used")'
    BY <2>0, <2>1 DEF TabHolds, GentleTab, Gentle
  <2>5. (req[t].pc \in Replays => rows[req[t].tok].fam \in log["atExpiry"])'
    BY <2>0, <2>2 DEF TabHolds, GentleTab, Gentle
  <2> QED
    BY <2>3, <2>4, <2>5 DEF TabHolds
<1>3. ASSUME NEW t \in Tabs PROVE TabFresh(t)'
  <2> SUFFICES ASSUME FreshOf(t)' \in Tok
               PROVE  /\ rows'[FreshOf(t)'].st # "used" /\ cookie' # FreshOf(t)'
                      /\ \A u \in Tabs : req'[u].tok # FreshOf(t)'
                      /\ \A u \in Tabs \ {t} : FreshOf(u)' # FreshOf(t)'
    BY DEF TabFresh
  <2>1. FreshOf(t)' = FreshOf(t) /\ FreshOf(t) # 0 /\ FreshOf(t) \in Tok
    BY DEF Gentle, GentleTab
  <2>2. TabFresh(t) /\ \A u \in Tabs : FreshOf(u)' \in {FreshOf(u), 0} /\ req'[u].tok \in {req[u].tok, 0}
    BY DEF Holding, Gentle, GentleTab
  <2> QED
    BY <2>1, <2>2 DEF TabFresh, Gentle
<1>4. JarHolds'
  BY DEF Holding, JarHolds, Gentle, GentleTab
<1> QED
  BY <1>1, <1>2, <1>3, <1>4 DEF Holding

\* Requests left alone move no value.
LEMMA GentleStill == ASSUME UNCHANGED <<req, log>> PROVE \A t \in Tabs : GentleTab(t)
BY DEF GentleTab, FreshOf

\* A refresh that moves on moves no value.
LEMMA GentleMove ==
    ASSUME NEW a \in Tabs, NEW p, Moves(a, p),
           req[a].pc \in Presents, p \in Presents, p \in Early => req[a].pc \in Early,
           p \in Replays => req[a].pc \in Replays \/ rows[req[a].tok].fam \in log'["atExpiry"],
           req[a].pc = "create" => p = "create"
    PROVE  /\ \A t \in Tabs : GentleTab(t)
           /\ \A c \in Copies : req'[c] = req[c]
<1>1. "reply" \notin Presents
  BY PCsUsed
<1>2. \A t \in Tabs \ {a} : req'[t] = req[t]
  BY DEF Moves, Becomes
<1>3. GentleTab(a)
  BY <1>1 DEF GentleTab, FreshOf, Moves, Becomes
<1>4. \A t \in Tabs \ {a} : GentleTab(t)
  BY <1>2 DEF GentleTab, FreshOf
<1> QED
  BY <1>3, <1>4 DEF Moves, Becomes

\* An answer with no value, or with the one the request already had, moves none.
LEMMA GentleAnswer ==
    ASSUME NEW a \in Tabs, NEW v, Answers(a, v), v \in {0, FreshOf(a)}
    PROVE  /\ \A t \in Tabs : GentleTab(t)
           /\ \A c \in Copies : req'[c] = req[c]
<1>1. "reply" \notin Presents /\ "reply" \notin Early /\ "reply" \notin Replays
  BY PCsUsed DEF Early, Replays
<1>2. \A t \in Tabs \ {a} : req'[t] = req[t]
  BY DEF Answers, Becomes
<1>3. GentleTab(a)
  BY <1>1 DEF GentleTab, FreshOf, Answers, Becomes
<1>4. \A t \in Tabs \ {a} : GentleTab(t)
  BY <1>2 DEF GentleTab, FreshOf
<1> QED
  BY <1>3, <1>4 DEF Answers, Becomes

\* The steps before and after the lookup decides.
LEMMA EarlyNames ==
    /\ Early \subseteq Presents /\ Replays \subseteq Presents /\ "create" \notin Early /\ "create" \notin Replays
    /\ {"attempt", "commit", "gate", "claim", "lookup"} \subseteq Early
    /\ {"reuse", "record", "sweep"} \subseteq Replays
    /\ "attempt" \notin Replays /\ "commit" \notin Replays /\ "lookup" \notin Replays /\ "claim" \notin Replays
    /\ "reuse" \notin Early /\ "record" \notin Early /\ "sweep" \notin Early
BY DEF Early, Replays, Presents

\* Deleting rows spends none.
LEMMA GentleRows ==
    /\ UNCHANGED rows => \A t \in Tok : rows'[t].fam = rows[t].fam /\ (rows'[t].st = "used" => rows[t].st = "used")
    /\ \A gone : Removes(gone) =>
         \A t \in Tok : rows'[t].fam = rows[t].fam /\ (rows'[t].st = "used" => rows[t].st = "used")
BY DEF Removes

\* A refresh that neither spends nor mints moves no value.
LEMMA RefreshGentle ==
    ASSUME Core, Holding, NEW a \in Actors, RefreshStep(a), ~TxnCommit(a), ~Claims(a), ~Create(a)
    PROVE  Gentle
<1>0. a \in Tabs
  <2>1. req[a].pc # "idle"
    BY DEF RefreshStep, TxnAttempt, TxnCommit, TxnAbort, Gate, Claim, Create, CreateFails, LookupMissing,
           LookupExpired, LookupReplay, RevokeLive, RecordReuse, SweepFamily, At
  <2>2. \A c \in Copies : req[c].pc = "idle"
    BY DEF Holding, CopiesIdle, Idle
  <2> QED
    BY <2>1, <2>2
<1>1. TabHolds(a) /\ log \in [Log -> SUBSET (0..MaxTok)] /\ "atExpiry" \in Log
  BY <1>0 DEF Holding, Core, TypeOK, Log
<1> USE PCsUsed, EarlyNames, GentleRows
<1>2. CASE TxnAttempt(a)
  BY <1>0, <1>2, TxnAttemptEffect, GentleMove, GentleAnswer DEF Gentle
<1>3. CASE TxnAbort(a)
  BY <1>0, <1>3, TxnAbortEffect, GentleMove DEF Gentle
<1>4. CASE Gate(a)
  BY <1>0, <1>4, GateEffect, GentleMove, GentleAnswer DEF Gentle
<1>5. CASE Claim(a)
  BY <1>0, <1>5, ClaimEffect, GentleMove DEF Gentle, Claims
<1>6. CASE CreateFails(a)
  BY <1>0, <1>6, CreateFailsEffect, GentleAnswer DEF Gentle
<1>7. CASE LookupMissing(a)
  BY <1>0, <1>7, LookupMissingEffect, GentleAnswer DEF Gentle
<1>8. CASE LookupExpired(a)
  BY <1>0, <1>8, LookupExpiredEffect, GentleAnswer DEF Gentle
<1>9. CASE LookupReplay(a)
  <2>1. /\ req[a].pc = "lookup" /\ Stored(req[a].tok) /\ Moves(a, "reuse") /\ UNCHANGED <<rows, cookie, lock, tab>>
        /\ log' = [log EXCEPT !["atExpiry"] =
                  IF rows[req[a].tok].st = "live" THEN @ \cup {Fam(req[a].tok)} ELSE @]
    BY <1>9, LookupReplayEffect
  <2>2. rows[req[a].tok].st = "live"
    BY <1>1, <2>1 DEF TabHolds, Stored
  <2>3. rows[req[a].tok].fam \in log'["atExpiry"] /\ log["atExpiry"] \subseteq log'["atExpiry"]
    BY <1>1, <2>1, <2>2 DEF Fam
  <2> QED
    BY <1>0, <2>1, <2>3, GentleMove DEF Gentle
<1>10. CASE RevokeLive(a)
  <2>1. log'["atExpiry"] = log["atExpiry"]
    BY <1>1, <1>10, RevokeLiveEffect
  <2> QED
    BY <1>0, <1>10, <2>1, RevokeLiveEffect, GentleMove DEF Gentle
<1>11. CASE RecordReuse(a)
  <2>1. log'["atExpiry"] = log["atExpiry"]
    BY <1>1, <1>11, RecordReuseEffect
  <2> QED
    BY <1>0, <1>11, <2>1, RecordReuseEffect, GentleMove DEF Gentle
<1>12. CASE SweepFamily(a)
  <2>1. log'["atExpiry"] = log["atExpiry"]
    BY <1>1, <1>12, SweepFamilyEffect
  <2> QED
    BY <1>0, <1>12, <2>1, SweepFamilyEffect, GentleAnswer DEF Gentle
<1> QED
  BY <1>2, <1>3, <1>4, <1>5, <1>6, <1>7, <1>8, <1>9, <1>10, <1>11, <1>12 DEF RefreshStep

\* The session cap, logout, the ends of sessions, the clock and the cleanup move no value.
LEMMA OthersGentle ==
    ASSUME Core, Holding,
           \/ \E t \in Tabs : CapFind(t) \/ CapDelete(t) \/ Logout(t) \/ LogoutAll(t)
           \/ EndEverySession \/ (\E x \in Tok : RevokeSession(x))
           \/ MarkDeletionPending \/ Tick \/ CleanupExpired \/ CleanupConsumed \/ UNCHANGED vars
    PROVE  Gentle
<1> USE GentleRows
<1>0. "atExpiry" \in Log
  BY DEF Log
<1>1. ASSUME NEW t \in Tabs, CapFind(t) PROVE Gentle
  <2>0. t \in Actors /\ req[t].pc = "capFind" /\ FreshOf(t) = req[t].new
    BY <1>1, CapFindEffect DEF FreshOf
  <2>1. CASE Answers(t, req[t].new)
    BY <1>1, <2>0, <2>1, CapFindEffect, GentleAnswer DEF Gentle
  <2>2. CASE Moves(t, "capDelete")
    <3>1. "capDelete" \notin Presents /\ "capDelete" \notin Early /\ "capDelete" \notin Replays /\ "capFind" \notin Presents
      BY DEF Presents, Early, Replays
    <3>2. GentleTab(t)
      BY <2>0, <2>2, <3>1 DEF GentleTab, Moves, Becomes, FreshOf
    <3>3. \A u \in Tabs \ {t} : GentleTab(u)
      BY <2>2 DEF GentleTab, Moves, Becomes, FreshOf
    <3>4. \A c \in Copies : req'[c] = req[c]
      BY <2>2 DEF Moves, Becomes
    <3> QED
      BY <1>1, <3>2, <3>3, <3>4, CapFindEffect DEF Gentle
  <2> QED
    BY <1>1, <2>1, <2>2, CapFindEffect
<1>2. ASSUME NEW t \in Tabs, CapDelete(t) PROVE Gentle
  <2>0. FreshOf(t) = req[t].new
    BY <1>2, CapDeleteEffect DEF FreshOf
  <2> QED
    BY <1>0, <1>2, <2>0, CapDeleteEffect, GentleAnswer DEF Gentle, Takes
<1>3. ASSUME NEW t \in Tabs, Logout(t) PROVE Gentle
  BY <1>0, <1>3, LogoutEffect, GentleAnswer DEF Gentle, Takes
<1>4. CASE (\E t \in Tabs : LogoutAll(t)) \/ EndEverySession \/ \E x \in Tok : RevokeSession(x)
  <2>1. PICK gone : Takes(gone)
    BY <1>4, EndEffect
  <2>2. UNCHANGED <<req, cookie, lock, tab>>
    BY <1>4, EndEffect
  <2>3. \A t \in Tabs : GentleTab(t)
    BY <2>2 DEF GentleTab, FreshOf
  <2> QED
    BY <1>0, <2>1, <2>2, <2>3 DEF Gentle, Takes
<1>5. CASE MarkDeletionPending
  BY <1>5, MarkDeletionPendingEffect, GentleStill DEF Gentle
<1>6. CASE Tick
  BY <1>6, TickEffect, GentleStill DEF Gentle
<1>7. CASE CleanupExpired
  BY <1>7, CleanupExpiredEffect, GentleStill DEF Gentle
<1>8. CASE CleanupConsumed
  <2>1. \A t \in Tabs : GentleTab(t)
    BY <1>8, CleanupConsumedEffect DEF GentleTab, FreshOf
  <2> QED
    BY <1>8, <2>1, CleanupConsumedEffect DEF Gentle
<1>9. CASE UNCHANGED vars
  BY <1>9, GentleStill DEF Gentle, vars
<1> QED
  BY <1>1, <1>2, <1>3, <1>4, <1>5, <1>6, <1>7, <1>8, <1>9

\* No value in flight is that of the token minted next.
LEMMA InFlight ==
    ASSUME Core
    PROVE  /\ next \in Nat /\ cookie < next /\ cookie \in Nat
           /\ \A t \in Tabs : /\ req[t].tok < next /\ req[t].tok \in Nat
                              /\ FreshOf(t) \in Tok => FreshOf(t) < next
<1>1. next \in 1..(MaxTok + 1) /\ cookie < next /\ cookie \in Nat
  BY DEF Core, TypeOK, RequestsOK
<1>2. ASSUME NEW t \in Tabs
      PROVE  /\ req[t].tok < next /\ req[t].tok \in Nat
             /\ FreshOf(t) \in Tok => FreshOf(t) < next
  <2>1. req[t] \in Request /\ req[t].tok < next /\ req[t].new < next /\ (req[t].set < next \/ req[t].set = Keep)
    BY DEF Core, TypeOK, RequestsOK
  <2>2. req[t].tok \in Nat /\ req[t].new \in Nat /\ req[t].set \in Nat
    BY <2>1 DEF Request
  <2> QED
    BY <1>1, <2>1, <2>2 DEF FreshOf
<1> QED
  BY <1>1, <1>2

\* While nothing has gone wrong the Web Lock admits one refresh.
LEMMA OneRefresher ==
    ASSUME Holding, NEW t \in Tabs, req[t].pc \in Presents
    PROVE  /\ tab[t] = "posted" /\ lock = t
           /\ \A u \in Tabs \ {t} : tab[u] # "posted" /\ req[u].pc \notin Presents
           /\ \A u \in Tabs \ {t} : req[u].pc \notin Early /\ req[u].pc \notin Replays
BY EarlyNames DEF Holding, TabHolds

\* The reply of a rotation: the value presented is spent, or was when it was claimed, and
\* The reply of a rotation carries a value nobody has seen.
LEMMA HoldingMints ==
    ASSUME Core, Holding, NEW a \in Tabs, req[a].pc \in Presents, req[a].tok \in Tok, Answers(a, next),
           UNCHANGED <<cookie, lock, tab, log>>, next \in Tok, rows'[next].st = "live",
           \A t \in Tok \ {next} : rows'[t].st = "used" => rows[t].st = "used" \/ t = req[a].tok
    PROVE  Holding'
<1>0. /\ req'[a].pc = "reply" /\ req'[a].tok = 0 /\ FreshOf(a)' = next
      /\ \A u \in Tabs \ {a} : req'[u] = req[u] /\ FreshOf(u)' = FreshOf(u)
      /\ \A c \in Copies : req'[c] = req[c]
  BY DEF Answers, Becomes, FreshOf
<1>1. CopiesIdle'
  BY <1>0 DEF Holding, CopiesIdle
<1>2. TabHolds(a)'
  BY <1>0, PCsUsed, OneRefresher, EarlyNames DEF TabHolds
<1>3. ASSUME NEW u \in Tabs \ {a} PROVE TabHolds(u)'
  <2>1. TabHolds(u) /\ req'[u] = req[u] /\ req[u].pc \notin Early /\ req[u].pc \notin Replays
    BY <1>0, OneRefresher DEF Holding
  <2> QED
    BY <2>1 DEF TabHolds
<1>4. TabFresh(a)'
  BY <1>0, InFlight DEF TabFresh
<1>5. ASSUME NEW u \in Tabs \ {a} PROVE TabFresh(u)'
  <2> SUFFICES ASSUME FreshOf(u) \in Tok PROVE TabFresh(u)'
    BY <1>0 DEF TabFresh
  <2>1. FreshOf(u) # next
    BY InFlight
  <2>2. TabFresh(u)
    BY DEF Holding
  <2>3. rows'[FreshOf(u)].st # "used"
    BY <2>1, <2>2 DEF TabFresh
  <2>4. \A w \in Tabs : req'[w].tok # FreshOf(u)
    BY <1>0, <2>2 DEF TabFresh
  <2>5. \A w \in Tabs \ {u} : FreshOf(w)' # FreshOf(u)
    BY <1>0, <2>1, <2>2 DEF TabFresh
  <2> QED
    BY <1>0, <2>2, <2>3, <2>4, <2>5 DEF TabFresh
<1>6. JarHolds'
  BY <1>0, OneRefresher DEF JarHolds
<1> QED
  BY <1>1, <1>2, <1>3, <1>4, <1>5, <1>6 DEF Holding

\* A standalone claim spends the value its own tab presented.
LEMMA HoldingClaims ==
    ASSUME Core, Holding, NEW a \in Tabs, Claims(a) PROVE Holding'
<1>0. /\ req[a].pc = "claim" /\ req[a].tok \in Tok /\ Spends(req[a].tok)
      /\ req'[a].pc = "create" /\ req'[a].tok = req[a].tok /\ FreshOf(a)' = FreshOf(a)
      /\ \A u \in Tabs \ {a} : req'[u] = req[u] /\ FreshOf(u)' = FreshOf(u)
      /\ \A c \in Copies : req'[c] = req[c]
      /\ UNCHANGED <<cookie, lock, tab, log>>
  BY Presented, PCsUsed DEF Claims, Moves, Becomes, FreshOf
<1>1. CopiesIdle'
  BY <1>0 DEF Holding, CopiesIdle
<1>2. TabHolds(a)'
  BY <1>0, PCsUsed, OneRefresher, EarlyNames DEF TabHolds
<1>3. ASSUME NEW u \in Tabs \ {a} PROVE TabHolds(u)'
  <2>1. TabHolds(u) /\ req'[u] = req[u] /\ req[u].pc \notin Early /\ req[u].pc \notin Replays
    BY <1>0, PCsUsed, OneRefresher DEF Holding
  <2> QED
    BY <1>0, <2>1 DEF TabHolds
<1>4. ASSUME NEW u \in Tabs PROVE TabFresh(u)'
  <2>1. TabFresh(u) /\ FreshOf(u)' = FreshOf(u)
    BY <1>0 DEF Holding
  <2>2. \A w \in Tabs : req'[w].tok = req[w].tok /\ FreshOf(w)' = FreshOf(w)
    BY <1>0
  <2> QED
    BY <1>0, <2>1, <2>2 DEF TabFresh, Spends
<1>5. JarHolds'
  BY <1>0, PCsUsed, OneRefresher DEF JarHolds
<1> QED
  BY <1>1, <1>2, <1>3, <1>4, <1>5 DEF Holding

\* A login mints a value nobody has seen.
LEMMA HoldingLogin ==
    ASSUME Core, Holding, NEW a \in Tabs, Login(a) PROVE Holding'
<1>0. /\ req'[a].pc = "capFind" /\ req'[a].tok = 0 /\ FreshOf(a)' = next /\ tab[a] = "idle"
      /\ \A u \in Tabs \ {a} : req'[u] = req[u] /\ FreshOf(u)' = FreshOf(u)
      /\ \A c \in Copies : req'[c] = req[c]
      /\ Mints(next) /\ UNCHANGED <<cookie, lock, tab, log>>
  BY LoginEffect DEF Becomes, FreshOf
<1>1. CopiesIdle'
  BY <1>0 DEF Holding, CopiesIdle
<1>2. TabHolds(a)'
  <2>1. "capFind" \notin Presents /\ "capFind" \notin Early /\ "capFind" \notin Replays
    BY DEF Presents, Early, Replays
  <2> QED
    BY <1>0, <2>1 DEF Holding, TabHolds
<1>3. ASSUME NEW u \in Tabs \ {a} PROVE TabHolds(u)'
  <2>1. TabHolds(u) /\ req'[u] = req[u] /\ u \in Actors
    BY <1>0 DEF Holding
  <2>2. req[u].pc \in Early \/ req[u].pc \in Replays => req[u].tok \in Tok \ {next}
    BY <2>1, Presented, EarlyNames
  <2> QED
    BY <1>0, <2>1, <2>2 DEF TabHolds, Mints
<1>4. TabFresh(a)'
  BY <1>0, InFlight DEF TabFresh, Mints
<1>5. ASSUME NEW u \in Tabs \ {a} PROVE TabFresh(u)'
  <2> SUFFICES ASSUME FreshOf(u) \in Tok PROVE TabFresh(u)'
    BY <1>0 DEF TabFresh
  <2>1. FreshOf(u) # next
    BY InFlight
  <2>2. TabFresh(u)
    BY DEF Holding
  <2>3. rows'[FreshOf(u)].st # "used"
    BY <1>0, <2>1, <2>2 DEF TabFresh, Mints
  <2>4. \A w \in Tabs : req'[w].tok # FreshOf(u)
    BY <1>0, <2>2 DEF TabFresh
  <2>5. \A w \in Tabs \ {u} : FreshOf(w)' # FreshOf(u)
    BY <1>0, <2>1, <2>2 DEF TabFresh
  <2> QED
    BY <1>0, <2>2, <2>3, <2>4, <2>5 DEF TabFresh
<1>6. JarHolds'
  <2>1. cookie # next
    BY InFlight
  <2>2. \A t \in Tabs : req[t].pc \in {"create", "reply"} => req'[t].pc = req[t].pc
    BY <1>0, LoginEffect
  <2> QED
    BY <1>0, <2>1, <2>2 DEF Holding, JarHolds, Mints
<1> QED
  BY <1>1, <1>2, <1>3, <1>4, <1>5, <1>6 DEF Holding

\* A logout presents the jar's value, which nobody is about to receive.
LEMMA HoldingSendLogout ==
    ASSUME Core, Holding, NEW a \in Tabs, SendLogout(a) PROVE Holding'
<1>0. /\ req[a].pc = "idle" /\ tab[a] = "idle"
      /\ req'[a].pc = "logout" /\ req'[a].tok = cookie /\ FreshOf(a)' = 0
      /\ \A u \in Tabs \ {a} : req'[u] = req[u] /\ FreshOf(u)' = FreshOf(u)
      /\ \A c \in Copies : req'[c] = req[c]
      /\ UNCHANGED <<rows, cookie, lock, tab, log>>
  BY SendLogoutEffect DEF Becomes, FreshOf
<1>1. CopiesIdle'
  BY <1>0 DEF Holding, CopiesIdle
<1>2. TabHolds(a)'
  <2>1. "logout" \notin Presents /\ "logout" \notin Early /\ "logout" \notin Replays
    BY DEF Presents, Early, Replays
  <2> QED
    BY <1>0, <2>1 DEF Holding, TabHolds
<1>3. ASSUME NEW u \in Tabs \ {a} PROVE TabHolds(u)'
  <2>1. TabHolds(u) /\ req'[u] = req[u]
    BY <1>0 DEF Holding
  <2> QED
    BY <1>0, <2>1 DEF TabHolds
<1>4. ASSUME NEW u \in Tabs PROVE TabFresh(u)'
  <2>1. TabFresh(u)
    BY DEF Holding
  <2> QED
    BY <1>0, <2>1 DEF TabFresh
<1>5. JarHolds'
  BY <1>0 DEF Holding, JarHolds
<1> QED
  BY <1>1, <1>2, <1>3, <1>4, <1>5 DEF Holding

\* Asking for the Web Lock moves no value.
LEMMA HoldingQueue ==
    ASSUME Core, Holding, NEW a \in Tabs, Queue(a) PROVE Holding'
<1>0. /\ tab[a] = "idle" /\ tab'[a] = "queued" /\ \A u \in Tabs \ {a} : tab'[u] = tab[u]
      /\ UNCHANGED <<rows, req, cookie, lock, log>>
  BY QueueEffect DEF Sets
<1>1. CopiesIdle' /\ JarHolds'
  BY <1>0 DEF Holding, CopiesIdle, JarHolds
<1>2. ASSUME NEW u \in Tabs PROVE TabHolds(u)' /\ TabFresh(u)'
  BY <1>0 DEF Holding, TabHolds, TabFresh, FreshOf
<1> QED
  BY <1>1, <1>2 DEF Holding

\* The tab that is granted the lock presents an unspent value.
LEMMA HoldingGranted ==
    ASSUME Core, Holding, NEW a \in Tabs, Granted(a) PROVE Holding'
<1>0. /\ tab[a] = "queued" /\ lock = NoTab /\ lock # a
      /\ \A u \in Tabs : tab[u] # "posted" /\ req[u].pc \notin Presents /\ lock # u
      /\ lock' = IF cookie = 0 THEN NoTab ELSE a
      /\ UNCHANGED <<rows, cookie, log>> /\ Posts(a)
  BY GrantedEffect DEF Holding, TabHolds
<1>1. CASE cookie = 0
  <2>0. tab'[a] = "idle" /\ (\A u \in Tabs \ {a} : tab'[u] = tab[u]) /\ req' = req /\ lock' = lock
    BY <1>0, <1>1 DEF Posts, Sets
  <2>1. CopiesIdle' /\ JarHolds'
    BY <1>0, <1>1, <2>0 DEF Holding, CopiesIdle, JarHolds
  <2>2. ASSUME NEW u \in Tabs PROVE TabHolds(u)' /\ TabFresh(u)'
    BY <1>0, <2>0 DEF Holding, TabHolds, TabFresh, FreshOf
  <2> QED
    BY <2>1, <2>2 DEF Holding
<1>2. CASE cookie # 0
  <2>0. /\ tab'[a] = "posted" /\ \A u \in Tabs \ {a} : tab'[u] = tab[u]
        /\ lock' = a /\ req'[a].pc \in {"attempt", "gate"} /\ req'[a].tok = cookie /\ req'[a].new = 0
        /\ \A u \in Tabs \ {a} : req'[u] = req[u]
        /\ \A c \in Copies : req'[c] = req[c]
    BY <1>0, <1>2 DEF Posts, Sets, Becomes
  <2>1. /\ FreshOf(a)' = 0 /\ \A u \in Tabs \ {a} : FreshOf(u)' = FreshOf(u)
    BY <2>0 DEF FreshOf
  <2>2. cookie \in Tok => rows[cookie].st # "used"
    BY <1>0 DEF Holding, JarHolds
  <2>3. cookie \in Tok
    BY <1>2 DEF Core, TypeOK, RequestsOK
  <2>4. CopiesIdle' /\ JarHolds'
    BY <1>0, <2>0, <2>2 DEF Holding, CopiesIdle, JarHolds
  <2>5. TabHolds(a)'
    BY <1>0, <2>0, <2>2, <2>3, EarlyNames DEF TabHolds, Replays
  <2>6. ASSUME NEW u \in Tabs \ {a} PROVE TabHolds(u)'
    BY <1>0, <2>0, EarlyNames DEF TabHolds
  <2>7. ASSUME NEW u \in Tabs PROVE TabFresh(u)'
    <3>1. TabFresh(u)
      BY DEF Holding
    <3> QED
      BY <1>0, <2>0, <2>1, <3>1 DEF TabFresh
  <2> QED
    BY <2>4, <2>5, <2>6, <2>7 DEF Holding
<1> QED
  BY <1>1, <1>2

\* The delivered value replaces the spent one in the jar.
LEMMA HoldingDeliver ==
    ASSUME Core, Holding, NEW a \in Tabs, Deliver(a) PROVE Holding'
<1>0. /\ cookie' = FreshOf(a) /\ req'[a].pc = "idle" /\ req'[a].tok = 0 /\ FreshOf(a)' = 0
      /\ \A u \in Tabs \ {a} : req'[u] = req[u] /\ FreshOf(u)' = FreshOf(u)
      /\ \A c \in Copies : req'[c] = req[c]
      /\ tab'[a] = "idle" /\ \A u \in Tabs \ {a} : tab'[u] = tab[u]
      /\ lock' = IF lock = a THEN NoTab ELSE lock
      /\ UNCHANGED <<rows, log>>
  BY DeliverEffect DEF Clears, Becomes, FreshOf, Sets
<1>1. CopiesIdle'
  BY <1>0 DEF Holding, CopiesIdle
<1>2. TabHolds(a)'
  <2>1. "idle" \notin Presents /\ "idle" \notin Early /\ "idle" \notin Replays
    BY DEF Presents, Early, Replays
  <2> QED
    BY <1>0, <2>1 DEF TabHolds
<1>3. ASSUME NEW u \in Tabs \ {a} PROVE TabHolds(u)'
  <2>1. TabHolds(u) /\ req'[u] = req[u] /\ (lock' = u <=> lock = u)
    BY <1>0 DEF Holding
  <2> QED
    BY <1>0, <2>1 DEF TabHolds
<1>4. ASSUME NEW u \in Tabs PROVE TabFresh(u)'
  <2>1. TabFresh(u) /\ TabFresh(a)
    BY DEF Holding
  <2> QED
    BY <1>0, <2>1 DEF TabFresh
<1>5. JarHolds'
  <2>1. TabFresh(a)
    BY DEF Holding
  <2> QED
    BY <1>0, <2>1 DEF TabFresh, JarHolds
<1> QED
  BY <1>1, <1>2, <1>3, <1>4, <1>5 DEF Holding

\* Every step keeps each value in one place until something goes wrong.
LEMMA HolderPreserved ==
    ASSUME Core, OneHolderPerToken, [Next]_vars PROVE OneHolderPerToken'
<1>0. (Undisturbed => Holding)' => OneHolderPerToken'
  BY HoldingMeans, PTL
<1> SUFFICES ASSUME faults' = 0, weblocks' PROVE Holding'
  BY <1>0 DEF Undisturbed
<1>1. ASSUME NEW a \in Actors, RefreshStep(a) PROVE faults' = faults /\ weblocks' = weblocks
  BY <1>1 DEF RefreshStep, TxnAttempt, TxnCommit, TxnAbort, Gate, Claim, Create, CreateFails, LookupMissing,
           LookupExpired, LookupReplay, RevokeLive, RecordReuse, SweepFamily
<1>2. ASSUME faults = 0, weblocks PROVE Holding
  BY <1>2, HoldingMeans DEF Undisturbed
<1>3. ASSUME NEW a \in Actors, RefreshStep(a) PROVE Holding'
  <2>1. Holding
    BY <1>1, <1>2, <1>3
  <2>2. CASE ~TxnCommit(a) /\ ~Claims(a) /\ ~Create(a)
    BY <1>3, <2>1, <2>2, RefreshGentle, HoldingGentle
  <2>3. req[a].pc # "idle" => a \in Tabs
    BY <2>1 DEF Holding, CopiesIdle, Idle
  <2>4. CASE TxnCommit(a)
    <3>1. req[a].pc = "commit" /\ Rotates(req[a].tok) /\ Answers(a, next) /\ UNCHANGED <<cookie, lock, tab, log>>
      BY <2>4, TxnCommitEffect
    <3>2. /\ next \in Tok /\ rows'[next].st = "live"
          /\ \A t \in Tok \ {next} : rows'[t].st = "used" => rows[t].st = "used" \/ t = req[a].tok
      BY <3>1 DEF Rotates
    <3>3. req[a].pc \in Presents /\ req[a].tok \in Tok /\ a \in Tabs
      BY <2>3, <3>1, Presented, PCsUsed
    <3> QED
      BY <2>1, <3>1, <3>2, <3>3, HoldingMints
  <2>5. CASE Claims(a)
    BY <2>1, <2>3, <2>5, HoldingClaims DEF Claims
  <2>6. CASE Create(a)
    <3>1. req[a].pc = "create" /\ Mints(Fam(req[a].tok)) /\ Answers(a, next) /\ UNCHANGED <<cookie, lock, tab, log>>
      BY <2>6, CreateEffect
    <3>2. /\ next \in Tok /\ rows'[next].st = "live"
          /\ \A t \in Tok \ {next} : rows'[t].st = "used" => rows[t].st = "used" \/ t = req[a].tok
      BY <3>1 DEF Mints
    <3>3. req[a].pc \in Presents /\ req[a].tok \in Tok /\ a \in Tabs
      BY <2>3, <3>1, Presented, PCsUsed
    <3> QED
      BY <2>1, <3>1, <3>2, <3>3, HoldingMints
  <2> QED
    BY <2>2, <2>4, <2>5, <2>6
<1>4. ASSUME NEW t \in Tabs, TabStep(t) PROVE Holding'
  <2>1. CASE LockFails(t)
    BY <2>1, LockFailsEffect
  <2>2. CASE Unserialized(t)
    BY <2>2, UnserializedEffect
  <2>3. CASE ~LockFails(t) /\ ~Unserialized(t)
    <3>1. faults' = faults /\ weblocks' = weblocks
      BY <1>4, <2>3 DEF TabStep, Queue, Granted, Deliver, Login, CapFind, CapDelete, SendLogout, Logout, LogoutAll
    <3>2. Holding
      BY <1>2, <3>1
    <3> QED
      BY <1>4, <2>3, <3>2, HoldingQueue, HoldingGranted, HoldingDeliver, HoldingLogin, HoldingSendLogout,
         OthersGentle, HoldingGentle DEF TabStep
  <2> QED
    BY <2>1, <2>2, <2>3
<1>5. ASSUME NEW a \in Actors, Lose(a) PROVE Holding'
  BY <1>5, LoseEffect
<1>6. ASSUME NEW c \in Copies, NEW tok \in Tok, Present(c, tok) PROVE Holding'
  BY <1>6, PresentEffect
<1>7. ASSUME NEW c \in Copies, CopyAnswered(c) PROVE Holding'
  <2>1. faults = 0 /\ weblocks /\ req[c].pc = "reply"
    BY <1>7, CopyAnsweredEffect
  <2> QED
    BY <1>2, <2>1 DEF Holding, CopiesIdle, Idle
<1>8. CASE \/ EndEverySession \/ (\E x \in Tok : RevokeSession(x))
           \/ MarkDeletionPending \/ Tick \/ CleanupExpired \/ CleanupConsumed \/ UNCHANGED vars
  <2>1. faults' = faults /\ weblocks' = weblocks
    BY <1>8 DEF EndEverySession, RevokeSession, MarkDeletionPending, Tick, CleanupExpired, CleanupConsumed, vars
  <2> QED
    BY <1>2, <1>8, <2>1, OthersGentle, HoldingGentle
<1> QED
  BY <1>3, <1>4, <1>5, <1>6, <1>7, <1>8 DEF Next

-----------------------------------------------------------------------------
(* The theorems.                                                           *)

\* No step of tabs that lost nothing answers a replay of a spent value.
LEMMA NeverReplayPreserved ==
    ASSUME Core, OneHolderPerToken, TabsNeverReplay, [Next]_vars PROVE TabsNeverReplay'
<1>0. /\ log \in [Log -> SUBSET (0..MaxTok)] /\ "answered" \in Log /\ "atExpiry" \in Log
      /\ faults \in Nat /\ weblocks \in BOOLEAN /\ (Undisturbed => log["answered"] \subseteq log["atExpiry"])
  BY DEF Core, TypeOK, Log, TabsNeverReplay
<1>1. ASSUME faults' = faults \/ faults' > 0, weblocks' = weblocks, log["atExpiry"] \subseteq log'["atExpiry"],
             log'["answered"] = log["answered"]
      PROVE  TabsNeverReplay'
  <2>1. Undisturbed' => Undisturbed
    BY <1>0, <1>1 DEF Undisturbed
  <2> QED
    BY <1>0, <1>1, <2>1 DEF TabsNeverReplay
<1>2. CASE Quiet
  BY <1>1, <1>2 DEF Quiet
<1>3. CASE Ending
  BY <1>0, <1>1, <1>3 DEF Ending, Takes
<1>4. ASSUME NEW a \in Actors, TxnCommit(a) \/ Claims(a) \/ Create(a) \/ LookupExpired(a)
      PROVE  TabsNeverReplay'
  BY <1>1, <1>4, TxnCommitEffect, CreateEffect, LookupExpiredEffect DEF Claims
<1>5. ASSUME NEW a \in Actors, LookupReplay(a) PROVE TabsNeverReplay'
  BY <1>0, <1>1, <1>5, LookupReplayEffect
<1>6. ASSUME NEW a \in Actors, RevokeLive(a) PROVE TabsNeverReplay'
  BY <1>0, <1>1, <1>6, RevokeLiveEffect
<1>7. ASSUME NEW a \in Actors, RecordReuse(a) PROVE TabsNeverReplay'
  BY <1>0, <1>1, <1>7, RecordReuseEffect
<1>8. ASSUME NEW a \in Actors, SweepFamily(a) PROVE TabsNeverReplay'
  <2>1. /\ log'["answered"] = log["answered"] \cup {Fam(req[a].tok)} /\ log'["atExpiry"] = log["atExpiry"]
        /\ (Undisturbed' <=> Undisturbed) /\ req[a].pc = "sweep"
    BY <1>0, <1>8, SweepFamilyEffect DEF Undisturbed
  <2>2. CASE Undisturbed
    <3>0. Holding
      BY <2>2, HoldingMeans
    <3>1. a \in Tabs
      <4>1. \A c \in Copies : req[c].pc = "idle"
        BY <3>0 DEF Holding, CopiesIdle, Idle
      <4> QED
        BY <2>1, <4>1
    <3>2. Fam(req[a].tok) \in log["atExpiry"]
      BY <2>1, <3>0, <3>1, EarlyNames DEF Holding, TabHolds, Fam
    <3> QED
      BY <1>0, <2>1, <2>2, <3>2 DEF TabsNeverReplay
  <2>3. CASE ~Undisturbed
    BY <1>0, <2>1, <2>3 DEF TabsNeverReplay
  <2> QED
    BY <2>2, <2>3
<1>9. ASSUME NEW t \in Tabs, Login(t) PROVE TabsNeverReplay'
  BY <1>1, <1>9, LoginEffect
<1>10. CASE CleanupExpired
  BY <1>1, <1>10, CleanupExpiredEffect
<1>11. CASE CleanupConsumed
  BY <1>0, <1>1, <1>11, CleanupConsumedEffect
<1> QED
  BY <1>2, <1>3, <1>4, <1>5, <1>6, <1>7, <1>8, <1>9, <1>10, <1>11, StepKinds

\* A value below the next token to be minted is no phantom.
LEMMA CoreBacksCookies ==
    ASSUME Core PROVE IssuedCookieIsBacked
<1>1. next \in 1..(MaxTok + 1) /\ cookie \in 0..Phantom /\ cookie < next
  BY DEF Core, TypeOK, RequestsOK
<1>2. ASSUME NEW a \in Actors PROVE req[a].set # Phantom
  <2>1. req[a] \in Request /\ (req[a].set < next \/ req[a].set = Keep)
    BY DEF Core, TypeOK, RequestsOK
  <2>2. req[a].set \in Nat
    BY <2>1 DEF Request
  <2> QED
    BY <1>1, <2>1, <2>2
<1> QED
  BY <1>1, <1>2 DEF IssuedCookieIsBacked

Safe ==
    /\ Core /\ Chain /\ UseIsDated /\ ReplayOrder /\ OneHolderPerToken
    /\ ReuseRecorded /\ NoLiveAfterReuse /\ TabsNeverReplay /\ SpentRowKept

\* SessionsInv is the conjunction proved inductive.
LEMMA SafeMeans == SessionsInv <=> Safe
<1>1. Core => IssuedCookieIsBacked
  BY CoreBacksCookies
<1> QED
  BY <1>1 DEF SessionsInv, Safe, Core, Chain, ChainInv

\* Initially no token exists and no request is under way.
LEMMA SafeInit == Init => Safe
<1> SUFFICES ASSUME Init PROVE Safe
  OBVIOUS
<1>0. NoRow \in Row
  BY DEF NoRow, Row
<1>1. /\ rows = [t \in Tok |-> NoRow] /\ req = [a \in Actors |-> Idle] /\ next = 1 /\ now = 0
      /\ \A t \in Tok : rows[t] = NoRow /\ rows[t].st = "unminted" /\ rows[t].usedAt = NotUsed
      /\ \A a \in Actors : req[a] = Idle /\ req[a].pc = "idle" /\ req[a].tok = 0 /\ req[a].new = 0 /\ req[a].set = Keep
      /\ "idle" \notin Presents
      /\ \A k \in Log : log[k] = {}
      /\ log["answered"] = {} /\ cookie = 0 /\ lock = NoTab
  BY DEF Init, NoRow, Idle, Presents, Log
<1>2. TypeOK
  <2>1. rows \in [Tok -> Row] /\ req \in [Actors -> Request] /\ \A t \in Tok : rows[t].st = "unminted" <=> t >= next
    BY <1>0, <1>1, IdleIsRequest
  <2>2. topology \in Topologies /\ weblocks \in BOOLEAN /\ pending \in BOOLEAN
        /\ tab \in [Tabs -> {"idle", "queued", "posted"}]
        /\ log \in [Log -> SUBSET (0..MaxTok)] /\ faults = 0 /\ ends = 0
    BY SessionsAssumption DEF Init
  <2> QED
    BY <1>1, <2>1, <2>2 DEF TypeOK
<1>3. RequestsOK
  BY <1>1 DEF RequestsOK
<1>4. Core
  BY <1>1, <1>2, <1>3 DEF Core, FamilyIsNamed
<1>5. Chain
  BY <1>1 DEF Chain, FamilyLinear, CreateIsAlone, LiveRows, At
<1>6. UseIsDated
  BY <1>1 DEF UseIsDated
<1>7. ReplayOrder
  BY <1>1 DEF ReplayOrder
<1>8. ReuseRecorded /\ NoLiveAfterReuse /\ TabsNeverReplay
  BY <1>1 DEF ReuseRecorded, NoLiveAfterReuse, TabsNeverReplay
<1>9. SpentRowKept
  BY <1>1 DEF SpentRowKept
<1>10. OneHolderPerToken
  <2>1. CopiesIdle /\ JarHolds
    BY <1>1 DEF CopiesIdle, JarHolds
  <2>2. \A t \in Tabs : FreshOf(t) = 0
    BY <1>1 DEF FreshOf
  <2>3. \A t \in Tabs : TabFresh(t)
    BY <2>2 DEF TabFresh
  <2>4. \A t \in Tabs : TabHolds(t)
    BY <1>1, EarlyNames DEF TabHolds, Init
  <2> QED
    BY <2>1, <2>3, <2>4, HoldingMeans DEF Holding
<1> QED
  BY <1>4, <1>5, <1>6, <1>7, <1>8, <1>9, <1>10 DEF Safe

\* Every step preserves the conjunction.
LEMMA SafeStep == Safe /\ [Next]_vars => Safe'
<1> SUFFICES ASSUME Safe, [Next]_vars PROVE Safe'
  OBVIOUS
<1>1. Core' /\ Chain' /\ UseIsDated'
  BY CorePreserved, ChainPreserved, DatedPreserved DEF Safe
<1>2. (ReplayOrder /\ ReuseRecorded /\ NoLiveAfterReuse)'
  BY ReplayPreserved DEF Safe
<1>3. SpentRowKept'
  BY KeptPreserved DEF Safe
<1>4. OneHolderPerToken' /\ TabsNeverReplay'
  BY HolderPreserved, NeverReplayPreserved DEF Safe
<1> QED
  BY <1>1, <1>2, <1>3, <1>4 DEF Safe

\* The inductive invariant of the session model holds in every reachable state.
THEOREM SessionsInvHolds == Spec => []SessionsInv
<1>1. Spec => []Safe
  BY SafeInit, SafeStep, PTL DEF Spec
<1> QED
  BY <1>1, SafeMeans, PTL

\* However refreshes, replays, crashes and retries interleave, on either topology and for
\* any number of tabs and copies, a family never has two rows that can be claimed.
THEOREM FamilyNeverForks == Spec => []FamilyLinear
<1>1. SessionsInv => FamilyLinear
  BY DEF SessionsInv, ChainInv
<1> QED
  BY <1>1, SessionsInvHolds, PTL

\* No reply carries a cookie whose row was rolled back: `claimed` is reset at the head of
\* every transaction attempt.
THEOREM IssuedCookieIsBackedHolds == Spec => []IssuedCookieIsBacked
<1>1. SessionsInv => IssuedCookieIsBacked
  BY DEF SessionsInv
<1> QED
  BY <1>1, SessionsInvHolds, PTL

\* A family that was answered TOKEN_REUSE_DETECTED has its audit row, whichever replays raced,
\* unless another request took the spent row first or the row expired at that instant.
THEOREM ReuseRecordedHolds == Spec => []ReuseRecorded
<1>1. SessionsInv => ReuseRecorded
  BY DEF SessionsInv
<1> QED
  BY <1>1, SessionsInvHolds, PTL

\* With transactions, an answered replay leaves no descendant of the family that can be
\* claimed, and a rotation under way adds none.
THEOREM NoLiveAfterReuseHolds == Spec => []NoLiveAfterReuse
<1>1. SessionsInv => NoLiveAfterReuse
  BY DEF SessionsInv
<1> QED
  BY <1>1, SessionsInvHolds, PTL

\* Any number of tabs sharing a jar, in a browser that has Web Locks, never trip reuse detection on their own.
THEOREM TabsNeverReplayHolds == Spec => []TabsNeverReplay
<1>1. SessionsInv => TabsNeverReplay
  BY DEF SessionsInv
<1> QED
  BY <1>1, SessionsInvHolds, PTL

\* The evidence of a rotation outlasts the reuse window unless its family was ended on purpose.
THEOREM SpentRowKeptHolds == Spec => []SpentRowKept
<1>1. SessionsInv => SpentRowKept
  BY DEF SessionsInv
<1> QED
  BY <1>1, SessionsInvHolds, PTL

=============================================================================
