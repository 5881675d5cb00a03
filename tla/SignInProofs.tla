---------------------------- MODULE SignInProofs ----------------------------
(***************************************************************************)
(* The properties of SignIn hold for every number of requests, every       *)
(* threshold and lifetime (with links that outlive a lockout), every mix   *)
(* of operations and every number of faults. SignInInv is inductive; its   *)
(* parts are proved one by one, over the effect of every action.           *)
(***************************************************************************)
EXTENDS SignIn, TLAPS

\* What the assumption on the constants says of each of them.
LEMMA Constants ==
    /\ MaxAttempts \in Nat /\ MaxAttempts # 0 /\ MaxProofFailures \in Nat /\ MaxProofFailures # 0
    /\ LockFor \in Nat /\ LockFor # 0 /\ ChallengeLife \in Nat /\ ChallengeLife # 0
    /\ MaxTime \in Nat /\ MaxTime # 0 /\ MaxFaults \in Nat /\ LinkLife \in Nat /\ SetupLife \in Nat
    /\ LinkLife > LockFor /\ Drifts \subseteq {0, 1}
    /\ \A m \in Mixes : m.starts \in Nat
BY SignInAssumption
USE Constants

-----------------------------------------------------------------------------
(* Requests, and the operators that change them.                           *)

\* A cleared brake is a brake.
LEMMA ClearIsBrake == Clear \in Brake
BY DEF Clear, Brake

\* A request that has not begun is a request.
LEMMA IdleIsRequest == Idle \in Request
<1>1. "idle" \in PCs /\ "none" \in Ops /\ "password" \in Factors /\ Wrong \in Code
  BY DEF PCs, Ops, SiteOps, Factors, Wrong, Code
<1>2. Unread \in Reading
  BY ClearIsBrake DEF Unread, Reading
<1> QED
  BY <1>1, <1>2 DEF Request, Idle

\* The fields of a request.
LEMMA Fields ==
    ASSUME NEW q \in Request
    PROVE  /\ q.pc \in PCs /\ q.op \in Ops /\ q.f \in Factors /\ q.match \in BOOLEAN
           /\ q.proof \in Nat /\ q.cookie \in Nat /\ q.ch \in Nat /\ q.code \in Code
           /\ q.ok \in BOOLEAN /\ q.now \in Nat /\ q.ep \in Nat /\ q.seen \in Reading
BY DEF Request

\* What a handler keeps of the account is a reading of it, and it knows of a
\* running lockout.
LEMMA SnapshotIsReading ==
    ASSUME TypeOK
    PROVE  Snapshot \in Reading /\ (~Snapshot.pwRunning => Snapshot.pw.until <= clock)
<1>1. lock["password"] \in Brake /\ lock["second_factor"] \in Brake /\ acct \in Account
  BY DEF TypeOK, Factors
<1>2. lock["password"].until \in Nat /\ clock \in Nat
  BY <1>1 DEF Brake, TypeOK
<1>3. acct.secret \in Nat /\ acct.last \in Nat /\ acct.codes \in SUBSET Nat /\ acct.pend \in Nat
  BY <1>1 DEF Account
<1>4. Running("password") \in BOOLEAN /\ Running("second_factor") \in BOOLEAN
  BY DEF Running
<1>5. (lock["second_factor"] # Clear) \in BOOLEAN
  OBVIOUS
<1>6. Snapshot \in Reading
  BY <1>1, <1>3, <1>4, <1>5, Zenon DEF Snapshot, Reading
<1>7. Snapshot.pw = lock["password"] /\ Snapshot.pwRunning = Running("password")
  BY Zenon DEF Snapshot
<1>8. ~Snapshot.pwRunning => ~(lock["password"].until > clock)
  BY <1>7, Zenon DEF Running
<1>9. ~(lock["password"].until > clock) => lock["password"].until <= clock
  BY <1>2
<1> QED
  BY <1>6, <1>7, <1>8, <1>9, Zenon

\* Every branch leads to a step of a handler.
LEMMA BranchesLead ==
    ASSUME NEW q, NEW b \in BOOLEAN
    PROVE  /\ AfterPassword(q) \in {"clearPw", "trust", "challenge"}
           /\ AfterProof(q, b) \in {"extend", "charge", "count", "servePw", "clearPw", "trust",
                                    "challenge"}
           /\ AfterProof(q, b) = "servePw" => ~q.seen.pwRunning
           /\ AfterCheck(q, b) \in {"takeChallenge", "site", "count", "idle"}
           /\ AfterCheck(q, b) = "site" => q.op # "login2fa"
           /\ AfterCheck(q, b) = "takeChallenge" => q.op = "login2fa"
<1>1. AfterPassword(q) \in {"clearPw", "trust", "challenge"}
  BY DEF AfterPassword
<1> HIDE DEF AfterPassword
<1>2. AfterProof(q, b) \in {"extend", "charge", "count", "servePw", "clearPw", "trust", "challenge"}
  BY <1>1 DEF AfterProof
<1>3. AfterProof(q, b) = "servePw" => ~q.seen.pwRunning
  BY <1>1 DEF AfterProof
<1> QED
  BY <1>1, <1>2, <1>3 DEF AfterCheck

\* Moving on changes one request, and of that only where it is.
LEMMA GotoFacts ==
    ASSUME req \in [Reqs -> Request], NEW r \in Reqs, NEW p \in PCs, Goto(r, p)
    PROVE  /\ req' \in [Reqs -> Request] /\ \A x \in Reqs \ {r} : req'[x] = req[x]
           /\ req'[r] = [req[r] EXCEPT !.pc = p]
           /\ req'[r].pc = p /\ req'[r].op = req[r].op /\ req'[r].f = req[r].f
           /\ req'[r].ch = req[r].ch /\ req'[r].now = req[r].now /\ req'[r].ep = req[r].ep
           /\ req'[r].seen = req[r].seen
<1>1. req[r] \in Request
  OBVIOUS
<1>2. req' = [req EXCEPT ![r] = [req[r] EXCEPT !.pc = p]]
  BY DEF Goto
<1>3. [req[r] EXCEPT !.pc = p] \in Request
  BY <1>1 DEF Request
<1> QED
  BY <1>1, <1>2, <1>3 DEF Request

\* So does ending.
LEMMA EndFacts ==
    ASSUME req \in [Reqs -> Request], NEW r \in Reqs, End(r)
    PROVE  /\ req' \in [Reqs -> Request] /\ \A x \in Reqs \ {r} : req'[x] = req[x]
           /\ req'[r] = Idle
BY IdleIsRequest DEF End

\* And beginning.
LEMMA BeginFacts ==
    ASSUME TypeOK, mix' = mix, NEW r \in Reqs, NEW rec \in Request, Begin(r, rec)
    PROVE  /\ req' \in [Reqs -> Request] /\ \A x \in Reqs \ {r} : req'[x] = req[x]
           /\ req'[r] = rec
           /\ starts' \in 0..mix'.starts
BY DEF Begin, TypeOK

\* Identities only grow.
LEMMA MintFacts ==
    ASSUME fresh \in Counters, NEW k \in {"ep", "proof", "ch", "trust", "code", "secret"}, Mint(k)
    PROVE  /\ fresh' \in Counters
           /\ fresh'.ep = (IF k = "ep" THEN fresh.ep + 1 ELSE fresh.ep)
           /\ fresh'.proof = (IF k = "proof" THEN fresh.proof + 1 ELSE fresh.proof)
           /\ fresh'.ch = (IF k = "ch" THEN fresh.ch + 1 ELSE fresh.ch)
           /\ fresh'.code = (IF k = "code" THEN fresh.code + 1 ELSE fresh.code)
           /\ fresh'.secret = (IF k = "secret" THEN fresh.secret + 1 ELSE fresh.secret)
BY DEF Mint, Counters

\* The requests a handler begins with.
LEMMA BegunRequests ==
    ASSUME NEW s \in Reading, NEW p \in Nat, NEW t \in Nat, NEW m \in BOOLEAN, NEW code \in Code
    PROVE  /\ \A pc \in PCs : [Idle EXCEPT !.op = "login", !.match = m, !.proof = p, !.cookie = t,
                                           !.seen = s, !.pc = pc] \in Request
           /\ [Idle EXCEPT !.pc = "check", !.op = "login2fa", !.f = "second_factor", !.ch = t,
                           !.proof = p, !.code = code, !.seen = s] \in Request
           /\ \A pc \in PCs, op \in SiteOps :
                [Idle EXCEPT !.pc = pc, !.op = op, !.f = "second_factor", !.code = code,
                             !.seen = s] \in Request
           /\ \A f \in Factors : [Idle EXCEPT !.pc = "discharge", !.op = "unlock", !.f = f,
                                              !.ep = t, !.proof = p] \in Request
           /\ [Idle EXCEPT !.pc = "revoke", !.op = "everywhere", !.proof = p, !.match = m] \in Request
           /\ [Idle EXCEPT !.pc = "revoke", !.op = "reset", !.seen = s] \in Request
<1>1. {"check", "discharge", "revoke"} \subseteq PCs /\ SiteOps \subseteq Ops
      /\ {"login", "login2fa", "unlock", "everywhere", "reset"} \subseteq Ops
      /\ "second_factor" \in Factors
  BY DEF PCs, Ops, SiteOps, Factors
<1>2. Idle \in Request
  BY IdleIsRequest
<1>3. \A pc \in PCs : [Idle EXCEPT !.op = "login", !.match = m, !.proof = p, !.cookie = t,
                                           !.seen = s, !.pc = pc] \in Request
  BY <1>1, <1>2 DEF Request
<1>4. [Idle EXCEPT !.pc = "check", !.op = "login2fa", !.f = "second_factor", !.ch = t,
                           !.proof = p, !.code = code, !.seen = s] \in Request
  BY <1>1, <1>2 DEF Request
<1>5. \A pc \in PCs, op \in SiteOps :
                [Idle EXCEPT !.pc = pc, !.op = op, !.f = "second_factor", !.code = code,
                             !.seen = s] \in Request
  BY <1>1, <1>2 DEF Request
<1>6. \A f \in Factors : [Idle EXCEPT !.pc = "discharge", !.op = "unlock", !.f = f,
                                              !.ep = t, !.proof = p] \in Request
  BY <1>1, <1>2 DEF Request
<1>7. [Idle EXCEPT !.pc = "revoke", !.op = "everywhere", !.proof = p, !.match = m] \in Request
  BY <1>1, <1>2 DEF Request
<1>8. [Idle EXCEPT !.pc = "revoke", !.op = "reset", !.seen = s] \in Request
  BY <1>1, <1>2 DEF Request
<1> QED
  BY <1>3, <1>4, <1>5, <1>6, <1>7, <1>8

\* A cookie names a row, a code is a code.
LEMMA InputsAreTyped ==
    ASSUME TypeOK
    PROVE  Presented \subseteq Nat /\ Cookies \subseteq Nat /\ Codes \subseteq Code
<1>1. Presented \subseteq Nat
  BY DEF Presented, TypeOK, ProofRow
<1>2. Cookies \subseteq Nat
  BY DEF Cookies, TypeOK
<1>3. ASSUME NEW s \in {acct.secret, acct.pend} \ {0}, NEW d \in {x \in Drifts : x < clock}
      PROVE  [s |-> s, step |-> clock - d] \in Code
  <2>1. s \in Nat
    BY DEF TypeOK, Account
  <2>2. clock \in Nat /\ d \in {0, 1} /\ d < clock
    BY DEF TypeOK
  <2>3. clock - d \in Nat
    BY <2>2
  <2> QED
    BY <2>1, <2>3 DEF Code
<1>4. ASSUME NEW b \in 1..(fresh.code - 1) PROVE [s |-> 0, step |-> b] \in Code
  <2>1. fresh.code \in Nat
    BY DEF TypeOK, Counters
  <2> QED
    BY <2>1 DEF Code
<1>5. Wrong \in Code
  BY DEF Wrong, Code
<1> QED
  BY <1>1, <1>2, <1>3, <1>4, <1>5 DEF Codes

Quiet == UNCHANGED <<clock, stores, fresh, faults>> /\ mix' = mix

\* A request begins and the stores are as they were.
LEMMA BeginTypes ==
    ASSUME TypeOK, Quiet, NEW r \in Reqs, NEW rec \in Request, Begin(r, rec)
    PROVE  TypeOK'
<1>1. req' \in [Reqs -> Request] /\ starts' \in 0..mix'.starts
  BY BeginFacts DEF Quiet
<1> QED
  BY <1>1 DEF TypeOK, Quiet, stores

\* login begins a typed request.
LEMMA LoginTypes ==
    ASSUME TypeOK, mix' = mix, NEW r \in Reqs, NEW m \in BOOLEAN, NEW p \in Presented,
           NEW t \in Cookies, Login(r, m, p, t)
    PROVE  TypeOK'
<1> DEFINE q == [Idle EXCEPT !.op = "login", !.match = m, !.proof = p, !.cookie = t,
                             !.seen = Snapshot]
           pc == IF m /\ p # 0 /\ Proof(p).single THEN "claimProof" ELSE AfterProof(q, p # 0)
<1>1. pc \in PCs
  BY BranchesLead DEF PCs
<1>2. p \in Nat /\ t \in Nat /\ Snapshot \in Reading /\ Wrong \in Code
  BY InputsAreTyped, SnapshotIsReading DEF Wrong, Code
<1>3. [Idle EXCEPT !.op = "login", !.match = m, !.proof = p, !.cookie = t,
                   !.seen = Snapshot, !.pc = pc] \in Request
  <2> HIDE DEF pc
  <2> QED BY <1>1, <1>2, BegunRequests
<1>4. Begin(r, [q EXCEPT !.pc = pc]) /\ Quiet
  BY DEF Login, Quiet
<1>5. [q EXCEPT !.pc = pc] \in Request
  BY <1>3
<1> QED
  BY <1>4, <1>5, BeginTypes

\* login2fa begins a typed request on a challenge it was handed.
LEMMA Login2faTypes ==
    ASSUME TypeOK, mix' = mix, NEW r \in Reqs, NEW c \in challenges, NEW p \in Presented,
           NEW code \in Codes, Login2fa(r, c, p, code)
    PROVE  TypeOK'
<1>1. p \in Nat /\ c.id \in Nat /\ Snapshot \in Reading /\ code \in Code
  BY InputsAreTyped, SnapshotIsReading DEF TypeOK, ChallengeRow
<1>2. [Idle EXCEPT !.pc = "check", !.op = "login2fa", !.f = "second_factor",
                   !.ch = c.id, !.proof = p, !.code = code, !.seen = Snapshot] \in Request
  BY <1>1, BegunRequests
<1> QED
  BY <1>2, BeginTypes DEF Login2fa, Quiet

\* The operations that re-prove the second factor begin typed requests.
LEMMA SignedInTypes ==
    ASSUME TypeOK, mix' = mix, NEW r \in Reqs, NEW op \in {"disable", "regen", "delete"},
           NEW code \in Codes, SignedIn(r, op, code)
    PROVE  TypeOK'
<1> DEFINE pc == IF acct.secret = 0 THEN "site" ELSE "check"
           used == IF acct.secret = 0 THEN Wrong ELSE code
<1>1. pc \in PCs /\ used \in Code /\ Snapshot \in Reading /\ op \in SiteOps
  BY InputsAreTyped, SnapshotIsReading DEF PCs, Wrong, Code, SiteOps
<1>2. [Idle EXCEPT !.pc = pc, !.op = op, !.f = "second_factor", !.code = used,
                   !.seen = Snapshot] \in Request
  <2> HIDE DEF pc, used
  <2> QED BY <1>1, BegunRequests
<1> QED
  BY <1>2, BeginTypes DEF SignedIn, Quiet

\* setup2fa begins a typed request.
LEMMA Setup2faTypes ==
    ASSUME TypeOK, mix' = mix, NEW r \in Reqs, Setup2fa(r)
    PROVE  TypeOK'
<1>1. [Idle EXCEPT !.pc = "setup", !.op = "setup"] \in Request
  <2>1. "setup" \in PCs /\ "setup" \in Ops
    BY DEF PCs, Ops
  <2> QED BY <2>1, IdleIsRequest DEF Request
<1> QED
  BY <1>1, BeginTypes DEF Setup2fa, Quiet

\* verify2fa begins a typed request.
LEMMA Verify2faTypes ==
    ASSUME TypeOK, mix' = mix, NEW r \in Reqs, NEW code \in Codes, Verify2fa(r, code)
    PROVE  TypeOK'
<1> DEFINE pc == IF acct.pendExp >= clock THEN "check" ELSE "dropPend"
           rec == [Idle EXCEPT !.pc = pc, !.op = "verify", !.f = "second_factor",
                               !.code = code, !.seen = Snapshot]
<1>1. pc \in PCs /\ code \in Code /\ Snapshot \in Reading /\ "verify" \in SiteOps
  BY InputsAreTyped, SnapshotIsReading DEF PCs, SiteOps
<1>2. rec \in Request
  <2> HIDE DEF pc
  <2> QED BY <1>1, BegunRequests
<1> QED
  BY <1>2, BeginTypes DEF Verify2fa, Quiet

\* An unlock link begins a typed request.
LEMMA UnlockTypes ==
    ASSUME TypeOK, mix' = mix, NEW r \in Reqs, NEW l \in mail, NEW p \in Presented,
           UnlockAccount(r, l, p)
    PROVE  TypeOK'
<1>1. p \in Nat /\ l.f \in Factors /\ l.ep \in Nat
  BY InputsAreTyped DEF TypeOK, Link
<1>2. Snapshot \in Reading /\ Wrong \in Code
  BY SnapshotIsReading DEF Wrong, Code
<1>3. [Idle EXCEPT !.pc = "discharge", !.op = "unlock", !.f = l.f, !.ep = l.ep,
                   !.proof = p] \in Request
  BY <1>1, <1>2, BegunRequests
<1> QED
  BY <1>3, BeginTypes DEF UnlockAccount, Quiet

\* logoutAll begins a typed request.
LEMMA LogoutAllTypes ==
    ASSUME TypeOK, mix' = mix, NEW r \in Reqs, NEW p \in Presented, LogoutAll(r, p)
    PROVE  TypeOK'
<1> DEFINE m == p # 0 /\ Proof(p).single
<1>1. p \in Nat /\ m \in BOOLEAN
  BY InputsAreTyped
<1>2. Snapshot \in Reading /\ Wrong \in Code
  BY SnapshotIsReading DEF Wrong, Code
<1>3. [Idle EXCEPT !.pc = "revoke", !.op = "everywhere", !.proof = p, !.match = m] \in Request
  <2> HIDE DEF m
  <2> QED BY <1>1, <1>2, BegunRequests
<1> QED
  BY <1>3, BeginTypes DEF LogoutAll, Quiet

\* A password reset begins a typed request.
LEMMA ResetTypes ==
    ASSUME TypeOK, mix' = mix, NEW r \in Reqs, ResetPassword(r)
    PROVE  TypeOK'
<1>1. Snapshot \in Reading /\ Wrong \in Code
  BY SnapshotIsReading DEF Wrong, Code
<1>2. [Idle EXCEPT !.pc = "revoke", !.op = "reset", !.seen = Snapshot] \in Request
  BY <1>1, BegunRequests
<1> QED
  BY <1>2, BeginTypes DEF ResetPassword, Quiet

\* The brake of factor f has become one with these four fields.
Brakes(f, n, until, ep, noted) ==
    /\ lock' \in [Factors -> Brake]
    /\ \A g \in Factors \ {f} : lock'[g] = lock[g]
    /\ lock'[f].n = n /\ lock'[f].until = until /\ lock'[f].ep = ep /\ lock'[f].noted = noted

\* The fields of a brake and the time.
LEMMA BrakeFields ==
    ASSUME TypeOK
    PROVE  /\ \A f \in Factors : /\ lock[f].n \in 0..MaxAttempts /\ lock[f].until \in Nat
                                 /\ lock[f].ep \in Nat /\ lock[f].noted \in Nat
           /\ clock \in Nat /\ clock >= 1 /\ clock <= MaxTime
           /\ "password" \in Factors /\ "second_factor" \in Factors
           /\ \A r \in Reqs : req[r] \in Request /\ req[r].f \in Factors /\ req[r].now \in Nat
           /\ req \in [Reqs -> Request] /\ fresh \in Counters /\ fresh.ep \in Nat
<1>1. lock \in [Factors -> Brake] /\ clock \in 1..MaxTime /\ req \in [Reqs -> Request]
      /\ fresh \in Counters
  BY DEF TypeOK
<1> QED
  BY <1>1 DEF Brake, Factors, Request, Counters

\* countFailure adds one failure to its factor, up to the cap, and touches nothing else.
LEMMA CountFacts ==
    ASSUME TypeOK, NEW r \in Reqs, Count(r)
    PROVE  Brakes(req[r].f, IF lock[req[r].f].n < MaxAttempts THEN lock[req[r].f].n + 1
                            ELSE lock[req[r].f].n,
                  lock[req[r].f].until, lock[req[r].f].ep, lock[req[r].f].noted)
<1>1. lock \in [Factors -> Brake]
  BY DEF TypeOK
<1> QED
  BY <1>1, BrakeFields DEF Count, Brakes, Brake

\* lockFactor's first write moves the deadline, keeps an identity that is there, then
\* reads back.
LEMMA StartOrExtendFacts ==
    ASSUME TypeOK, NEW r \in Reqs, StartOrExtend(r)
    PROVE  /\ Brakes(req[r].f, lock[req[r].f].n, clock + LockFor,
                     IF lock[req[r].f].ep = 0 THEN fresh.ep ELSE lock[req[r].f].ep,
                     lock[req[r].f].noted)
           /\ req' \in [Reqs -> Request] /\ \A x \in Reqs \ {r} : req'[x] = req[x]
           /\ req'[r] = [req[r] EXCEPT !.pc = "readback", !.now = clock]
<1>1. lock \in [Factors -> Brake] /\ req[r].f \in Factors
  BY BrakeFields DEF TypeOK
<1> DEFINE f == req[r].f
           ep == IF lock[f].ep = 0 THEN fresh.ep ELSE lock[f].ep
<1>2. lock' = [lock EXCEPT ![f].until = clock + LockFor,
                           ![f].ep = IF @ = 0 THEN fresh.ep ELSE @]
  BY DEF StartOrExtend
<1>3. clock + LockFor \in Nat /\ ep \in Nat
  BY <1>1, BrakeFields
<1>4. lock' = [lock EXCEPT ![f] = [lock[f] EXCEPT !.until = clock + LockFor, !.ep = ep]]
  BY <1>1, <1>2 DEF Brake
<1>5. [lock[f] EXCEPT !.until = clock + LockFor, !.ep = ep] \in Brake
  <2> HIDE DEF ep, f
  <2> QED BY <1>1, <1>3 DEF Brake, f
<1>6. Brakes(f, lock[f].n, clock + LockFor, ep, lock[f].noted)
  <2>1. lock[f] \in Brake
    BY <1>1
  <2> HIDE DEF ep, f
  <2> QED BY <1>1, <2>1, <1>3, <1>4, <1>5 DEF Brakes, f, Brake
<1>7. req' = [req EXCEPT ![r] = [req[r] EXCEPT !.pc = "readback", !.now = clock]]
  BY BrakeFields DEF StartOrExtend, Request
<1>8. [req[r] EXCEPT !.pc = "readback", !.now = clock] \in Request
  <2>1. "readback" \in PCs
    BY DEF PCs
  <2> QED BY <2>1, BrakeFields DEF Request
<1> QED
  BY <1>6, <1>7, <1>8, BrakeFields

\* A brake that is cleared or left as it is.
LEMMA ClearedFacts ==
    ASSUME TypeOK, NEW f \in Factors, NEW b \in BOOLEAN,
           lock' = [lock EXCEPT ![f] = IF b THEN Clear ELSE @]
    PROVE  /\ lock' \in [Factors -> Brake] /\ \A g \in Factors \ {f} : lock'[g] = lock[g]
           /\ lock'[f] = IF b THEN Clear ELSE lock[f]
<1>1. lock \in [Factors -> Brake]
  BY DEF TypeOK
<1> QED
  BY <1>1, ClearIsBrake

\* What a step may change, with its type.
Typed ==
    /\ lock' \in [Factors -> Brake] /\ acct' \in Account
    /\ proofs' \subseteq ProofRow
    /\ challenges' \subseteq ChallengeRow /\ trusted' \subseteq Nat /\ mail' \subseteq Link
    /\ req' \in [Reqs -> Request] /\ fresh' \in Counters /\ faults' \in 0..MaxFaults

\* A step that leaves the clock and the budget alone is typed when the rest is.
LEMMA TypedIsEnough ==
    ASSUME TypeOK, mix' = mix, clock' = clock, starts' = starts, Typed
    PROVE  TypeOK'
BY DEF TypeOK, Typed

\* Claiming an unlock proof leaves typed rows and a typed request.
LEMMA ClaimProofTypes ==
    ASSUME TypeOK, mix' = mix, NEW r \in Reqs, ClaimProof(r)
    PROVE  TypeOK'
<1> DEFINE won == \E p \in proofs : p.id = req[r].proof
<1>1. AfterProof(req[r], won) \in PCs
  BY BranchesLead DEF PCs
<1>2. req' \in [Reqs -> Request]
  <2> HIDE DEF won
  <2>1. Goto(r, AfterProof(req[r], won))
    BY DEF ClaimProof, won
  <2> QED BY <1>1, <2>1, GotoFacts DEF TypeOK
<1> QED
  BY <1>2, TypedIsEnough DEF ClaimProof, Typed, TypeOK

\* A proof that is charged keeps its identity.
LEMMA ChargedProofs ==
    ASSUME TypeOK, NEW r \in Reqs, Charge(r)
    PROVE  /\ proofs' \subseteq ProofRow
           /\ \A p \in proofs' : \E x \in proofs : x.id = p.id
           /\ Goto(r, "dropProof") \/ End(r)
<1> DEFINE mine == {p \in proofs : p.id = req[r].proof}
<1>1. \A p \in proofs : p \in ProofRow /\ [p EXCEPT !.fails = @ + 1] \in ProofRow
                         /\ [p EXCEPT !.fails = @ + 1].id = p.id
  BY DEF TypeOK, ProofRow
<1>2. proofs' = (proofs \ mine) \cup {[p EXCEPT !.fails = @ + 1] : p \in mine}
  BY DEF Charge
<1>3. mine \subseteq proofs
  OBVIOUS
<1>4. Goto(r, "dropProof") \/ End(r)
  BY DEF Charge
<1> HIDE DEF mine
<1> QED
  BY <1>1, <1>2, <1>3, <1>4

\* Charging an unlock proof leaves typed rows.
LEMMA ChargeTypes ==
    ASSUME TypeOK, mix' = mix, NEW r \in Reqs, Charge(r)
    PROVE  TypeOK'
<1>1. "dropProof" \in PCs
  BY DEF PCs
<1>2. req' \in [Reqs -> Request]
  BY <1>1, ChargedProofs, GotoFacts, EndFacts DEF TypeOK
<1> QED
  BY <1>2, ChargedProofs, TypedIsEnough DEF Charge, Typed, TypeOK

\* Revoking a proof keeps the types.
LEMMA DropProofTypes ==
    ASSUME TypeOK, mix' = mix, NEW r \in Reqs, DropProof(r)
    PROVE  TypeOK'
<1>1. req' \in [Reqs -> Request]
  BY EndFacts DEF DropProof, TypeOK
<1> QED
  BY <1>1, TypedIsEnough DEF DropProof, Typed, TypeOK

\* Staging a secret keeps the types.
LEMMA StorePendingTypes ==
    ASSUME TypeOK, mix' = mix, NEW r \in Reqs, StorePending(r)
    PROVE  TypeOK'
<1>1. fresh' \in Counters /\ req' \in [Reqs -> Request]
  BY MintFacts, EndFacts DEF StorePending, TypeOK
<1>2. acct' \in Account
  <2>1. acct \in Account /\ fresh.secret \in Nat /\ clock + SetupLife \in Nat
    BY DEF TypeOK, Counters
  <2>2. acct' = [acct EXCEPT !.pend = fresh.secret, !.pendExp = clock + SetupLife]
    BY DEF StorePending
  <2> QED
    BY <2>1, <2>2 DEF Account
<1> QED
  BY <1>1, <1>2, TypedIsEnough DEF StorePending, Typed, TypeOK

\* Dropping a staged secret keeps the types.
LEMMA DropPendingTypes ==
    ASSUME TypeOK, mix' = mix, NEW r \in Reqs, DropPending(r)
    PROVE  TypeOK'
<1>1. req' \in [Reqs -> Request]
  BY EndFacts DEF DropPending, TypeOK
<1>2. acct' \in Account
  BY DEF DropPending, TypeOK, Account
<1> QED
  BY <1>1, <1>2, TypedIsEnough DEF DropPending, Typed, TypeOK

\* Discharging a served password lockout moves the request on and changes only its pc.
LEMMA ServePasswordFacts ==
    ASSUME TypeOK, NEW r \in Reqs, ServePassword(r)
    PROVE  /\ req' \in [Reqs -> Request] /\ \A x \in Reqs \ {r} : req'[x] = req[x]
           /\ req'[r].pc = AfterPassword(req[r])
           /\ req'[r].op = req[r].op /\ req'[r].ch = req[r].ch /\ req'[r].now = req[r].now
           /\ req'[r].f = req[r].f
           /\ req'[r].seen.pw = Clear /\ req'[r].seen.pwRunning = req[r].seen.pwRunning
<1>1. req[r] \in Request /\ req \in [Reqs -> Request] /\ req[r].seen \in Reading
  BY Fields DEF TypeOK
<1>2. AfterPassword(req[r]) \in PCs
  BY BranchesLead DEF PCs
<1> DEFINE s == [req[r].seen EXCEPT !.pw = Clear]
<1>3. s \in Reading /\ s.pw = Clear /\ s.pwRunning = req[r].seen.pwRunning
  BY <1>1, ClearIsBrake DEF Reading
<1> DEFINE p == AfterPassword(req[r])
<1>4. req' = [req EXCEPT ![r] = [req[r] EXCEPT !.seen = s, !.pc = p]]
  BY <1>1 DEF ServePassword, Request
<1> HIDE DEF s, p
<1>5. [req[r] EXCEPT !.seen = s, !.pc = p] \in Request
  BY <1>1, <1>2, <1>3 DEF Request, p
<1> QED
  BY <1>1, <1>3, <1>4, <1>5 DEF Request, p

\* Discharging a served password lockout keeps the types.
LEMMA ServePasswordTypes ==
    ASSUME TypeOK, mix' = mix, NEW r \in Reqs, ServePassword(r)
    PROVE  TypeOK'
<1>1. lock' \in [Factors -> Brake]
  BY ClearedFacts, BrakeFields DEF ServePassword
<1> QED
  BY <1>1, ServePasswordFacts, TypedIsEnough DEF ServePassword, Typed, TypeOK

\* The device trust lookup keeps the types.
LEMMA TrustTypes ==
    ASSUME TypeOK, mix' = mix, NEW r \in Reqs, Trust(r)
    PROVE  TypeOK'
<1> DEFINE p == IF req[r].cookie \in trusted THEN "clearPw" ELSE "challenge"
<1>1. p \in PCs /\ Goto(r, p)
  BY DEF PCs, Trust
<1>2. req' \in [Reqs -> Request]
  <2> HIDE DEF p
  <2> QED BY <1>1, GotoFacts DEF TypeOK
<1>3. fresh' \in Counters
  BY MintFacts DEF Trust, TypeOK
<1>4. trusted' \subseteq Nat
  BY DEF Trust, TypeOK, Counters
<1> QED
  BY <1>2, <1>3, <1>4, TypedIsEnough DEF Trust, Typed, TypeOK

\* A new challenge is a typed row.
LEMMA ChallengeTypes ==
    ASSUME TypeOK, mix' = mix, NEW r \in Reqs, Challenge(r)
    PROVE  TypeOK'
<1>1. req' \in [Reqs -> Request]
  BY EndFacts DEF Challenge, TypeOK
<1>2. fresh' \in Counters
  BY MintFacts DEF Challenge, TypeOK
<1>3. fresh.ch \in Nat /\ clock + ChallengeLife \in Nat
  BY BrakeFields DEF Counters
<1>4. challenges' \subseteq ChallengeRow
  <2>1. [id |-> fresh.ch, exp |-> clock + ChallengeLife, open |-> TRUE] \in ChallengeRow
    BY <1>3 DEF ChallengeRow
  <2> QED BY <2>1 DEF Challenge, TypeOK
<1> QED
  BY <1>1, <1>2, <1>4, TypedIsEnough DEF Challenge, Typed, TypeOK

\* Counting a failure keeps the types.
LEMMA CountTypes ==
    ASSUME TypeOK, mix' = mix, NEW r \in Reqs, Count(r)
    PROVE  TypeOK'
<1>1. lock' \in [Factors -> Brake]
  BY CountFacts DEF Brakes
<1>2. "lock" \in PCs
  BY DEF PCs
<1>3. req' \in [Reqs -> Request]
  BY <1>2, EndFacts, GotoFacts DEF Count, TypeOK
<1> QED
  BY <1>1, <1>3, TypedIsEnough DEF Count, Typed, TypeOK

\* Starting or extending a lockout keeps the types.
LEMMA StartOrExtendTypes ==
    ASSUME TypeOK, mix' = mix, NEW r \in Reqs, StartOrExtend(r)
    PROVE  TypeOK'
<1>1. lock' \in [Factors -> Brake] /\ req' \in [Reqs -> Request]
  BY StartOrExtendFacts DEF Brakes
<1>2. fresh' \in Counters
  BY MintFacts DEF StartOrExtend, TypeOK
<1> QED
  BY <1>1, <1>2, TypedIsEnough DEF StartOrExtend, Typed, TypeOK

\* Both branches of the extension keep the types.
LEMMA ExtendTypes ==
    ASSUME TypeOK, mix' = mix, NEW r \in Reqs, Extend(r)
    PROVE  TypeOK'
<1>1. CASE StartOrExtend(r)
  BY <1>1, StartOrExtendTypes
<1>2. CASE End(r) /\ UNCHANGED <<clock, stores, fresh, starts, faults, history>>
  <2>1. req' \in [Reqs -> Request]
    BY <1>2, EndFacts DEF TypeOK
  <2> QED BY <1>2, <2>1, TypedIsEnough DEF Typed, TypeOK, stores
<1> QED
  BY <1>1, <1>2 DEF Extend

\* The read back ends the request when the lockout is gone, or carries its identity to
\* the notification.
LEMMA ReadBackFacts ==
    ASSUME TypeOK, NEW r \in Reqs, ReadBack(r)
    PROVE  /\ req' \in [Reqs -> Request] /\ \A x \in Reqs \ {r} : req'[x] = req[x]
           /\ \/ lock[req[r].f].ep = 0 /\ req'[r] = Idle
              \/ /\ lock[req[r].f].ep # 0
                 /\ req'[r] = [req[r] EXCEPT !.pc = "notify", !.ep = lock[req[r].f].ep]
<1>1. req[r] \in Request /\ req \in [Reqs -> Request] /\ lock[req[r].f].ep \in Nat
  BY BrakeFields
<1>2. "notify" \in PCs
  BY DEF PCs
<1>3. [req[r] EXCEPT !.pc = "notify", !.ep = lock[req[r].f].ep] \in Request
  <2> DEFINE ep == lock[req[r].f].ep
  <2>1. ep \in Nat
    BY <1>1
  <2> HIDE DEF ep
  <2>2. [req[r] EXCEPT !.pc = "notify", !.ep = ep] \in Request
    BY <1>1, <1>2, <2>1 DEF Request
  <2> QED BY <2>2 DEF ep
<1> QED
  BY <1>1, <1>3, IdleIsRequest DEF ReadBack

\* The read back keeps the types.
LEMMA ReadBackTypes ==
    ASSUME TypeOK, mix' = mix, NEW r \in Reqs, ReadBack(r)
    PROVE  TypeOK'
BY ReadBackFacts, TypedIsEnough DEF ReadBack, Typed, TypeOK, stores

\* notifyLockout mails a link exactly when one is due, and notes the lockout it mailed.
LEMMA NotifyFacts ==
    ASSUME TypeOK, NEW r \in Reqs, Notify(r)
    PROVE  /\ req' \in [Reqs -> Request] /\ \A x \in Reqs \ {r} : req'[x] = req[x]
           /\ req'[r] = Idle
           /\ IF MailDue(req[r], lock[req[r].f])
              THEN /\ Brakes(req[r].f, lock[req[r].f].n, lock[req[r].f].until,
                             lock[req[r].f].ep, req[r].now)
                   /\ \/ /\ mail' = mail \cup {[f |-> req[r].f, ep |-> req[r].ep,
                                               exp |-> clock + LinkLife]}
                         /\ silenced' = silenced /\ faults' = faults
                      \/ /\ mail' = mail /\ silenced' = silenced \cup {<<req[r].f, req[r].ep>>}
                         /\ faults' \in 0..MaxFaults
              ELSE lock' = lock /\ mail' = mail /\ silenced' = silenced /\ faults' = faults
<1>1. End(r)
  BY DEF Notify
<1>2. req' \in [Reqs -> Request] /\ (\A x \in Reqs \ {r} : req'[x] = req[x]) /\ req'[r] = Idle
  BY <1>1, EndFacts, BrakeFields
<1>3. CASE MailDue(req[r], lock[req[r].f])
  <2>1. lock' = [lock EXCEPT ![req[r].f].noted = req[r].now]
    BY <1>3 DEF Notify
  <2>2. lock \in [Factors -> Brake] /\ req[r].f \in Factors /\ req[r].now \in Nat
    BY BrakeFields DEF TypeOK
  <2>3. Brakes(req[r].f, lock[req[r].f].n, lock[req[r].f].until, lock[req[r].f].ep, req[r].now)
    BY <2>1, <2>2 DEF Brakes, Brake
  <2>4. faults \in 0..MaxFaults
    BY DEF TypeOK
  <2> QED BY <1>2, <1>3, <2>3, <2>4 DEF Notify
<1>4. CASE ~MailDue(req[r], lock[req[r].f])
  BY <1>2, <1>4 DEF Notify
<1> QED
  BY <1>3, <1>4

\* A mailed link is a typed link.
LEMMA NotifyTypes ==
    ASSUME TypeOK, mix' = mix, NEW r \in Reqs, Notify(r)
    PROVE  TypeOK'
<1>1. req[r].f \in Factors /\ req[r].ep \in Nat /\ clock + LinkLife \in Nat
  BY BrakeFields, Fields
<1>2. [f |-> req[r].f, ep |-> req[r].ep, exp |-> clock + LinkLife] \in Link
  BY <1>1 DEF Link
<1>3. lock' \in [Factors -> Brake] /\ mail' \subseteq Link /\ faults' \in 0..MaxFaults
  BY <1>2, NotifyFacts DEF Brakes, TypeOK
<1> QED
  BY <1>3, NotifyFacts, TypedIsEnough DEF Notify, Typed, TypeOK

\* Checking a code ends the request or sends it on with the verdict.
LEMMA CheckFacts ==
    ASSUME TypeOK, NEW r \in Reqs, Check(r)
    PROVE  /\ req' \in [Reqs -> Request] /\ \A x \in Reqs \ {r} : req'[x] = req[x]
           /\ \/ req'[r] = Idle
              \/ /\ req'[r].pc \in {"serveSf", "takeChallenge", "site", "count"}
                 /\ req'[r].pc = "site" => req[r].op # "login2fa"
                 /\ req'[r].pc = "takeChallenge" => req[r].op = "login2fa"
                 /\ req'[r].now = clock /\ req'[r].op = req[r].op /\ req'[r].ch = req[r].ch
                 /\ req'[r].f = req[r].f /\ req'[r].seen = req[r].seen
<1> DEFINE ok == Matches(req[r])
           p == IF req[r].op # "verify" /\ lock["second_factor"].until # 0 THEN "serveSf"
                ELSE AfterCheck(req[r], ok)
           refused == (req[r].op # "verify" /\ Running("second_factor")) \/ p = "idle"
<1>1. ok \in BOOLEAN
  BY DEF Matches
<1>2. p \in {"serveSf", "takeChallenge", "site", "count", "idle"}
      /\ (p = "site" => req[r].op # "login2fa")
      /\ (p = "takeChallenge" => req[r].op = "login2fa")
  <2> HIDE DEF ok
  <2> QED BY <1>1, BranchesLead
<1>3. req' = [req EXCEPT ![r] = IF refused THEN Idle
                                ELSE [req[r] EXCEPT !.pc = p, !.ok = ok, !.now = clock]]
  BY DEF Check
<1>4. {"serveSf", "takeChallenge", "site", "count", "idle"} \subseteq PCs
  BY DEF PCs
<1> HIDE DEF p, ok
<1>5. [req[r] EXCEPT !.pc = p, !.ok = ok, !.now = clock] \in Request
  BY <1>1, <1>2, <1>4, BrakeFields DEF Request
<1>6. req' \in [Reqs -> Request] /\ \A x \in Reqs \ {r} : req'[x] = req[x]
  BY <1>3, <1>5, IdleIsRequest, BrakeFields
<1>7. ~refused => p \in {"serveSf", "takeChallenge", "site", "count"}
  BY <1>2
<1>8. req'[r] = IF refused THEN Idle ELSE [req[r] EXCEPT !.pc = p, !.ok = ok, !.now = clock]
  BY <1>3, BrakeFields
<1> DEFINE then == [req[r] EXCEPT !.pc = p, !.ok = ok, !.now = clock]
<1>9. then.pc = p /\ then.now = clock /\ then.op = req[r].op /\ then.ch = req[r].ch
      /\ then.f = req[r].f /\ then.seen = req[r].seen
  BY BrakeFields DEF Request
<1> HIDE DEF refused, then
<1> QED
  BY <1>2, <1>6, <1>7, <1>8, <1>9 DEF then

\* Checking a code keeps the types.
LEMMA CheckTypes ==
    ASSUME TypeOK, mix' = mix, NEW r \in Reqs, Check(r)
    PROVE  TypeOK'
<1>1. req' \in [Reqs -> Request]
  BY CheckFacts
<1> QED
  BY <1>1, TypedIsEnough DEF Check, Typed, TypeOK, stores

\* Discharging a served second factor lockout sends the request to what follows the check.
LEMMA ServeSecondFactorFacts ==
    ASSUME TypeOK, NEW r \in Reqs, ServeSecondFactor(r)
    PROVE  /\ Goto(r, AfterCheck(req[r], req[r].ok)) /\ AfterCheck(req[r], req[r].ok) \in PCs
           /\ AfterCheck(req[r], req[r].ok) \in {"takeChallenge", "site", "count", "idle"}
           /\ AfterCheck(req[r], req[r].ok) = "site" => req[r].op # "login2fa"
           /\ AfterCheck(req[r], req[r].ok) = "takeChallenge" => req[r].op = "login2fa"
<1>1. req[r].ok \in BOOLEAN
  BY Fields, BrakeFields
<1> QED
  BY <1>1, BranchesLead DEF ServeSecondFactor, PCs

\* Discharging a served second factor lockout keeps the types.
LEMMA ServeSecondFactorTypes ==
    ASSUME TypeOK, mix' = mix, NEW r \in Reqs, ServeSecondFactor(r)
    PROVE  TypeOK'
<1>1. req' \in [Reqs -> Request]
  BY ServeSecondFactorFacts, GotoFacts DEF TypeOK
<1>2. Served(lock["second_factor"], req[r].now) \in BOOLEAN
  BY DEF Served
<1>3. lock' \in [Factors -> Brake]
  BY <1>2, ClearedFacts, BrakeFields DEF ServeSecondFactor
<1> QED
  BY <1>1, <1>3, TypedIsEnough DEF ServeSecondFactor, Typed, TypeOK

\* Taking a challenge closes its row and keeps its identity.
LEMMA TakeFacts ==
    ASSUME TypeOK, NEW c \in challenges, Take(c)
    PROVE  /\ challenges' \subseteq ChallengeRow
           /\ [c EXCEPT !.open = FALSE] \in ChallengeRow
           /\ [c EXCEPT !.open = FALSE].id = c.id /\ ~[c EXCEPT !.open = FALSE].open
           /\ challenges' = (challenges \ {c}) \cup {[c EXCEPT !.open = FALSE]}
<1>1. c \in ChallengeRow /\ challenges \subseteq ChallengeRow
  BY DEF TypeOK
<1> QED
  BY <1>1 DEF Take, ChallengeRow

\* Taking a challenge keeps the types.
LEMMA TakeChallengeTypes ==
    ASSUME TypeOK, mix' = mix, NEW r \in Reqs, TakeChallenge(r)
    PROVE  TypeOK'
<1>1. "takeCode" \in PCs
  BY DEF PCs
<1>2. req' \in [Reqs -> Request]
  BY <1>1, GotoFacts, EndFacts DEF TakeChallenge, TypeOK
<1>3. challenges' \subseteq ChallengeRow
  BY TakeFacts DEF TakeChallenge, TypeOK, OpenChallenges
<1> QED
  BY <1>2, <1>3, TypedIsEnough DEF TakeChallenge, Typed, TypeOK

\* Spending a code moves the last step on, or takes the code off the account.
LEMMA SpendFacts ==
    ASSUME acct \in Account, NEW code \in Code
    PROVE  /\ Spend(code) \in Account
           /\ Spend(code).secret = acct.secret /\ Spend(code).pend = acct.pend
           /\ Spend(code).pendExp = acct.pendExp
           /\ Spend(code).last = (IF IsTotp(code) THEN code.step ELSE acct.last)
           /\ Spend(code).codes = (IF IsTotp(code) THEN acct.codes ELSE acct.codes \ {code.step})
BY DEF Spend, Account, Code

\* Taking a code keeps the types.
LEMMA TakeCodeTypes ==
    ASSUME TypeOK, mix' = mix, NEW r \in Reqs, TakeCode(r)
    PROVE  TypeOK'
<1>1. "clearPw" \in PCs
  BY DEF PCs
<1>2. req' \in [Reqs -> Request]
  BY <1>1, GotoFacts, EndFacts DEF TakeCode, TypeOK
<1>3. req[r].code \in Code /\ acct \in Account
  BY Fields, BrakeFields DEF TypeOK
<1>4. acct' \in Account
  BY <1>3, SpendFacts DEF TakeCode
<1> QED
  BY <1>2, <1>4, TypedIsEnough DEF TakeCode, Typed, TypeOK

Coded(q) == q.op # "delete" \/ q.seen.secret # 0
Matched(q) == (Coded(q) => Unspent(q)) /\ (q.op = "delete" => ~acct.erasing)

\* The account after the write of a site, field by field.
LEMMA SiteWriteFacts ==
    ASSUME TypeOK, NEW q \in Request, q.op \in SiteOps
    PROVE  /\ SiteWrite(q) \in Account
           /\ q.op = "disable" => /\ SiteWrite(q).secret = 0 /\ SiteWrite(q).codes = {}
                                  /\ SiteWrite(q).last = 0 /\ SiteWrite(q).pend = acct.pend
           /\ q.op = "regen" => /\ SiteWrite(q).secret = acct.secret
                                /\ SiteWrite(q).codes = {fresh.code}
                                /\ SiteWrite(q).last = Spend(q.code).last
                                /\ SiteWrite(q).pend = acct.pend
           /\ q.op = "verify" => /\ SiteWrite(q).secret = acct.pend
                                 /\ SiteWrite(q).codes = {fresh.code}
                                 /\ SiteWrite(q).last = Spend(q.code).last
                                 /\ SiteWrite(q).pend = 0
           /\ q.op = "delete" => /\ SiteWrite(q).secret = acct.secret
                                 /\ SiteWrite(q).pend = acct.pend
                                 /\ Coded(q) => /\ SiteWrite(q).codes = Spend(q.code).codes
                                                /\ SiteWrite(q).last = Spend(q.code).last
                                 /\ ~Coded(q) => /\ SiteWrite(q).codes = acct.codes
                                                 /\ SiteWrite(q).last = acct.last
<1>1. acct \in Account /\ fresh.code \in Nat /\ q.code \in Code
  BY Fields DEF TypeOK, Counters
<1> DEFINE s == Spend(q.code)
<1>2. s \in Account /\ s.secret = acct.secret /\ s.pend = acct.pend /\ acct.pend \in Nat
  BY <1>1, SpendFacts DEF Account
<1> HIDE DEF s
<1>3. CASE q.op = "disable"
  <2>1. SiteWrite(q) = [acct EXCEPT !.secret = 0, !.codes = {}, !.last = 0]
    BY <1>3 DEF SiteWrite
  <2>2. {} \in SUBSET Nat
    OBVIOUS
  <2> DEFINE none == {}
  <2> HIDE DEF none
  <2>3. [acct EXCEPT !.secret = 0, !.codes = none, !.last = 0] \in Account
        /\ [acct EXCEPT !.secret = 0, !.codes = none, !.last = 0].secret = 0
        /\ [acct EXCEPT !.secret = 0, !.codes = none, !.last = 0].codes = none
        /\ [acct EXCEPT !.secret = 0, !.codes = none, !.last = 0].last = 0
        /\ [acct EXCEPT !.secret = 0, !.codes = none, !.last = 0].pend = acct.pend
    <3>1. none \in SUBSET Nat
      BY DEF none
    <3> QED BY <1>1, <3>1 DEF Account
  <2> QED BY <1>3, <2>1, <2>3 DEF none
<1>4. CASE q.op = "regen"
  <2>1. SiteWrite(q) = [s EXCEPT !.codes = {fresh.code}]
    BY <1>4 DEF SiteWrite, s
  <2> QED BY <1>1, <1>2, <1>4, <2>1 DEF Account, s
<1>5. CASE q.op = "verify"
  <2>1. SiteWrite(q) = [s EXCEPT !.secret = acct.pend, !.codes = {fresh.code}, !.pend = 0,
                                 !.pendExp = 0]
    BY <1>5 DEF SiteWrite, s
  <2>2. s.last = Spend(q.code).last
    BY DEF s
  <2>3. {fresh.code} \in SUBSET Nat
    BY <1>1
  <2> DEFINE pend == acct.pend
             new == {fresh.code}
  <2>4. [s EXCEPT !.secret = pend, !.codes = new, !.pend = 0, !.pendExp = 0] \in Account
        /\ [s EXCEPT !.secret = pend, !.codes = new, !.pend = 0, !.pendExp = 0].secret = pend
        /\ [s EXCEPT !.secret = pend, !.codes = new, !.pend = 0, !.pendExp = 0].codes = new
        /\ [s EXCEPT !.secret = pend, !.codes = new, !.pend = 0, !.pendExp = 0].last = s.last
        /\ [s EXCEPT !.secret = pend, !.codes = new, !.pend = 0, !.pendExp = 0].pend = 0
    <3>1. pend \in Nat /\ new \in SUBSET Nat
      BY <1>2, <2>3
    <3> HIDE DEF pend, new
    <3> QED BY <3>1, <1>2 DEF Account
  <2> QED BY <1>5, <2>1, <2>2, <2>4
<1>6. CASE q.op = "delete"
  <2>1. SiteWrite(q) = [IF q.seen.secret = 0 THEN acct ELSE s EXCEPT !.erasing = TRUE]
    BY <1>6 DEF SiteWrite, s
  <2>2. CASE q.seen.secret = 0
    BY <1>1, <1>6, <2>1, <2>2 DEF Account, Coded
  <2>3. CASE q.seen.secret # 0
    BY <1>2, <1>6, <2>1, <2>3 DEF Account, Coded, s
  <2> QED BY <2>2, <2>3
<1> QED
  BY <1>3, <1>4, <1>5, <1>6 DEF SiteOps

\* The conditional write of a signed-in operation: all of it or none of it.
LEMMA SiteFacts ==
    ASSUME TypeOK, NEW r \in Reqs, Site(r)
    PROVE  IF Matched(req[r])
           THEN /\ acct' = SiteWrite(req[r])
                /\ lock' = (IF req[r].op \in {"disable", "verify"}
                            THEN [lock EXCEPT !["second_factor"] = Clear] ELSE lock)
                /\ uses' = (IF Coded(req[r]) THEN Used(req[r]) ELSE uses)
                /\ IF req[r].op \in {"regen", "verify"} THEN Mint("code") ELSE UNCHANGED fresh
                /\ IF req[r].op = "delete" THEN End(r) ELSE Goto(r, "revokeTrust")
           ELSE End(r) /\ UNCHANGED <<acct, lock, uses, fresh>>
BY DEF Site, Matched, Coded

\* The write of a signed-in operation keeps the types.
LEMMA SiteTypes ==
    ASSUME TypeOK, mix' = mix, NEW r \in Reqs, req[r].op \in SiteOps, Site(r)
    PROVE  TypeOK'
<1>1. "revokeTrust" \in PCs /\ req[r] \in Request
  BY BrakeFields DEF PCs
<1>2. req' \in [Reqs -> Request]
  BY <1>1, GotoFacts, EndFacts, SiteFacts DEF TypeOK
<1>3. acct' \in Account
  BY <1>1, SiteFacts, SiteWriteFacts DEF TypeOK
<1>4. lock' \in [Factors -> Brake]
  BY SiteFacts, ClearIsBrake DEF TypeOK, Factors
<1>5. fresh' \in Counters
  BY SiteFacts, MintFacts DEF TypeOK
<1> QED
  BY <1>2, <1>3, <1>4, <1>5, TypedIsEnough DEF Site, Typed, TypeOK

\* Revoking the trusted devices keeps the types.
LEMMA RevokeTrustTypes ==
    ASSUME TypeOK, mix' = mix, NEW r \in Reqs, RevokeTrust(r)
    PROVE  TypeOK'
<1>1. req' \in [Reqs -> Request]
  BY EndFacts DEF RevokeTrust, TypeOK
<1> QED
  BY <1>1, TypedIsEnough DEF RevokeTrust, Typed, TypeOK

\* A completed sign-in clears the password brake only when no lockout of it runs.
LEMMA ClearPasswordFacts ==
    ASSUME TypeOK, NEW r \in Reqs, ClearPassword(r)
    PROVE  /\ \E b \in BOOLEAN :
                 /\ b => lock["password"].until <= clock
                 /\ lock' = [lock EXCEPT !["password"] = IF b THEN Clear ELSE @]
           /\ req' \in [Reqs -> Request] /\ \A x \in Reqs \ {r} : req'[x] = req[x]
           /\ req'[r] = [req[r] EXCEPT !.pc = "clearSf", !.now = clock]
<1> DEFINE s == req[r].seen
           b == ~s.pwRunning /\ (s.pw.n > 0 \/ s.pw.until # 0) /\ NotRunning(lock["password"], clock)
<1>1. b \in BOOLEAN /\ (b => lock["password"].until <= clock)
  BY DEF NotRunning
<1>2. lock' = [lock EXCEPT !["password"] = IF b THEN Clear ELSE @]
  BY BrakeFields DEF ClearPassword, TypeOK
<1>3. req' = [req EXCEPT ![r] = [req[r] EXCEPT !.pc = "clearSf", !.now = clock]]
  BY BrakeFields DEF ClearPassword, Request
<1>4. [req[r] EXCEPT !.pc = "clearSf", !.now = clock] \in Request
  <2>1. "clearSf" \in PCs
    BY DEF PCs
  <2> QED BY <2>1, BrakeFields DEF Request
<1> HIDE DEF b
<1> QED
  BY <1>1, <1>2, <1>3, <1>4, BrakeFields

\* Clearing the password brake keeps the types.
LEMMA ClearPasswordTypes ==
    ASSUME TypeOK, mix' = mix, NEW r \in Reqs, ClearPassword(r)
    PROVE  TypeOK'
<1>1. lock' \in [Factors -> Brake]
  BY ClearPasswordFacts, ClearedFacts, BrakeFields
<1> QED
  BY <1>1, ClearPasswordFacts, TypedIsEnough DEF ClearPassword, Typed, TypeOK

\* A completed sign-in clears the second factor only when no lockout of it ran when it read.
LEMMA ClearSecondFactorFacts ==
    ASSUME TypeOK, NEW r \in Reqs, ClearSecondFactor(r)
    PROVE  /\ \E b \in BOOLEAN :
                 /\ b => lock["second_factor"].until <= req[r].now
                 /\ lock' = [lock EXCEPT !["second_factor"] = IF b THEN Clear ELSE @]
           /\ "session" \in PCs /\ Goto(r, "session")
<1> DEFINE s == req[r].seen
           b == ~s.sfRunning /\ s.sf /\ NotRunning(lock["second_factor"], req[r].now)
<1>1. b \in BOOLEAN /\ (b => lock["second_factor"].until <= req[r].now)
  BY DEF NotRunning
<1>2. lock' = [lock EXCEPT !["second_factor"] = IF b THEN Clear ELSE @]
  BY BrakeFields DEF ClearSecondFactor, TypeOK
<1> HIDE DEF b
<1> QED
  BY <1>1, <1>2 DEF ClearSecondFactor, PCs

\* Clearing the second factor brake keeps the types.
LEMMA ClearSecondFactorTypes ==
    ASSUME TypeOK, mix' = mix, NEW r \in Reqs, ClearSecondFactor(r)
    PROVE  TypeOK'
<1>1. lock' \in [Factors -> Brake]
  BY ClearSecondFactorFacts, ClearedFacts, BrakeFields
<1>2. req' \in [Reqs -> Request]
  BY ClearSecondFactorFacts, GotoFacts, BrakeFields
<1> QED
  BY <1>1, <1>2, TypedIsEnough DEF ClearSecondFactor, Typed, TypeOK

\* Issuing the session and its unlock proof keeps the types, and uses up one identity.
LEMMA SessionTypes ==
    ASSUME TypeOK, mix' = mix, NEW r \in Reqs, NEW b \in BOOLEAN, Session(r, b)
    PROVE  TypeOK' /\ fresh'.proof = fresh.proof + 1 /\ fresh'.ch = fresh.ch
           /\ fresh'.code = fresh.code /\ fresh'.secret = fresh.secret /\ fresh'.ep = fresh.ep
<1> DEFINE grant == b /\ "remember" \in mix.uses /\ req[r].op = "login2fa" /\ IsTotp(req[r].code)
<1>1. req' \in [Reqs -> Request]
  BY EndFacts DEF Session, TypeOK
<1>2. fresh \in Counters /\ fresh.proof \in Nat /\ fresh.trust \in Nat
  BY DEF TypeOK, Counters
<1>3. fresh' = [fresh EXCEPT !.proof = fresh.proof + 1,
                             !.trust = IF grant THEN fresh.trust + 1 ELSE fresh.trust]
  BY <1>2 DEF Session, Counters
<1> HIDE DEF grant
<1>4. fresh' \in Counters /\ fresh'.proof = fresh.proof + 1 /\ fresh'.ch = fresh.ch
      /\ fresh'.code = fresh.code /\ fresh'.secret = fresh.secret /\ fresh'.ep = fresh.ep
  <2> DEFINE p == fresh.proof + 1
             t == IF grant THEN fresh.trust + 1 ELSE fresh.trust
  <2>1. p \in Nat /\ t \in Nat /\ fresh' = [fresh EXCEPT !.proof = p, !.trust = t]
    BY <1>2, <1>3
  <2>2. p = fresh.proof + 1
    OBVIOUS
  <2> HIDE DEF p, t
  <2> QED BY <1>2, <2>1, <2>2 DEF Counters
<1>5. [id |-> fresh.proof, single |-> FALSE, fails |-> 0] \in ProofRow
  BY <1>2 DEF ProofRow
<1>6. proofs' \subseteq ProofRow
  <2> DEFINE new == [id |-> fresh.proof, single |-> FALSE, fails |-> 0]
  <2>1. new \in ProofRow
    BY <1>5
  <2>2. proofs' = {p \in proofs : p.id # req[r].proof} \cup {new}
    BY DEF Session
  <2> HIDE DEF new
  <2> QED BY <2>1, <2>2 DEF TypeOK
<1>7. trusted' \subseteq Nat
  BY <1>2 DEF Session, TypeOK
<1> QED
  BY <1>1, <1>4, <1>6, <1>7, TypedIsEnough DEF Session, Typed, TypeOK

\* An unlock link clears its factor or nothing, and ends or hands back a proof.
LEMMA DischargeFacts ==
    ASSUME TypeOK, NEW r \in Reqs, Discharge(r)
    PROVE  /\ \E b \in BOOLEAN : lock' = [lock EXCEPT ![req[r].f] = IF b THEN Clear ELSE @]
           /\ req' \in [Reqs -> Request] /\ \A x \in Reqs \ {r} : req'[x] = req[x]
           /\ req'[r] = Idle \/ req'[r] = [req[r] EXCEPT !.pc = "giveProof", !.match = TRUE]
<1> DEFINE b == lock[req[r].f].ep = req[r].ep /\ ~acct.erasing
<1>1. b \in BOOLEAN /\ lock' = [lock EXCEPT ![req[r].f] = IF b THEN Clear ELSE @]
  BY DEF Discharge
<1>2. CASE End(r)
  BY <1>1, <1>2, EndFacts, BrakeFields
<1>3. CASE req' = [req EXCEPT ![r].pc = "giveProof", ![r].match = TRUE]
  <2>1. req' = [req EXCEPT ![r] = [req[r] EXCEPT !.pc = "giveProof", !.match = TRUE]]
    BY <1>3, BrakeFields DEF Request
  <2>2. [req[r] EXCEPT !.pc = "giveProof", !.match = TRUE] \in Request
    <3>1. "giveProof" \in PCs
      BY DEF PCs
    <3> QED BY <3>1, BrakeFields DEF Request
  <2> HIDE DEF b
  <2> QED BY <1>1, <2>1, <2>2, BrakeFields
<1> QED
  BY <1>2, <1>3 DEF Discharge

\* An unlock link's write keeps the types.
LEMMA DischargeTypes ==
    ASSUME TypeOK, mix' = mix, NEW r \in Reqs, Discharge(r)
    PROVE  TypeOK'
<1>1. req[r].f \in Factors
  BY BrakeFields
<1>2. lock' \in [Factors -> Brake]
  BY <1>1, DischargeFacts, ClearedFacts
<1> QED
  BY <1>2, DischargeFacts, TypedIsEnough DEF Discharge, Typed, TypeOK

\* An unlock proof handed out is a typed row.
LEMMA GiveProofTypes ==
    ASSUME TypeOK, mix' = mix, NEW r \in Reqs, GiveProof(r)
    PROVE  TypeOK'
<1>1. req' \in [Reqs -> Request]
  BY EndFacts DEF GiveProof, TypeOK
<1>2. fresh' \in Counters /\ fresh.proof \in Nat
  BY MintFacts DEF GiveProof, TypeOK, Counters
<1> DEFINE new == [id |-> fresh.proof, single |-> req[r].match, fails |-> 0]
<1>3. req[r].match \in BOOLEAN
  BY Fields, BrakeFields
<1>4. new \in ProofRow
  BY <1>2, <1>3 DEF ProofRow
<1>5. proofs' = proofs \cup {new}
  BY DEF GiveProof
<1> HIDE DEF new
<1>6. proofs' \subseteq ProofRow
  BY <1>4, <1>5 DEF TypeOK
<1> QED
  BY <1>1, <1>2, <1>6, TypedIsEnough DEF GiveProof, Typed, TypeOK

\* Revoking the sessions keeps the types.
LEMMA RevokeTypes ==
    ASSUME TypeOK, mix' = mix, NEW r \in Reqs, Revoke(r)
    PROVE  TypeOK'
<1>1. "save" \in PCs /\ "giveProof" \in PCs
  BY DEF PCs
<1>2. Goto(r, "save") \/ Goto(r, "giveProof") \/ End(r)
  BY DEF Revoke
<1>3. req' \in [Reqs -> Request]
  BY <1>1, <1>2, GotoFacts, EndFacts DEF TypeOK
<1> QED
  BY <1>3, TypedIsEnough DEF Revoke, Typed, TypeOK

\* The save of a reset ends the password lockout and leaves the second factor alone.
LEMMA ResetSaveFacts ==
    ASSUME TypeOK, NEW r \in Reqs, ResetSave(r)
    PROVE  /\ lock' \in [Factors -> Brake]
           /\ \A g \in Factors \ {"password"} : lock'[g] = lock[g]
           /\ lock'["password"].ep = 0 /\ lock'["password"].noted = 0
           /\ lock'["password"].until \in {0, lock["password"].until}
           /\ silenced' = IF lock'["password"].until # 0 THEN silenced \cup {<<"password", 0>>}
                          ELSE silenced
           /\ End(r)
<1> DEFINE s == req[r].seen.pw
           k == lock["password"]
           n == IF s.n # 0 THEN 0 ELSE k.n
           u == IF s.until # 0 THEN 0 ELSE k.until
           left == [n |-> n, until |-> u, ep |-> 0, noted |-> 0]
<1>1. n \in 0..MaxAttempts /\ u \in Nat /\ u \in {0, k.until} /\ lock \in [Factors -> Brake]
      /\ "password" \in Factors
  BY BrakeFields DEF TypeOK
<1>2. lock' = [lock EXCEPT !["password"] = left]
      /\ silenced' = (IF left.until # 0 THEN silenced \cup {<<"password", 0>>} ELSE silenced)
      /\ End(r)
  BY DEF ResetSave
<1> HIDE DEF n, u
<1>3. left \in Brake /\ left.until = u /\ left.ep = 0 /\ left.noted = 0
  BY <1>1 DEF Brake
<1> HIDE DEF left
<1> QED
  BY <1>1, <1>2, <1>3

\* The save of a reset keeps the types.
LEMMA ResetSaveTypes ==
    ASSUME TypeOK, mix' = mix, NEW r \in Reqs, ResetSave(r)
    PROVE  TypeOK'
<1>1. req' \in [Reqs -> Request]
  BY EndFacts, ResetSaveFacts DEF TypeOK
<1> QED
  BY <1>1, ResetSaveFacts, TypedIsEnough DEF ResetSave, Typed, TypeOK

\* A crash keeps the types.
LEMMA CrashTypes ==
    ASSUME TypeOK, mix' = mix, NEW r \in Reqs, Crash(r)
    PROVE  TypeOK'
<1>1. req' \in [Reqs -> Request]
  BY EndFacts DEF Crash, TypeOK
<1>2. faults' \in 0..MaxFaults
  BY DEF Crash, TypeOK
<1> QED
  BY <1>1, <1>2, TypedIsEnough DEF Crash, Typed, TypeOK, stores

\* The passing of time keeps the types.
LEMMA TickTypes ==
    ASSUME TypeOK, mix' = mix, Tick
    PROVE  TypeOK'
BY DEF Tick, TypeOK, stores

\* A stuttering step keeps the types.
LEMMA StutterTypes ==
    ASSUME TypeOK, UNCHANGED vars
    PROVE  TypeOK'
BY DEF TypeOK, vars, stores

\* The branches of a step, one case for each action.
LEMMA StepIsAnAction ==
    ASSUME NEW r \in Reqs, Step(r)
    PROVE  \/ ClaimProof(r) \/ Charge(r) \/ DropProof(r) \/ ServePassword(r) \/ Trust(r)
           \/ Challenge(r)
           \/ Count(r) \/ StartOrExtend(r) \/ ReadBack(r) \/ Notify(r)
           \/ (At(r, "extend") /\ End(r) /\ UNCHANGED <<clock, stores, fresh, starts, faults, history>>)
           \/ Check(r) \/ ServeSecondFactor(r) \/ TakeChallenge(r) \/ TakeCode(r)
           \/ StorePending(r) \/ DropPending(r) \/ Site(r) \/ RevokeTrust(r)
           \/ ClearPassword(r) \/ ClearSecondFactor(r) \/ \E remember \in BOOLEAN : Session(r, remember)
           \/ Discharge(r) \/ GiveProof(r) \/ Revoke(r) \/ ResetSave(r)
BY DEF Step, LockFactor, Extend

\* Every step of a request keeps the types.
LEMMA StepTypes ==
    ASSUME TypeOK, ChallengeIsAlone, mix' = mix, NEW r \in Reqs, Step(r)
    PROVE  TypeOK'
<1>1. Site(r) => req[r].op \in SiteOps
  BY DEF Site, At, ChallengeIsAlone
<1>2. LockFactor(r) => StartOrExtend(r)
  BY DEF LockFactor
<1> QED
  BY <1>1, <1>2, ClaimProofTypes, ChargeTypes, ServePasswordTypes, TrustTypes, ChallengeTypes,
     CountTypes, StartOrExtendTypes, ExtendTypes, ReadBackTypes, NotifyTypes, CheckTypes,
     ServeSecondFactorTypes, TakeChallengeTypes, TakeCodeTypes, SiteTypes, RevokeTrustTypes,
     ClearPasswordTypes, ClearSecondFactorTypes, SessionTypes, DischargeTypes, GiveProofTypes,
     RevokeTypes, ResetSaveTypes, DropProofTypes, StorePendingTypes, DropPendingTypes DEF Step

\* Every beginning of a request keeps the types.
LEMMA StartTypes ==
    ASSUME TypeOK, mix' = mix, NEW r \in Reqs, Start(r)
    PROVE  TypeOK'
BY LoginTypes, Login2faTypes, SignedInTypes, Setup2faTypes, Verify2faTypes, UnlockTypes,
   LogoutAllTypes, ResetTypes DEF Start

\* Every step keeps the shape of the state.
LEMMA TypesStay ==
    ASSUME TypeOK, ChallengeIsAlone, [Next]_vars
    PROVE  TypeOK'
<1>1. CASE UNCHANGED vars
  BY <1>1, StutterTypes
<1>2. CASE Next
  <2>1. mix' = mix
    BY <1>2 DEF Next
  <2> QED BY <1>2, <2>1, TickTypes, StartTypes, StepTypes, CrashTypes DEF Next
<1> QED
  BY <1>1, <1>2

-----------------------------------------------------------------------------
(* Who writes what.                                                        *)

Starting(r) ==
    \/ \E m \in BOOLEAN, p \in Presented, t \in Cookies : Login(r, m, p, t)
    \/ \E c \in challenges, p \in Presented, code \in Codes : Login2fa(r, c, p, code)
    \/ \E op \in {"disable", "regen", "delete"}, code \in Codes : SignedIn(r, op, code)
    \/ \E l \in mail, p \in Presented : UnlockAccount(r, l, p)
    \/ \E p \in Presented : LogoutAll(r, p)
    \/ ResetPassword(r)
    \/ Setup2fa(r)
    \/ \E code \in Codes : Verify2fa(r, code)

\* A start is a beginning of one of the operations.
LEMMA StartIsOne ==
    ASSUME NEW r \in Reqs, Start(r)
    PROVE  Starting(r)
BY DEF Start, Starting

\* What a request that only begins leaves alone.
LEMMA StartingFrame ==
    ASSUME NEW r \in Reqs, Starting(r)
    PROVE  UNCHANGED <<clock, stores, fresh, faults, history>>
BY DEF Starting, Login, Login2fa, SignedIn, UnlockAccount, LogoutAll, ResetPassword, Setup2fa,
   Verify2fa

\* Only these actions change the account or record a use of a code.
LEMMA WhoWritesAccount ==
    ASSUME [Next]_vars
    PROVE  \/ acct' = acct /\ uses' = uses
           \/ \E r \in Reqs : StorePending(r) \/ DropPending(r) \/ TakeCode(r) \/ Site(r)
<1>1. ASSUME NEW r \in Reqs, Step(r)
      PROVE  \/ acct' = acct /\ uses' = uses
             \/ StorePending(r) \/ DropPending(r) \/ TakeCode(r) \/ Site(r)
  BY <1>1, StepIsAnAction DEF ClaimProof, Charge, DropProof, ServePassword, Trust, Challenge, Count, StartOrExtend,
     ReadBack, Notify, Check, ServeSecondFactor, TakeChallenge, RevokeTrust, ClearPassword,
     ClearSecondFactor, Session, Discharge, GiveProof, Revoke, ResetSave, stores, history
<1>2. ASSUME NEW r \in Reqs, Crash(r) PROVE acct' = acct /\ uses' = uses
  BY <1>2 DEF Crash, stores
<1>3. Tick => acct' = acct /\ uses' = uses
  BY DEF Tick, stores, history
<1>4. UNCHANGED vars => acct' = acct /\ uses' = uses
  BY DEF vars, stores, history
<1> QED
  BY <1>1, <1>2, <1>3, <1>4, StartIsOne, StartingFrame DEF Next, stores, history

\* Only these actions change the unlock proofs or record a carried one.
LEMMA WhoWritesProofs ==
    ASSUME [Next]_vars
    PROVE  \/ proofs' = proofs /\ carried' = carried
           \/ \E r \in Reqs : \/ ClaimProof(r) \/ Charge(r) \/ (\E b \in BOOLEAN : Session(r, b))
                              \/ DropProof(r) \/ GiveProof(r) \/ Revoke(r)
<1>1. ASSUME NEW r \in Reqs, Step(r)
      PROVE  \/ proofs' = proofs /\ carried' = carried
             \/ ClaimProof(r) \/ Charge(r) \/ (\E b \in BOOLEAN : Session(r, b))
             \/ DropProof(r) \/ GiveProof(r) \/ Revoke(r)
  BY <1>1, StepIsAnAction DEF ServePassword, Trust, Challenge, Count, StartOrExtend,
     ReadBack, Notify, Check, ServeSecondFactor, TakeChallenge, TakeCode, Site, RevokeTrust,
     StorePending, DropPending, ClearPassword, ClearSecondFactor, Discharge, ResetSave, stores,
     history
<1>2. ASSUME NEW r \in Reqs, Crash(r) PROVE proofs' = proofs /\ carried' = carried
  BY <1>2 DEF Crash, stores
<1>3. Tick => proofs' = proofs /\ carried' = carried
  BY DEF Tick, stores, history
<1>4. UNCHANGED vars => proofs' = proofs /\ carried' = carried
  BY DEF vars, stores, history
<1> QED
  BY <1>1, <1>2, <1>3, <1>4, StartIsOne, StartingFrame DEF Next, stores, history

\* Only these actions change the challenges.
LEMMA WhoWritesChallenges ==
    ASSUME [Next]_vars
    PROVE  \/ challenges' = challenges
           \/ \E r \in Reqs : Challenge(r) \/ TakeChallenge(r) \/ Revoke(r)
<1>1. ASSUME NEW r \in Reqs, Step(r)
      PROVE  challenges' = challenges \/ Challenge(r) \/ TakeChallenge(r) \/ Revoke(r)
  BY <1>1, StepIsAnAction DEF ClaimProof, Charge, ServePassword, Trust, Count, StartOrExtend,
     ReadBack, Notify, Check, ServeSecondFactor, TakeCode, Site, RevokeTrust,
     DropProof, StorePending, DropPending, ClearPassword, ClearSecondFactor, Session, Discharge, GiveProof, ResetSave, stores, history
<1>2. ASSUME NEW r \in Reqs, Crash(r) PROVE challenges' = challenges
  BY <1>2 DEF Crash, stores
<1>3. Tick => challenges' = challenges
  BY DEF Tick, stores
<1>4. UNCHANGED vars => challenges' = challenges
  BY DEF vars, stores
<1> QED
  BY <1>1, <1>2, <1>3, <1>4, StartIsOne, StartingFrame DEF Next, stores

\* Identities are never handed out again, and each kind is minted where it is stored.
LEMMA IdentitiesGrow ==
    ASSUME TypeOK, [Next]_vars
    PROVE  /\ fresh'.proof >= fresh.proof /\ fresh'.ch >= fresh.ch /\ fresh'.code >= fresh.code
           /\ fresh'.secret >= fresh.secret /\ fresh'.ep >= fresh.ep
           /\ fresh.proof \in Nat /\ fresh.ch \in Nat /\ fresh.code \in Nat /\ fresh.secret \in Nat
           /\ fresh.ep \in Nat
           /\ fresh'.proof \in Nat /\ fresh'.ch \in Nat /\ fresh'.code \in Nat /\ fresh'.secret \in Nat
<1>1. fresh \in Counters /\ fresh.proof \in Nat /\ fresh.ch \in Nat /\ fresh.code \in Nat
      /\ fresh.secret \in Nat /\ fresh.ep \in Nat
  BY DEF TypeOK, Counters
<1>2. \/ fresh' = fresh
      \/ \E k \in {"ep", "proof", "ch", "trust", "code", "secret"} : Mint(k)
      \/ \E r \in Reqs, b \in BOOLEAN : Session(r, b)
  <2>1. ASSUME NEW r \in Reqs, Step(r)
        PROVE  \/ fresh' = fresh
               \/ \E k \in {"ep", "proof", "ch", "trust", "code", "secret"} : Mint(k)
               \/ \E b \in BOOLEAN : Session(r, b)
    BY <2>1, StepIsAnAction DEF ClaimProof, Charge, ServePassword, Trust, Challenge, Count,
       StartOrExtend, ReadBack, Notify, Check, ServeSecondFactor, TakeChallenge, TakeCode, Site,
       RevokeTrust, ClearPassword, ClearSecondFactor, Discharge, GiveProof, Revoke, ResetSave,
       DropProof, StorePending, DropPending
  <2>2. ASSUME NEW r \in Reqs, Crash(r) PROVE fresh' = fresh
    BY <2>2 DEF Crash
  <2>3. Tick => fresh' = fresh
    BY DEF Tick
  <2>4. UNCHANGED vars => fresh' = fresh
    BY DEF vars
  <2> QED
    BY <2>1, <2>2, <2>3, <2>4, StartIsOne, StartingFrame DEF Next
<1>3. ASSUME NEW r \in Reqs, NEW b \in BOOLEAN, Session(r, b), Next
      PROVE  /\ fresh'.proof = fresh.proof + 1 /\ fresh'.ch = fresh.ch
             /\ fresh'.code = fresh.code /\ fresh'.secret = fresh.secret /\ fresh'.ep = fresh.ep
  BY <1>3, SessionTypes DEF Next
<1>4. UNCHANGED vars => fresh' = fresh
  BY DEF vars
<1> QED
  BY <1>1, <1>2, <1>3, <1>4, MintFacts

\* Every proof stays older than the next identity.
LEMMA IssuedProofs ==
    ASSUME TypeOK, [Next]_vars, \A p \in proofs : p.id < fresh.proof
    PROVE  \A p \in proofs' : p.id < fresh'.proof
<1>1. \A p \in proofs : p \in ProofRow /\ p.id \in Nat
  BY DEF TypeOK, ProofRow
<1>3. CASE proofs' \subseteq proofs
  <2>1. fresh'.proof >= fresh.proof /\ fresh.proof \in Nat /\ fresh'.proof \in Nat
    BY IdentitiesGrow
  <2> QED BY <1>1, <1>3, <2>1
<1>4. ASSUME NEW r \in Reqs, Charge(r) PROVE \A p \in proofs' : p.id < fresh'.proof
  <2>1. fresh' = fresh
    BY <1>4 DEF Charge
  <2> QED BY <1>4, <2>1, ChargedProofs
<1>5. ASSUME NEW r \in Reqs, NEW b \in BOOLEAN, Session(r, b), Next
      PROVE  \A p \in proofs' : p.id < fresh'.proof
  <2>1. fresh'.proof = fresh.proof + 1 /\ fresh.proof \in Nat
    BY <1>5, SessionTypes, IdentitiesGrow DEF Next
  <2> QED BY <1>1, <1>5, <2>1 DEF Session
<1>6. ASSUME NEW r \in Reqs, GiveProof(r) PROVE \A p \in proofs' : p.id < fresh'.proof
  <2>1. fresh'.proof = fresh.proof + 1 /\ fresh.proof \in Nat
    BY <1>6, MintFacts, IdentitiesGrow DEF GiveProof, TypeOK
  <2> QED BY <1>1, <1>6, <2>1 DEF GiveProof
<1>7. ASSUME NEW r \in Reqs, ClaimProof(r) \/ DropProof(r) \/ Revoke(r) PROVE proofs' \subseteq proofs
  BY <1>7 DEF ClaimProof, DropProof, Revoke
<1>8. UNCHANGED vars => proofs' \subseteq proofs
  BY DEF vars, stores
<1> QED
  BY <1>3, <1>4, <1>5, <1>6, <1>7, <1>8, WhoWritesProofs

OnePerId(cs) == \A c \in cs : \A d \in cs : c.id = d.id => c = d

\* Every challenge stays older than the next identity, and alone under its own.
LEMMA IssuedChallenges ==
    ASSUME TypeOK, [Next]_vars, (\A c \in challenges : c.id < fresh.ch), OnePerId(challenges)
    PROVE  (\A c \in challenges' : c.id < fresh'.ch) /\ OnePerId(challenges')
<1>1. \A c \in challenges : c \in ChallengeRow /\ c.id \in Nat
  BY DEF TypeOK, ChallengeRow
<1>2. fresh'.ch >= fresh.ch /\ fresh.ch \in Nat /\ fresh'.ch \in Nat
  BY IdentitiesGrow
<1>3. CASE challenges' \subseteq challenges
  BY <1>1, <1>2, <1>3 DEF OnePerId
<1>4. ASSUME NEW r \in Reqs, Challenge(r)
      PROVE  (\A c \in challenges' : c.id < fresh'.ch) /\ OnePerId(challenges')
  <2>1. fresh'.ch = fresh.ch + 1
    BY <1>4, MintFacts DEF Challenge, TypeOK
  <2> DEFINE new == [id |-> fresh.ch, exp |-> clock + ChallengeLife, open |-> TRUE]
  <2>2. challenges' = challenges \cup {new} /\ new.id = fresh.ch
    BY <1>4 DEF Challenge
  <2> HIDE DEF new
  <2> QED BY <1>1, <1>2, <2>1, <2>2 DEF OnePerId
<1>5. ASSUME NEW r \in Reqs, TakeChallenge(r)
      PROVE  (\A c \in challenges' : c.id < fresh'.ch) /\ OnePerId(challenges')
  <2>1. fresh' = fresh
    BY <1>5 DEF TakeChallenge
  <2>2. CASE challenges' = challenges
    BY <2>1, <2>2
  <2>3. ASSUME NEW c \in challenges, Take(c)
        PROVE  (\A d \in challenges' : d.id < fresh'.ch) /\ OnePerId(challenges')
    <3> DEFINE new == [c EXCEPT !.open = FALSE]
    <3>1. challenges' = (challenges \ {c}) \cup {new} /\ new.id = c.id
      BY <2>3, TakeFacts
    <3> HIDE DEF new
    <3> QED BY <2>1, <3>1 DEF OnePerId
  <2> QED BY <1>5, <2>2, <2>3 DEF TakeChallenge, OpenChallenges
<1>6. ASSUME NEW r \in Reqs, Revoke(r) PROVE challenges' \subseteq challenges
  BY <1>6 DEF Revoke
<1> QED
  BY <1>3, <1>4, <1>5, <1>6, WhoWritesChallenges

\* The secrets and codes of the account.
IssuedFactor ==
    /\ acct.secret < fresh.secret /\ acct.pend < fresh.secret
    /\ acct.pend # 0 => acct.pend # acct.secret
    /\ \A b \in acct.codes : b < fresh.code

\* A code that was accepted was issued.
LEMMA AcceptedWasIssued ==
    ASSUME TypeOK, IssuedFactor, NEW q \in Request, Unspent(q)
    PROVE  IF IsTotp(q.code)
           THEN q.code.s < fresh.secret /\ q.code.s = IF q.op = "verify" THEN acct.pend ELSE acct.secret
           ELSE q.code.step < fresh.code /\ q.code.step \in acct.codes /\ acct.secret # 0
BY DEF Unspent, IssuedFactor

\* The account's secret and codes stay issued ones, and a spent code stays spent.
LEMMA IssuedAccount ==
    ASSUME TypeOK, ChallengeIsAlone, [Next]_vars, IssuedFactor, SpentStaysSpent
    PROVE  IssuedFactor' /\ SpentStaysSpent'
<1>1. acct \in Account /\ acct.secret \in Nat /\ acct.pend \in Nat /\ acct.codes \in SUBSET Nat
      /\ acct.last \in Nat
  BY DEF TypeOK, Account
<1>2. fresh'.secret >= fresh.secret /\ fresh.secret \in Nat /\ fresh'.code >= fresh.code
      /\ fresh.code \in Nat /\ fresh'.secret \in Nat /\ fresh'.code \in Nat
  BY IdentitiesGrow
<1>3. CASE acct' = acct /\ uses' = uses
  <2>1. IssuedFactor'
    BY <1>1, <1>2, <1>3 DEF IssuedFactor
  <2>2. SpentStaysSpent'
    BY <1>1, <1>2, <1>3 DEF SpentStaysSpent, IsTotp, Code
  <2> QED BY <2>1, <2>2
<1>4. ASSUME NEW r \in Reqs, StorePending(r) PROVE IssuedFactor' /\ SpentStaysSpent'
  <2>1. fresh'.secret = fresh.secret + 1 /\ fresh'.code = fresh.code
    BY <1>4, MintFacts DEF StorePending, TypeOK
  <2>2. acct'.secret = acct.secret /\ acct'.codes = acct.codes
        /\ acct'.last = acct.last /\ acct'.pend = fresh.secret /\ uses' = uses
    BY <1>1, <1>4 DEF StorePending, Account, history
  <2>3. IssuedFactor'
    BY <1>1, <1>2, <2>1, <2>2 DEF IssuedFactor
  <2>4. SpentStaysSpent'
    BY <1>1, <1>2, <2>1, <2>2 DEF SpentStaysSpent, IsTotp, Code
  <2> QED BY <2>3, <2>4
<1>5. ASSUME NEW r \in Reqs, DropPending(r) PROVE IssuedFactor' /\ SpentStaysSpent'
  <2>1. fresh' = fresh /\ uses' = uses /\ acct'.secret = acct.secret /\ acct'.codes = acct.codes
        /\ acct'.last = acct.last /\ acct'.pend = 0
    BY <1>1, <1>5 DEF DropPending, Account, history
  <2>2. IssuedFactor'
    BY <1>1, <1>2, <2>1 DEF IssuedFactor
  <2>3. SpentStaysSpent'
    BY <1>1, <1>2, <2>1 DEF SpentStaysSpent, IsTotp, Code
  <2> QED BY <2>2, <2>3
<1>6. ASSUME NEW r \in Reqs, TakeCode(r) PROVE IssuedFactor' /\ SpentStaysSpent'
  <2>op. req[r].op = "login2fa"
    BY <1>6 DEF TakeCode, At, ChallengeIsAlone
  <2>1. CASE Unspent(req[r])
    <3> DEFINE q == req[r]
    <3>1. q \in Request /\ q.code \in Code /\ fresh' = fresh
      BY <1>6, BrakeFields, Fields DEF TakeCode
    <3>2. acct' = Spend(q.code) /\ uses' = Used(q)
      BY <1>6, <2>1 DEF TakeCode
    <3>3. acct'.secret = acct.secret /\ acct'.pend = acct.pend
          /\ acct'.last = (IF IsTotp(q.code) THEN q.code.step ELSE acct.last)
          /\ acct'.codes = (IF IsTotp(q.code) THEN acct.codes ELSE acct.codes \ {q.code.step})
      BY <1>1, <3>1, <3>2, SpendFacts
    <3>4. IssuedFactor'
      BY <1>1, <3>1, <3>3 DEF IssuedFactor
    <3>5. SpentStaysSpent'
      <4>1. \A u \in uses' : u \in uses \/ u.code = q.code
        BY <3>2 DEF Used
      <4>2. Unspent(q)
        BY <2>1
      <4>3. IsTotp(q.code) => q.code.s = acct.secret /\ acct.last < q.code.step /\ q.code.s # acct.pend
                              /\ q.code.s < fresh.secret
        BY <1>1, <2>op, <4>2, <3>1 DEF Unspent, IssuedFactor, IsTotp, Code
      <4>4. ~IsTotp(q.code) => q.code.step < fresh.code
        BY <4>2, <3>1, AcceptedWasIssued
      <4> HIDE DEF q
      <4> QED BY <1>1, <3>1, <3>3, <4>1, <4>3, <4>4 DEF SpentStaysSpent, IsTotp, Code
    <3> QED BY <3>4, <3>5
  <2>2. CASE ~Unspent(req[r])
    <3>1. acct' = acct /\ uses' = uses
      BY <1>6, <2>2 DEF TakeCode
    <3> QED BY <3>1, <1>3
  <2> QED BY <2>1, <2>2
<1>7. ASSUME NEW r \in Reqs, Site(r) PROVE IssuedFactor' /\ SpentStaysSpent'
  <2> DEFINE q == req[r]
  <2>1. q \in Request /\ q.code \in Code /\ q.op \in SiteOps
    BY <1>7, BrakeFields, Fields DEF Site, At, ChallengeIsAlone
  <2>2. CASE ~Matched(q)
    <3>1. acct' = acct /\ uses' = uses
      BY <1>7, <2>2, SiteFacts
    <3> QED BY <3>1, <1>3
  <2>3. CASE Matched(q)
    <3>1. acct' = SiteWrite(q) /\ uses' = (IF Coded(q) THEN Used(q) ELSE uses)
      BY <1>7, <2>3, SiteFacts
    <3>2. fresh'.code = (IF q.op \in {"regen", "verify"} THEN fresh.code + 1 ELSE fresh.code)
          /\ fresh'.secret = fresh.secret
      BY <1>7, <2>3, SiteFacts, MintFacts DEF TypeOK
    <3>3. \A u \in uses' : u \in uses \/ (u.code = q.code /\ Coded(q))
      BY <3>1 DEF Used
    <3>4. Coded(q) => Unspent(q)
      BY <2>3 DEF Matched
    <3>5. Spend(q.code).last = (IF IsTotp(q.code) THEN q.code.step ELSE acct.last)
          /\ Spend(q.code).codes = (IF IsTotp(q.code) THEN acct.codes ELSE acct.codes \ {q.code.step})
      BY <1>1, <2>1, SpendFacts
    <3>6. q.code.s \in Nat /\ q.code.step \in Nat /\ \A u \in uses : u.code.s \in Nat /\ u.code.step \in Nat
      BY <2>1 DEF Code, SpentStaysSpent
    <3>7. Coded(q) => IF IsTotp(q.code)
                      THEN /\ q.code.s < fresh.secret /\ q.code.s # 0
                           /\ q.code.s = IF q.op = "verify" THEN acct.pend ELSE acct.secret
                           /\ q.op = "verify" => acct.secret = 0
                           /\ acct.last < q.code.step
                      ELSE q.code.step < fresh.code /\ q.code.step \in acct.codes /\ acct.secret # 0
      BY <2>1, <3>4, AcceptedWasIssued DEF Unspent, IsTotp
    <3> HIDE DEF q
    <3>8. CASE q.op = "disable"
      <4>1. acct'.secret = 0 /\ acct'.codes = {} /\ acct'.last = 0 /\ acct'.pend = acct.pend
        BY <2>1, <3>1, <3>8, SiteWriteFacts
      <4>2. IssuedFactor'
        BY <1>1, <1>2, <3>2, <3>8, <4>1 DEF IssuedFactor
      <4>3. Coded(q)
        BY <3>8 DEF Coded
      <4>4. SpentStaysSpent'
        BY <1>1, <1>2, <2>1, <3>2, <3>3, <3>6, <3>7, <3>8, <4>1, <4>3
           DEF SpentStaysSpent, IsTotp, IssuedFactor
      <4> QED BY <4>2, <4>4
    <3>9. CASE q.op = "regen"
      <4>1. acct'.secret = acct.secret /\ acct'.codes = {fresh.code} /\ acct'.pend = acct.pend
            /\ acct'.last = Spend(q.code).last
        BY <2>1, <3>1, <3>9, SiteWriteFacts
      <4>2. IssuedFactor'
        BY <1>1, <1>2, <3>2, <3>9, <4>1 DEF IssuedFactor
      <4>3. Coded(q)
        BY <3>9 DEF Coded
      <4>4. SpentStaysSpent'
        BY <1>1, <1>2, <2>1, <3>2, <3>3, <3>5, <3>6, <3>7, <3>9, <4>1, <4>3
           DEF SpentStaysSpent, IsTotp, IssuedFactor
      <4> QED BY <4>2, <4>4
    <3>10. CASE q.op = "verify"
      <4>1. acct'.secret = acct.pend /\ acct'.codes = {fresh.code} /\ acct'.pend = 0
            /\ acct'.last = Spend(q.code).last
        BY <2>1, <3>1, <3>10, SiteWriteFacts
      <4>2. IssuedFactor'
        BY <1>1, <1>2, <3>2, <3>10, <4>1 DEF IssuedFactor
      <4>3. Coded(q)
        BY <3>10 DEF Coded
      <4>4. SpentStaysSpent'
        BY <1>1, <1>2, <2>1, <3>2, <3>3, <3>5, <3>6, <3>7, <3>10, <4>1, <4>3
           DEF SpentStaysSpent, IsTotp, IssuedFactor
      <4> QED BY <4>2, <4>4
    <3>11. CASE q.op = "delete"
      <4>1. /\ acct'.secret = acct.secret /\ acct'.pend = acct.pend
            /\ Coded(q) => acct'.codes = Spend(q.code).codes /\ acct'.last = Spend(q.code).last
            /\ ~Coded(q) => acct'.codes = acct.codes /\ acct'.last = acct.last
        BY <2>1, <3>1, <3>11, SiteWriteFacts
      <4>2. IssuedFactor'
        BY <1>1, <1>2, <3>2, <3>5, <3>11, <4>1 DEF IssuedFactor
      <4>3. CASE Coded(q)
        BY <1>1, <1>2, <2>1, <3>2, <3>3, <3>5, <3>6, <3>7, <3>11, <4>1, <4>2, <4>3
           DEF SpentStaysSpent, IsTotp, IssuedFactor
      <4>4. CASE ~Coded(q)
        BY <1>1, <1>2, <2>1, <3>2, <3>3, <3>11, <4>1, <4>2, <4>4
           DEF SpentStaysSpent, IsTotp
      <4> QED BY <4>3, <4>4
    <3> QED BY <2>1, <3>8, <3>9, <3>10, <3>11 DEF SiteOps
  <2> QED BY <2>2, <2>3
<1> QED
  BY <1>3, <1>4, <1>5, <1>6, <1>7, WhoWritesAccount

-----------------------------------------------------------------------------
(* What a request carries from step to step.                               *)

\* Request q is consistent when c challenges were issued and the time is t.
GoodRequest(q, c, t) ==
    /\ q.ch # 0 => q.op = "login2fa" /\ q.ch < c
    /\ q.pc = "site" => q.op \in SiteOps
    /\ q.pc \in {"check", "serveSf"} => q.op \in SiteOps \cup {"login2fa"}
    /\ q.pc \in {"takeChallenge", "takeCode"} => q.op = "login2fa"
    /\ q.now <= t
    /\ ~q.seen.pwRunning => q.seen.pw.until <= t
    /\ q.pc = "servePw" => ~q.seen.pwRunning
    /\ q.pc = "notify" => q.ep # 0

\* Only request r changes.
Only(r) == \A x \in Reqs \ {r} : req'[x] = req[x]

\* The step of r leaves it consistent, and no closer to its code.
Alters(r) == Only(r) /\ GoodRequest(req'[r], fresh.ch, clock) /\ req'[r].pc # "takeCode"

\* A request at rest is consistent.
LEMMA IdleIsGood ==
    ASSUME TypeOK
    PROVE  GoodRequest(Idle, fresh.ch, clock) /\ Idle.pc = "idle"
BY BrakeFields DEF GoodRequest, Idle, Unread, Clear

\* A request that ends alters itself only.
LEMMA EndAlters ==
    ASSUME TypeOK, NEW r \in Reqs, End(r)
    PROVE  Alters(r)
BY EndFacts, IdleIsGood, BrakeFields DEF Alters, Only

\* A request that moves on stays consistent unless it goes where that must be shown.
LEMMA GotoAlters ==
    ASSUME TypeOK, NEW r \in Reqs, GoodRequest(req[r], fresh.ch, clock), NEW p \in PCs, Goto(r, p),
           p \notin {"site", "check", "serveSf", "takeChallenge", "takeCode", "servePw", "notify"}
    PROVE  Alters(r)
<1>1. Only(r) /\ req'[r].pc = p /\ req'[r].op = req[r].op /\ req'[r].ch = req[r].ch
      /\ req'[r].now = req[r].now /\ req'[r].seen = req[r].seen
  BY GotoFacts, BrakeFields DEF Only
<1> QED
  BY <1>1 DEF Alters, GoodRequest

\* login begins a consistent request.
LEMMA LoginAlters ==
    ASSUME TypeOK, mix' = mix, NEW r \in Reqs, NEW m \in BOOLEAN, NEW p \in Presented,
           NEW t \in Cookies, Login(r, m, p, t)
    PROVE  Alters(r)
<1> DEFINE q == [Idle EXCEPT !.op = "login", !.match = m, !.proof = p, !.cookie = t,
                             !.seen = Snapshot]
           pc == IF m /\ p # 0 /\ Proof(p).single THEN "claimProof" ELSE AfterProof(q, p # 0)
<1>1. pc \in {"claimProof", "extend", "charge", "count", "servePw", "clearPw", "trust", "challenge"}
      /\ (pc = "servePw" => ~q.seen.pwRunning)
  BY BranchesLead
<1>2. Begin(r, [q EXCEPT !.pc = pc])
  BY DEF Login
<1>3. q.seen = Snapshot /\ q.ch = 0 /\ q.now = 0
  BY DEF Idle
<1> HIDE DEF pc
<1>4. LET x == [q EXCEPT !.pc = pc] IN x.pc = pc /\ x.seen = q.seen /\ x.ch = q.ch /\ x.now = q.now
  BY DEF Idle
<1> HIDE DEF q
<1>5. Only(r) /\ req'[r] = [q EXCEPT !.pc = pc]
  BY <1>2, BrakeFields DEF Begin, Only
<1> QED
  BY <1>1, <1>3, <1>4, <1>5, SnapshotIsReading, BrakeFields DEF Alters, GoodRequest

\* login2fa begins a consistent request.
LEMMA Login2faAlters ==
    ASSUME TypeOK, Issued, mix' = mix, NEW r \in Reqs, NEW c \in challenges, NEW p \in Presented,
           NEW code \in Codes, Login2fa(r, c, p, code)
    PROVE  Alters(r)
<1> DEFINE q == [Idle EXCEPT !.pc = "check", !.op = "login2fa", !.f = "second_factor",
                   !.ch = c.id, !.proof = p, !.code = code, !.seen = Snapshot]
<1>1. q.pc = "check" /\ q.op = "login2fa" /\ q.ch = c.id /\ q.now = 0 /\ q.seen = Snapshot
  BY DEF Idle
<1>2. Begin(r, q)
  BY DEF Login2fa
<1> HIDE DEF q
<1>3. Only(r) /\ req'[r] = q
  BY <1>2, BrakeFields DEF Begin, Only
<1>4. c.id < fresh.ch
  BY DEF Issued
<1> QED
  BY <1>1, <1>3, <1>4, SnapshotIsReading, BrakeFields DEF Alters, GoodRequest

\* The operations that re-prove the second factor begin consistent requests.
LEMMA SignedInAlters ==
    ASSUME TypeOK, mix' = mix, NEW r \in Reqs, NEW op \in {"disable", "regen", "delete"},
           NEW code \in Codes, SignedIn(r, op, code)
    PROVE  Alters(r)
<1> DEFINE pc == IF acct.secret = 0 THEN "site" ELSE "check"
           used == IF acct.secret = 0 THEN Wrong ELSE code
           q == [Idle EXCEPT !.pc = pc, !.op = op, !.f = "second_factor", !.code = used,
                             !.seen = Snapshot]
<1>1. q.pc \in {"site", "check"} /\ q.op = op /\ q.ch = 0 /\ q.now = 0 /\ q.seen = Snapshot
  BY DEF Idle
<1>2. Begin(r, q)
  BY DEF SignedIn
<1> HIDE DEF q
<1>3. Only(r) /\ req'[r] = q
  BY <1>2, BrakeFields DEF Begin, Only
<1> QED
  BY <1>1, <1>3, SnapshotIsReading, BrakeFields DEF Alters, GoodRequest, SiteOps

\* setup2fa begins a consistent request.
LEMMA Setup2faAlters ==
    ASSUME TypeOK, mix' = mix, NEW r \in Reqs, Setup2fa(r)
    PROVE  Alters(r)
<1> DEFINE q == [Idle EXCEPT !.pc = "setup", !.op = "setup"]
<1>1. q.pc = "setup" /\ q.ch = 0 /\ q.now = 0 /\ q.seen = Idle.seen /\ Idle.now = 0
  BY DEF Idle
<1>2. Begin(r, q)
  BY DEF Setup2fa
<1> HIDE DEF q
<1>3. Only(r) /\ req'[r] = q
  BY <1>2, BrakeFields DEF Begin, Only
<1> QED
  BY <1>1, <1>3, IdleIsGood DEF Alters, GoodRequest

\* verify2fa begins a consistent request.
LEMMA Verify2faAlters ==
    ASSUME TypeOK, mix' = mix, NEW r \in Reqs, NEW code \in Codes, Verify2fa(r, code)
    PROVE  Alters(r)
<1> DEFINE pc == IF acct.pendExp >= clock THEN "check" ELSE "dropPend"
           q == [Idle EXCEPT !.pc = pc, !.op = "verify", !.f = "second_factor",
                             !.code = code, !.seen = Snapshot]
<1>1. q.pc \in {"check", "dropPend"} /\ q.op = "verify" /\ q.ch = 0 /\ q.now = 0 /\ q.seen = Snapshot
  BY DEF Idle
<1>2. Begin(r, q)
  BY DEF Verify2fa
<1> HIDE DEF q
<1>3. Only(r) /\ req'[r] = q
  BY <1>2, BrakeFields DEF Begin, Only
<1> QED
  BY <1>1, <1>3, SnapshotIsReading, BrakeFields DEF Alters, GoodRequest, SiteOps

\* The remaining operations begin consistent requests.
LEMMA OtherStartsAlter ==
    ASSUME TypeOK, mix' = mix, NEW r \in Reqs,
           \/ \E l \in mail, p \in Presented : UnlockAccount(r, l, p)
           \/ \E p \in Presented : LogoutAll(r, p)
           \/ ResetPassword(r)
    PROVE  Alters(r)
<1>1. ASSUME NEW l \in mail, NEW p \in Presented, UnlockAccount(r, l, p) PROVE Alters(r)
  <2> DEFINE q == [Idle EXCEPT !.pc = "discharge", !.op = "unlock", !.f = l.f, !.ep = l.ep,
                               !.proof = p]
  <2>1. q.pc = "discharge" /\ q.ch = 0 /\ q.now = 0 /\ q.seen = Idle.seen
    BY DEF Idle
  <2>2. Begin(r, q)
    BY <1>1 DEF UnlockAccount
  <2> HIDE DEF q
  <2>3. Only(r) /\ req'[r] = q
    BY <2>2, BrakeFields DEF Begin, Only
  <2> QED BY <2>1, <2>3, IdleIsGood, BrakeFields DEF Alters, GoodRequest
<1>2. ASSUME NEW p \in Presented, LogoutAll(r, p) PROVE Alters(r)
  <2> DEFINE m == p # 0 /\ Proof(p).single
             q == [Idle EXCEPT !.pc = "revoke", !.op = "everywhere", !.proof = p, !.match = m]
  <2>1. q.pc = "revoke" /\ q.ch = 0 /\ q.now = 0 /\ q.seen = Idle.seen
    BY DEF Idle
  <2>2. Begin(r, q)
    BY <1>2 DEF LogoutAll
  <2> HIDE DEF q
  <2>3. Only(r) /\ req'[r] = q
    BY <2>2, BrakeFields DEF Begin, Only
  <2> QED BY <2>1, <2>3, IdleIsGood, BrakeFields DEF Alters, GoodRequest
<1>3. CASE ResetPassword(r)
  <2> DEFINE q == [Idle EXCEPT !.pc = "revoke", !.op = "reset", !.seen = Snapshot]
  <2>1. q.pc = "revoke" /\ q.ch = 0 /\ q.now = 0 /\ q.seen = Snapshot
    BY DEF Idle
  <2>2. Begin(r, q)
    BY <1>3 DEF ResetPassword
  <2> HIDE DEF q
  <2>3. Only(r) /\ req'[r] = q
    BY <2>2, BrakeFields DEF Begin, Only
  <2> QED BY <2>1, <2>3, SnapshotIsReading, BrakeFields DEF Alters, GoodRequest
<1> QED
  BY <1>1, <1>2, <1>3

\* Every step but the taking of a challenge.
LEMMA StepAlters ==
    ASSUME TypeOK, ChallengeIsAlone, NEW r \in Reqs, GoodRequest(req[r], fresh.ch, clock), Step(r),
           ~TakeChallenge(r)
    PROVE  Alters(r)
<1> USE BrakeFields
<1>pcs. {"clearPw", "challenge", "trust", "extend", "charge", "count", "lock", "idle", "revokeTrust",
         "clearSf", "session", "save", "giveProof", "notify", "readback"} \subseteq PCs
  BY DEF PCs
<1>1. CASE ClaimProof(r)
  <2> DEFINE won == \E p \in proofs : p.id = req[r].proof
             p == AfterProof(req[r], won)
  <2>1. p \in {"extend", "charge", "count", "servePw", "clearPw", "trust", "challenge"}
        /\ (p = "servePw" => ~req[r].seen.pwRunning)
    BY BranchesLead
  <2>2. Goto(r, p)
    BY <1>1 DEF ClaimProof
  <2>3. p \in PCs
    BY <2>1 DEF PCs
  <2> HIDE DEF p
  <2>4. Only(r) /\ req'[r].pc = p /\ req'[r].op = req[r].op /\ req'[r].ch = req[r].ch
      /\ req'[r].now = req[r].now /\ req'[r].seen = req[r].seen
    BY <2>2, <2>3, GotoFacts DEF Only
  <2> QED BY <2>1, <2>4 DEF Alters, GoodRequest
<1>2. CASE ServePassword(r)
  <2>1. AfterPassword(req[r]) \in {"clearPw", "trust", "challenge"}
    BY BranchesLead
  <2> QED BY <1>2, <2>1, ServePasswordFacts DEF Alters, Only, GoodRequest, Clear
<1>3. CASE Trust(r)
  <2>1. Goto(r, "clearPw") \/ Goto(r, "challenge")
    BY <1>3 DEF Trust
  <2> QED BY <1>pcs, <2>1, GotoAlters
<1>4. CASE Count(r)
  <2>1. End(r) \/ Goto(r, "lock")
    BY <1>4 DEF Count
  <2> QED BY <1>pcs, <2>1, GotoAlters, EndAlters
<1>5. CASE StartOrExtend(r)
  <2>1. Only(r) /\ req'[r] = [req[r] EXCEPT !.pc = "readback", !.now = clock]
    BY <1>5, StartOrExtendFacts DEF Only
  <2>2. req'[r].pc = "readback" /\ req'[r].now = clock /\ req'[r].ch = req[r].ch
        /\ req'[r].op = req[r].op /\ req'[r].seen = req[r].seen
    BY <2>1 DEF Request
  <2> QED BY <2>1, <2>2 DEF Alters, GoodRequest
<1>6. CASE ReadBack(r)
  <2>1. Only(r) /\ (req'[r] = Idle
                    \/ (lock[req[r].f].ep # 0
                        /\ req'[r] = [req[r] EXCEPT !.pc = "notify", !.ep = lock[req[r].f].ep]))
    BY <1>6, ReadBackFacts DEF Only
  <2>2. CASE req'[r] = Idle
    BY <2>1, <2>2, IdleIsGood DEF Alters
  <2>3. CASE lock[req[r].f].ep # 0
             /\ req'[r] = [req[r] EXCEPT !.pc = "notify", !.ep = lock[req[r].f].ep]
    <3>1. req'[r].pc = "notify" /\ req'[r].now = req[r].now /\ req'[r].ep # 0 /\ req'[r].ch = req[r].ch
          /\ req'[r].op = req[r].op /\ req'[r].seen = req[r].seen
      BY <2>3 DEF Request
    <3> QED BY <2>1, <3>1 DEF Alters, GoodRequest
  <2> QED BY <2>1, <2>2, <2>3
<1>7. CASE Check(r)
  <2>1. Only(r)
    BY <1>7, CheckFacts DEF Only
  <2>2. CASE req'[r] = Idle
    BY <2>1, <2>2, IdleIsGood DEF Alters
  <2>3. CASE /\ req'[r].pc \in {"serveSf", "takeChallenge", "site", "count"}
             /\ req'[r].pc = "site" => req[r].op # "login2fa"
             /\ req'[r].pc = "takeChallenge" => req[r].op = "login2fa"
             /\ req'[r].now = clock /\ req'[r].op = req[r].op /\ req'[r].ch = req[r].ch
             /\ req'[r].f = req[r].f /\ req'[r].seen = req[r].seen
    <3>1. req[r].op \in SiteOps \cup {"login2fa"}
      BY <1>7 DEF Check, At, GoodRequest
    <3> QED BY <2>1, <2>3, <3>1 DEF Alters, GoodRequest
  <2> QED BY <1>7, <2>2, <2>3, CheckFacts
<1>8. CASE ServeSecondFactor(r)
  <2> DEFINE p == AfterCheck(req[r], req[r].ok)
  <2>1. Goto(r, p) /\ p \in PCs /\ p \in {"takeChallenge", "site", "count", "idle"}
        /\ (p = "site" => req[r].op # "login2fa") /\ (p = "takeChallenge" => req[r].op = "login2fa")
    BY <1>8, ServeSecondFactorFacts
  <2> HIDE DEF p
  <2>2. req[r].op \in SiteOps \cup {"login2fa"}
    BY <1>8 DEF ServeSecondFactor, At, GoodRequest
  <2>3. Only(r) /\ req'[r].pc = p /\ req'[r].op = req[r].op /\ req'[r].ch = req[r].ch
      /\ req'[r].now = req[r].now /\ req'[r].seen = req[r].seen
    BY <2>1, GotoFacts DEF Only
  <2> QED BY <2>1, <2>2, <2>3 DEF Alters, GoodRequest
<1>9. CASE TakeCode(r)
  <2>1. End(r) \/ Goto(r, "clearPw")
    BY <1>9 DEF TakeCode
  <2> QED BY <1>pcs, <2>1, GotoAlters, EndAlters
<1>10. CASE Site(r)
  <2>1. End(r) \/ Goto(r, "revokeTrust")
    BY <1>10, SiteFacts
  <2> QED BY <1>pcs, <2>1, GotoAlters, EndAlters
<1>11. CASE ClearPassword(r)
  <2>1. Only(r) /\ req'[r] = [req[r] EXCEPT !.pc = "clearSf", !.now = clock]
    BY <1>11, ClearPasswordFacts DEF Only
  <2>2. req'[r].pc = "clearSf" /\ req'[r].now = clock /\ req'[r].ch = req[r].ch
        /\ req'[r].op = req[r].op /\ req'[r].seen = req[r].seen
    BY <2>1 DEF Request
  <2> QED BY <2>1, <2>2 DEF Alters, GoodRequest
<1>12. CASE ClearSecondFactor(r)
  BY <1>12, <1>pcs, GotoAlters DEF ClearSecondFactor
<1>13. CASE Discharge(r)
  <2>1. Only(r) /\ (req'[r] = Idle \/ req'[r] = [req[r] EXCEPT !.pc = "giveProof", !.match = TRUE])
    BY <1>13, DischargeFacts DEF Only
  <2>2. CASE req'[r] = Idle
    BY <2>1, <2>2, IdleIsGood DEF Alters
  <2>3. CASE req'[r] = [req[r] EXCEPT !.pc = "giveProof", !.match = TRUE]
    <3>1. req'[r].pc = "giveProof" /\ req'[r].now = req[r].now /\ req'[r].ch = req[r].ch
          /\ req'[r].op = req[r].op /\ req'[r].seen = req[r].seen
      BY <2>3 DEF Request
    <3> QED BY <2>1, <3>1 DEF Alters, GoodRequest
  <2> QED BY <2>1, <2>2, <2>3
<1>14. CASE Revoke(r)
  <2>1. Goto(r, "save") \/ Goto(r, "giveProof") \/ End(r)
    BY <1>14 DEF Revoke
  <2> QED BY <1>pcs, <2>1, GotoAlters, EndAlters
<1>15. CASE Charge(r)
  <2>1. "dropProof" \in PCs
    BY DEF PCs
  <2> QED BY <1>15, <2>1, ChargedProofs, GotoAlters, EndAlters
<1>16. CASE DropProof(r) \/ StorePending(r) \/ DropPending(r)
  BY <1>16, EndAlters DEF DropProof, StorePending, DropPending
<1>17. CASE Challenge(r) \/ Notify(r) \/ RevokeTrust(r) \/ GiveProof(r) \/ ResetSave(r)
            \/ (\E b \in BOOLEAN : Session(r, b))
            \/ (At(r, "extend") /\ End(r)
                /\ UNCHANGED <<clock, stores, fresh, starts, faults, history>>)
  BY <1>17, EndAlters DEF Challenge, Notify, RevokeTrust, GiveProof, ResetSave, Session
<1> QED
  BY <1>1, <1>2, <1>3, <1>4, <1>5, <1>6, <1>7, <1>8, <1>9, <1>10, <1>11, <1>12, <1>13, <1>14, <1>15, <1>16,
     <1>17, StepIsAnAction

\* Taking a challenge leads to the code, with the challenge closed.
LEMMA TakeChallengeAlters ==
    ASSUME TypeOK, NEW r \in Reqs, GoodRequest(req[r], fresh.ch, clock), TakeChallenge(r)
    PROVE  \/ Alters(r) /\ challenges' = challenges
           \/ /\ Only(r) /\ GoodRequest(req'[r], fresh.ch, clock)
              /\ req'[r].ch = req[r].ch
              /\ \E c \in challenges : c.id = req[r].ch /\ c.open /\ Take(c)
<1>1. CASE End(r) /\ challenges' = challenges
  BY <1>1, EndAlters
<1>2. ASSUME NEW c \in challenges, c.id = req[r].ch, c.open, Take(c), Goto(r, "takeCode")
      PROVE  /\ Only(r) /\ GoodRequest(req'[r], fresh.ch, clock)
             /\ req'[r].ch = req[r].ch
  <2>1. "takeCode" \in PCs
    BY DEF PCs
  <2>2. Only(r) /\ req'[r].pc = "takeCode" /\ req'[r].op = req[r].op /\ req'[r].ch = req[r].ch
        /\ req'[r].now = req[r].now /\ req'[r].seen = req[r].seen
    BY <1>2, <2>1, GotoFacts, BrakeFields DEF Only
  <2>3. req[r].op = "login2fa"
    BY DEF TakeChallenge, At, GoodRequest
  <2> QED BY <2>2, <2>3 DEF GoodRequest
<1> QED
  BY <1>1, <1>2 DEF TakeChallenge, OpenChallenges

\* A step changes one request at most, consistently; it is led to its code only by
\* the challenge it takes.
LEMMA OneRequestAlters ==
    ASSUME TypeOK, ChallengeIsAlone, Issued, [Next]_vars,
           \A r \in Reqs : GoodRequest(req[r], fresh.ch, clock)
    PROVE  \/ req' = req
           \/ \E r \in Reqs : Alters(r)
           \/ \E r \in Reqs : /\ Only(r) /\ GoodRequest(req'[r], fresh.ch, clock)
                              /\ req'[r].ch = req[r].ch /\ TakeChallenge(r)
                              /\ \E c \in challenges : c.id = req[r].ch /\ c.open /\ Take(c)
<1>1. CASE UNCHANGED vars
  BY <1>1 DEF vars
<1>2. CASE Next
  <2>1. mix' = mix
    BY <1>2 DEF Next
  <2>2. CASE Tick
    BY <2>2 DEF Tick
  <2>3. ASSUME NEW r \in Reqs, Start(r) PROVE Alters(r)
    BY <2>1, <2>3, LoginAlters, Login2faAlters, SignedInAlters, Setup2faAlters, Verify2faAlters,
       OtherStartsAlter DEF Start
  <2>4. ASSUME NEW r \in Reqs, Crash(r) PROVE Alters(r)
    BY <2>4, EndAlters DEF Crash
  <2> QED BY <1>2, <2>2, <2>3, <2>4, StepAlters, TakeChallengeAlters DEF Next
<1> QED
  BY <1>1, <1>2

\* Requests stay consistent.
LEMMA RequestsStayGood ==
    ASSUME TypeOK, TypeOK', ChallengeIsAlone, Issued, [Next]_vars,
           \A r \in Reqs : GoodRequest(req[r], fresh.ch, clock)
    PROVE  \A r \in Reqs : GoodRequest(req'[r], fresh'.ch, clock')
<1>1. clock' \in Nat /\ clock \in Nat /\ clock' >= clock
  <2>1. clock' = clock \/ clock' = clock + 1
    <3>1. ASSUME NEW r \in Reqs, Step(r) PROVE clock' = clock
      BY <3>1, StepIsAnAction DEF ClaimProof, Charge, ServePassword, Trust, Challenge, Count,
         StartOrExtend, ReadBack, Notify, Check, ServeSecondFactor, TakeChallenge, TakeCode, Site,
         RevokeTrust, ClearPassword, ClearSecondFactor, Session, Discharge, GiveProof, Revoke,
         ResetSave, DropProof, StorePending, DropPending
    <3>2. ASSUME NEW r \in Reqs, Crash(r) PROVE clock' = clock
      BY <3>2 DEF Crash
    <3>3. Tick => clock' = clock + 1
      BY DEF Tick
    <3>4. UNCHANGED vars => clock' = clock
      BY DEF vars
    <3> QED BY <3>1, <3>2, <3>3, <3>4, StartIsOne, StartingFrame DEF Next
  <2> QED BY <2>1, BrakeFields
<1>2. fresh'.ch >= fresh.ch /\ fresh.ch \in Nat /\ fresh'.ch \in Nat
  BY IdentitiesGrow
<1>3. ASSUME NEW r \in Reqs PROVE GoodRequest(req'[r], fresh.ch, clock)
  BY OneRequestAlters DEF Alters, Only
<1>4. ASSUME NEW r \in Reqs PROVE GoodRequest(req'[r], fresh'.ch, clock')
  <2>1. req'[r] \in Request
    BY DEF TypeOK
  <2>2. req'[r].ch \in Nat /\ req'[r].now \in Nat /\ req'[r].seen \in Reading
    BY <2>1, Fields
  <2>3. req'[r].seen.pw.until \in Nat
    BY <2>2 DEF Reading, Brake
  <2> QED BY <1>1, <1>2, <1>3, <2>2, <2>3 DEF GoodRequest
<1> QED
  BY <1>4

\* Taken, of the next state.
TakenNext(id) == \A c \in challenges' : c.id = id => ~c.open

\* A challenge that was issued and can be taken no more stays so.
LEMMA TakenStays ==
    ASSUME TypeOK, [Next]_vars, NEW id \in Nat, id < fresh.ch, Taken(id)
    PROVE  TakenNext(id)
<1>1. CASE challenges' \subseteq challenges
  BY <1>1 DEF Taken, TakenNext
<1>2. ASSUME NEW r \in Reqs, Challenge(r) PROVE TakenNext(id)
  <2> DEFINE new == [id |-> fresh.ch, exp |-> clock + ChallengeLife, open |-> TRUE]
  <2>1. challenges' = challenges \cup {new} /\ new.id = fresh.ch
    BY <1>2 DEF Challenge
  <2>2. fresh.ch \in Nat
    BY DEF TypeOK, Counters
  <2> HIDE DEF new
  <2> QED BY <2>1, <2>2 DEF Taken, TakenNext
<1>3. ASSUME NEW c \in challenges, Take(c) PROVE TakenNext(id)
  <2> DEFINE new == [c EXCEPT !.open = FALSE]
  <2>1. challenges' = (challenges \ {c}) \cup {new} /\ ~new.open
    BY <1>3, TakeFacts
  <2> HIDE DEF new
  <2> QED BY <2>1 DEF Taken, TakenNext
<1>4. ASSUME NEW r \in Reqs, TakeChallenge(r)
      PROVE  challenges' = challenges \/ \E c \in challenges : Take(c)
  BY <1>4 DEF TakeChallenge, OpenChallenges
<1>5. ASSUME NEW r \in Reqs, Revoke(r) PROVE challenges' \subseteq challenges
  BY <1>5 DEF Revoke
<1> QED
  BY <1>1, <1>2, <1>3, <1>4, <1>5, WhoWritesChallenges

\* The one who takes a challenge leaves it taken.
LEMMA TakingCloses ==
    ASSUME TypeOK, Issued, NEW c \in challenges, Take(c)
    PROVE  TakenNext(c.id)
<1> DEFINE new == [c EXCEPT !.open = FALSE]
<1>1. challenges' = (challenges \ {c}) \cup {new} /\ ~new.open
  BY TakeFacts
<1>2. \A d \in challenges : d.id = c.id => d = c
  BY DEF Issued
<1> HIDE DEF new
<1> QED
  BY <1>1, <1>2 DEF Taken, TakenNext

\* ChallengeIsAlone and ReadsAreOld are about consistent requests.
LEMMA GoodIsMeant ==
    ASSUME ChallengeIsAlone, ReadsAreOld, NEW r \in Reqs
    PROVE  GoodRequest(req[r], fresh.ch, clock)
BY DEF ChallengeIsAlone, ReadsAreOld, GoodRequest

\* A code that is accepted is a new use, of a challenge no other use was for.
LEMMA UsesGrow ==
    ASSUME TypeOK, ChallengeIsAlone, [Next]_vars
    PROVE  \/ uses' = uses
           \/ \E r \in Reqs :
                 /\ Only(r) /\ req'[r].pc # "takeCode" /\ challenges' = challenges
                 /\ uses' = Used(req[r]) /\ Unspent(req[r])
                 /\ req[r].ch # 0 => req[r].pc = "takeCode"
<1>1. ASSUME NEW r \in Reqs, TakeCode(r)
      PROVE  \/ uses' = uses
             \/ /\ Only(r) /\ req'[r].pc # "takeCode" /\ challenges' = challenges
                /\ uses' = Used(req[r]) /\ Unspent(req[r])
                /\ req[r].ch # 0 => req[r].pc = "takeCode"
  <2>1. CASE Unspent(req[r])
    <3>1. Goto(r, "clearPw") /\ uses' = Used(req[r]) /\ challenges' = challenges
          /\ req[r].pc = "takeCode"
      BY <1>1, <2>1 DEF TakeCode, At
    <3>2. Only(r) /\ req'[r].pc = "clearPw"
      BY <3>1, GotoFacts, BrakeFields DEF Only, PCs
    <3> QED BY <2>1, <3>1, <3>2
  <2>2. CASE ~Unspent(req[r])
    BY <1>1, <2>2 DEF TakeCode
  <2> QED BY <2>1, <2>2
<1>2. ASSUME NEW r \in Reqs, Site(r)
      PROVE  \/ uses' = uses
             \/ /\ Only(r) /\ req'[r].pc # "takeCode" /\ challenges' = challenges
                /\ uses' = Used(req[r]) /\ Unspent(req[r])
                /\ req[r].ch # 0 => req[r].pc = "takeCode"
  <2>1. CASE Matched(req[r]) /\ Coded(req[r])
    <3>1. uses' = Used(req[r]) /\ Unspent(req[r]) /\ (End(r) \/ Goto(r, "revokeTrust"))
      BY <1>2, <2>1, SiteFacts DEF Matched
    <3>2. challenges' = challenges /\ req[r].op \in SiteOps
      BY <1>2 DEF Site, At, ChallengeIsAlone
    <3>3. req[r].ch = 0
      BY <3>2 DEF ChallengeIsAlone, SiteOps
    <3>4. Only(r) /\ req'[r].pc # "takeCode"
      <4>1. "revokeTrust" \in PCs /\ Idle.pc = "idle"
        BY DEF PCs, Idle
      <4>2. CASE End(r)
        BY <4>1, <4>2, EndFacts, BrakeFields DEF Only
      <4>3. CASE Goto(r, "revokeTrust")
        BY <4>1, <4>3, GotoFacts, BrakeFields DEF Only
      <4> QED BY <3>1, <4>2, <4>3
    <3> QED BY <3>1, <3>2, <3>3, <3>4
  <2>2. CASE ~(Matched(req[r]) /\ Coded(req[r]))
    BY <1>2, <2>2, SiteFacts
  <2> QED BY <2>1, <2>2
<1>3. ASSUME NEW r \in Reqs, StorePending(r) \/ DropPending(r) PROVE uses' = uses
  BY <1>3 DEF StorePending, DropPending, history
<1> QED
  BY <1>1, <1>2, <1>3, WhoWritesAccount

\* What requests hold stays consistent with the stores: one taker of a challenge, reads
\* no newer than the clock.
LEMMA ChallengeStaysAlone ==
    ASSUME TypeOK, TypeOK', Issued, ChallengeIsAlone, ReadsAreOld, [Next]_vars
    PROVE  ChallengeIsAlone' /\ ReadsAreOld'
<1>1. \A r \in Reqs : GoodRequest(req[r], fresh.ch, clock)
  BY GoodIsMeant
<1>2. \A r \in Reqs : GoodRequest(req'[r], fresh'.ch, clock')
  BY <1>1, RequestsStayGood
<1>3. \A r \in Reqs : req[r].ch \in Nat /\ req'[r].ch \in Nat
  BY Fields DEF TypeOK
<1>4. fresh'.ch >= fresh.ch /\ fresh.ch \in Nat /\ fresh'.ch \in Nat
  BY IdentitiesGrow
<1>5. \A id \in Nat : id < fresh.ch /\ Taken(id) => TakenNext(id)
  BY TakenStays
<1> DEFINE AtCode(r) == req[r].pc = "takeCode" /\ req[r].ch # 0
           AtCodeNext(r) == req'[r].pc = "takeCode" /\ req'[r].ch # 0
<1>6. ASSUME NEW r \in Reqs, AtCodeNext(r)
      PROVE  \/ req'[r] = req[r] /\ AtCode(r)
             \/ \E c \in challenges : c.id = req'[r].ch /\ c.open /\ Take(c)
  BY <1>1, <1>6, OneRequestAlters DEF Alters, Only
<1>7. ASSUME NEW r \in Reqs, AtCodeNext(r) PROVE TakenNext(req'[r].ch)
  <2>1. CASE req'[r] = req[r] /\ AtCode(r)
    <3>1. Taken(req[r].ch) /\ req[r].ch < fresh.ch
      BY <2>1 DEF ChallengeIsAlone
    <3>2. \A id \in Nat : id = req[r].ch => TakenNext(id)
      BY <1>5, <3>1
    <3>3. req[r].ch \in Nat /\ req'[r].ch = req[r].ch
      BY <1>3, <2>1
    <3> QED BY <3>2, <3>3 DEF Taken, TakenNext
  <2>2. ASSUME NEW c \in challenges, c.id = req'[r].ch, c.open, Take(c) PROVE TakenNext(req'[r].ch)
    <3>1. TakenNext(c.id)
      BY <2>2, TakingCloses
    <3> QED BY <2>2, <3>1 DEF Taken, TakenNext
  <2> QED BY <1>6, <1>7, <2>1, <2>2
<1>8. ASSUME NEW r \in Reqs, NEW x \in Reqs, AtCodeNext(r), AtCodeNext(x), req'[x].ch = req'[r].ch
      PROVE  x = r
  <2>1. CASE req'[r] = req[r] /\ req'[x] = req[x]
    BY <1>8, <2>1 DEF ChallengeIsAlone
  <2>2. ASSUME NEW y \in Reqs, NEW z \in Reqs, y # z, AtCodeNext(y), AtCodeNext(z),
               req'[y].ch = req'[z].ch, req'[y] = req[y]
        PROVE  req'[z] = req[z]
    <3>1. SUFFICES ASSUME NEW c \in challenges, c.id = req'[z].ch, c.open PROVE FALSE
      BY <1>6, <2>2
    <3>2. Taken(c.id)
      BY <2>2, <3>1 DEF ChallengeIsAlone
    <3> QED BY <3>1, <3>2 DEF Taken, TakenNext
  <2>3. CASE req'[r] # req[r] /\ req'[x] # req[x]
    BY <1>1, <2>3, OneRequestAlters DEF Alters, Only
  <2> QED BY <1>8, <2>1, <2>2, <2>3
<1>9. ASSUME NEW u \in uses, u.ch # 0
      PROVE  /\ u.ch \in Nat /\ u.ch < fresh'.ch /\ TakenNext(u.ch)
             /\ \A r \in Reqs : req'[r].pc = "takeCode" => req'[r].ch # u.ch
  <2>1. u.ch \in Nat /\ u.ch < fresh.ch /\ Taken(u.ch)
        /\ \A r \in Reqs : req[r].pc = "takeCode" => req[r].ch # u.ch
    BY <1>9 DEF ChallengeIsAlone
  <2>2. u.ch < fresh'.ch
    BY <1>4, <2>1
  <2>3. TakenNext(u.ch)
    <3>1. \A id \in Nat : id = u.ch => TakenNext(id)
      BY <1>5, <2>1
    <3> QED BY <2>1, <3>1 DEF Taken, TakenNext
  <2>4. ASSUME NEW r \in Reqs, req'[r].pc = "takeCode", req'[r].ch = u.ch PROVE FALSE
    <3>1. CASE req'[r] = req[r]
      BY <2>1, <2>4, <3>1
    <3>2. ASSUME NEW c \in challenges, c.id = req'[r].ch, c.open PROVE FALSE
      BY <2>1, <2>4, <3>2 DEF Taken, TakenNext
    <3> QED BY <1>6, <1>9, <2>4, <3>1, <3>2
  <2> QED BY <2>1, <2>2, <2>3, <2>4
<1>10. ASSUME NEW u \in uses', u.ch # 0
      PROVE  /\ u.ch \in Nat /\ u.ch < fresh'.ch /\ TakenNext(u.ch)
             /\ \A r \in Reqs : req'[r].pc = "takeCode" => req'[r].ch # u.ch
  <2>1. CASE u \in uses
    BY <1>9, <1>10, <2>1
  <2>2. ASSUME NEW r \in Reqs, Only(r), req'[r].pc # "takeCode", challenges' = challenges,
               u.ch = req[r].ch, req[r].ch # 0 => req[r].pc = "takeCode"
        PROVE  /\ u.ch \in Nat /\ u.ch < fresh'.ch /\ TakenNext(u.ch)
               /\ \A x \in Reqs : req'[x].pc = "takeCode" => req'[x].ch # u.ch
    <3>1. AtCode(r)
      BY <1>10, <2>2
    <3>2. req[r].ch < fresh.ch /\ Taken(req[r].ch)
          /\ \A x \in Reqs : req[x].pc = "takeCode" /\ req[x].ch = req[r].ch => x = r
      BY <3>1 DEF ChallengeIsAlone
    <3>3. \A x \in Reqs : req'[x].pc = "takeCode" => req'[x].ch # u.ch
      BY <2>2, <3>2 DEF Only
    <3>4. TakenNext(u.ch)
      BY <2>2, <3>2 DEF Taken, TakenNext
    <3> QED BY <1>3, <1>4, <2>2, <3>2, <3>3, <3>4
  <2>3. CASE uses' = uses
    BY <2>1, <2>3
  <2>4. ASSUME NEW r \in Reqs, uses' = Used(req[r]) PROVE u \in uses \/ u.ch = req[r].ch
    BY <2>4 DEF Used
  <2> QED BY <2>1, <2>2, <2>3, <2>4, UsesGrow
<1>11. ChallengeIsAlone'
  <2>1. ASSUME NEW r \in Reqs
        PROVE  /\ req'[r].ch # 0 => req'[r].op = "login2fa" /\ req'[r].ch < fresh'.ch
               /\ req'[r].pc = "site" => req'[r].op \in SiteOps
               /\ req'[r].pc \in {"check", "serveSf"} => req'[r].op \in SiteOps \cup {"login2fa"}
               /\ req'[r].pc \in {"takeChallenge", "takeCode"} => req'[r].op = "login2fa"
    BY <1>2 DEF GoodRequest
  <2> QED BY <1>7, <1>8, <1>10, <2>1 DEF ChallengeIsAlone, Taken, TakenNext
<1>12. ReadsAreOld'
  BY <1>2 DEF GoodRequest, ReadsAreOld
<1> QED
  BY <1>11, <1>12

\* A proof that was carried away never returns.
LEMMA CarriedStaysGone ==
    ASSUME TypeOK, Issued, CarriedIsGone, [Next]_vars
    PROVE  CarriedIsGone'
<1>1. fresh'.proof >= fresh.proof /\ fresh.proof \in Nat /\ fresh'.proof \in Nat
  BY IdentitiesGrow
<1>2. \A p \in proofs : p \in ProofRow /\ p.id \in Nat /\ p.id < fresh.proof
  BY DEF TypeOK, ProofRow, Issued
<1>3. CASE proofs' \subseteq proofs /\ carried' = carried
  BY <1>1, <1>3 DEF CarriedIsGone
<1>4. ASSUME NEW r \in Reqs, ClaimProof(r) PROVE CarriedIsGone'
  <2> DEFINE id == req[r].proof
  <2>1. proofs' = {p \in proofs : p.id # id}
    BY <1>4 DEF ClaimProof
  <2>2. carried' = carried \/ ((\E p \in proofs : p.id = id) /\ \A c \in carried' : c \in carried \/ c.id = id)
    BY <1>4 DEF ClaimProof
  <2> HIDE DEF id
  <2> QED BY <1>1, <1>2, <2>1, <2>2 DEF CarriedIsGone
<1>5. ASSUME NEW r \in Reqs, Charge(r) PROVE CarriedIsGone'
  <2>2. \A p \in proofs' : \E x \in proofs : x.id = p.id
    BY <1>5, ChargedProofs
  <2>3. carried' = carried
    BY <1>5 DEF Charge, history
  <2> QED BY <1>1, <2>2, <2>3 DEF CarriedIsGone
<1>6. ASSUME NEW r \in Reqs, GiveProof(r) \/ \E b \in BOOLEAN : Session(r, b) PROVE CarriedIsGone'
  <2>1. \A p \in proofs' : p \in proofs \/ p.id = fresh.proof
    <3>1. CASE GiveProof(r)
      <4> DEFINE new == [id |-> fresh.proof, single |-> req[r].match, fails |-> 0]
      <4>1. proofs' = proofs \cup {new} /\ new.id = fresh.proof
        BY <3>1 DEF GiveProof
      <4> HIDE DEF new
      <4> QED BY <4>1
    <3>2. ASSUME NEW b \in BOOLEAN, Session(r, b)
          PROVE  \A p \in proofs' : p \in proofs \/ p.id = fresh.proof
      <4> DEFINE new == [id |-> fresh.proof, single |-> FALSE, fails |-> 0]
      <4>1. proofs' = {p \in proofs : p.id # req[r].proof} \cup {new} /\ new.id = fresh.proof
        BY <3>2 DEF Session
      <4> HIDE DEF new
      <4> QED BY <4>1
    <3> QED BY <1>6, <3>1, <3>2
  <2>2. carried' = carried
    BY <1>6 DEF GiveProof, Session, history
  <2> QED BY <1>1, <2>1, <2>2 DEF CarriedIsGone
<1>7. ASSUME NEW r \in Reqs, DropProof(r) \/ Revoke(r)
      PROVE  proofs' \subseteq proofs /\ carried' = carried
  BY <1>7 DEF DropProof, Revoke, history
<1> QED
  BY <1>3, <1>4, <1>5, <1>6, <1>7, WhoWritesProofs

\* A code that was used is spent, so the one that is accepted now was not used.
LEMMA CodeStaysSpentOnce ==
    ASSUME TypeOK, Issued, SpentStaysSpent, ChallengeIsAlone, [Next]_vars, CodeSpentOnce
    PROVE  CodeSpentOnce'
<1>1. CASE uses' = uses
  BY <1>1 DEF CodeSpentOnce
<1>2. ASSUME NEW r \in Reqs, uses' = Used(req[r]), Unspent(req[r]) PROVE CodeSpentOnce'
  <2>1. req[r].code \in Code /\ acct.last \in Nat /\ req[r].code.step \in Nat
    BY BrakeFields, Fields DEF TypeOK, Account, Code
  <2>2. \A u \in uses : u.code # req[r].code
    <3>1. SUFFICES ASSUME NEW u \in uses, u.code = req[r].code PROVE FALSE
      OBVIOUS
    <3>2. CASE IsTotp(req[r].code)
      BY <1>2, <2>1, <3>1, <3>2 DEF Unspent, SpentStaysSpent, IsTotp
    <3>3. CASE ~IsTotp(req[r].code)
      BY <1>2, <2>1, <3>1, <3>3 DEF Unspent, SpentStaysSpent, IsTotp
    <3> QED BY <3>2, <3>3
  <2> DEFINE new == [code |-> req[r].code, ch |-> req[r].ch,
                     nth |-> Cardinality({u \in uses : u.code = req[r].code})]
  <2>3. uses' = uses \cup {new} /\ new.code = req[r].code
    BY <1>2 DEF Used
  <2> HIDE DEF new
  <2> QED BY <2>2, <2>3 DEF CodeSpentOnce
<1> QED
  BY <1>1, <1>2, UsesGrow

\* One challenge never yields two accepted codes.
LEMMA OneCodeStaysPerChallenge ==
    ASSUME TypeOK, ChallengeIsAlone, [Next]_vars, OneCodePerChallenge
    PROVE  OneCodePerChallenge'
<1>1. CASE uses' = uses
  BY <1>1 DEF OneCodePerChallenge
<1>2. ASSUME NEW r \in Reqs, uses' = Used(req[r]), req[r].ch # 0 => req[r].pc = "takeCode"
      PROVE  OneCodePerChallenge'
  <2>1. \A u \in uses : u.ch # 0 => u.ch # req[r].ch
    BY <1>2 DEF ChallengeIsAlone
  <2> DEFINE new == [code |-> req[r].code, ch |-> req[r].ch,
                     nth |-> Cardinality({u \in uses : u.code = req[r].code})]
  <2>2. uses' = uses \cup {new} /\ new.ch = req[r].ch
    BY <1>2 DEF Used
  <2> HIDE DEF new
  <2> QED BY <2>1, <2>2 DEF OneCodePerChallenge
<1> QED
  BY <1>1, <1>2, UsesGrow

\* One unlock proof never yields two attempts.
LEMMA ProofStaysCarriedOnce ==
    ASSUME TypeOK, CarriedIsGone, [Next]_vars, ProofCarriesOnce
    PROVE  ProofCarriesOnce'
<1>1. CASE carried' = carried
  BY <1>1 DEF ProofCarriesOnce
<1>2. ASSUME NEW r \in Reqs, ClaimProof(r) PROVE ProofCarriesOnce'
  <2> DEFINE new == [id |-> req[r].proof, nth |-> Cardinality({c \in carried : c.id = req[r].proof})]
  <2>1. new.id = req[r].proof
    OBVIOUS
  <2>2. carried' = carried \/ ((\E p \in proofs : p.id = req[r].proof) /\ carried' = carried \cup {new})
    BY <1>2 DEF ClaimProof
  <2> HIDE DEF new
  <2> QED BY <2>1, <2>2 DEF ProofCarriesOnce, CarriedIsGone
<1>3. ASSUME NEW r \in Reqs, \/ Charge(r) \/ DropProof(r) \/ GiveProof(r)
                             \/ (\E b \in BOOLEAN : Session(r, b)) \/ Revoke(r)
      PROVE  carried' = carried
  BY <1>3 DEF Charge, DropProof, GiveProof, Session, Revoke, history
<1> QED
  BY <1>1, <1>2, <1>3, WhoWritesProofs

-----------------------------------------------------------------------------
(* Every episode is mailed for.                                            *)

\* A request that is in the middle of mailing is left alone by this step.
Steady(f) == \A x \in Reqs : WillMail(x, f) => req'[x] = req[x]

\* Nothing that concerns the links of factor f happens.
LEMMA CalmMails ==
    ASSUME TypeOK, TypeOK', NEW f \in Factors, MailedFor(f), clock' >= clock,
           lock'[f].until = lock[f].until, lock'[f].ep = lock[f].ep, lock'[f].noted = lock[f].noted,
           mail \subseteq mail', silenced \subseteq silenced', Steady(f)
    PROVE  MailedFor(f)'
<1>1. lock[f].until \in Nat /\ lock[f].noted \in Nat /\ clock \in Nat /\ clock' \in Nat
  <2>1. clock' \in 1..MaxTime
    BY DEF TypeOK
  <2> QED BY <2>1, BrakeFields
<1>2. Excused(f) => Excused(f)'
  BY DEF Excused
<1>3. \A t : Reaches(f, t) => Reaches(f, t)'
  BY DEF Reaches
<1>4. \A x \in Reqs : WillMail(x, f) => WillMail(x, f)'
  BY DEF Steady, WillMail
<1>5. lock'[f].until <= clock' + LockFor /\ lock'[f].noted <= clock'
  BY <1>1 DEF MailedFor
<1>6. Reaches(f, lock[f].noted + LinkLife) => Reaches(f, lock[f].noted + LinkLife)'
  BY DEF Reaches
<1>7. Reaches(f, lock[f].until) => Reaches(f, lock[f].until)'
  BY DEF Reaches
<1> QED
  BY <1>2, <1>4, <1>5, <1>6, <1>7 DEF MailedFor, Reaches

\* A factor that was cleared needs no link.
LEMMA ClearedMails ==
    ASSUME TypeOK', NEW f \in Factors, lock'[f] = Clear
    PROVE  MailedFor(f)'
<1>1. clock' \in Nat
  BY DEF TypeOK
<1>2. lock'[f].until = 0 /\ lock'[f].noted = 0
  BY DEF Clear
<1>3. 0 <= clock' + LockFor /\ 0 <= clock'
  <2>1. \A t \in Nat : 0 <= t + LockFor /\ 0 <= t
    OBVIOUS
  <2> QED BY <1>1, <2>1
<1> QED
  BY <1>2, <1>3 DEF MailedFor

\* The step of a request that is not mailing leaves those that are alone.
LEMMA OthersAreSteady ==
    ASSUME NEW r \in Reqs, Only(r), req[r].pc \notin {"readback", "notify"}, NEW f \in Factors
    PROVE  Steady(f)
BY DEF Steady, Only, WillMail

\* Counting a failure keeps every lockout reachable by mail.
LEMMA CountMails ==
    ASSUME TypeOK, TypeOK', EpisodeIsMailed, NEW r \in Reqs, Only(r), Count(r), NEW f \in Factors
    PROVE  MailedFor(f)'
<1>1. MailedFor(f)
  BY DEF EpisodeIsMailed
<1>2. req[r].pc \notin {"readback", "notify"} /\ mail' = mail /\ silenced' = silenced /\ clock' = clock
  BY DEF Count, At, history
<1>3. lock'[f].until = lock[f].until /\ lock'[f].ep = lock[f].ep /\ lock'[f].noted = lock[f].noted
  BY CountFacts DEF Brakes
<1>4. clock' >= clock
  BY <1>2, BrakeFields
<1> QED
  BY <1>1, <1>2, <1>3, <1>4, OthersAreSteady, CalmMails

\* A lockout that starts has a request that will mail it.
LEMMA StartOrExtendMails ==
    ASSUME TypeOK, TypeOK', EpisodeIsMailed, NEW r \in Reqs, At(r, "lock") \/ At(r, "extend"),
           StartOrExtend(r), NEW f \in Factors
    PROVE  MailedFor(f)'
<1>1. MailedFor(f)
  BY DEF EpisodeIsMailed
<1>2. req[r].pc \notin {"readback", "notify"} /\ mail' = mail /\ silenced' = silenced /\ clock' = clock
  BY DEF StartOrExtend, At, history
<1>3. Only(r)
  BY StartOrExtendFacts DEF Only
<1>4. clock' >= clock
  BY <1>2, BrakeFields
<1>5. CASE f # req[r].f
  <2>1. lock'[f] = lock[f]
    BY <1>5, StartOrExtendFacts DEF Brakes
  <2> QED BY <1>1, <1>2, <1>3, <1>4, <2>1, OthersAreSteady, CalmMails
<1>6. CASE f = req[r].f
  <2>1. lock'[f].until = clock + LockFor /\ lock'[f].noted = lock[f].noted
        /\ lock'[f].ep = (IF lock[f].ep = 0 THEN fresh.ep ELSE lock[f].ep)
    BY <1>6, StartOrExtendFacts DEF Brakes
  <2>2. req'[r] = [req[r] EXCEPT !.pc = "readback", !.now = clock] /\ req[r] \in Request
    BY StartOrExtendFacts, BrakeFields
  <2>3. req'[r].pc = "readback" /\ req'[r].now = clock /\ req'[r].f = f
    BY <1>6, <2>2 DEF Request
  <2>4. WillMail(r, f)'
    BY <2>1, <2>3, BrakeFields DEF WillMail
  <2>5. lock'[f].until <= clock' + LockFor /\ lock'[f].noted <= clock' /\ lock'[f].ep # 0
    BY <1>1, <1>2, <2>1, BrakeFields DEF MailedFor, EpisodeIsMailed
  <2>6. lock'[f].noted = 0 \/ Excused(f)' \/ Reaches(f, lock[f].noted + LinkLife)'
    BY <1>1, <1>2, <2>1 DEF MailedFor, Excused, Reaches
  <2> QED BY <2>1, <2>4, <2>5, <2>6 DEF MailedFor, Reaches
<1> QED
  BY <1>5, <1>6

\* The read back hands the promise of a mail on to the notification.
LEMMA ReadBackMails ==
    ASSUME TypeOK, TypeOK', EpisodeIsMailed, NEW r \in Reqs, ReadBack(r), NEW f \in Factors
    PROVE  MailedFor(f)'
<1>1. MailedFor(f)
  BY DEF EpisodeIsMailed
<1>2. mail' = mail /\ silenced' = silenced /\ clock' = clock /\ lock' = lock /\ req[r].pc = "readback"
  BY DEF ReadBack, At, history, stores
<1>3. clock' >= clock /\ req[r] \in Request
  BY <1>2, BrakeFields
<1>4. Only(r)
  BY ReadBackFacts DEF Only
<1>5. CASE ~WillMail(r, f)
  <2>1. Steady(f)
    BY <1>4, <1>5 DEF Steady, Only
  <2> QED BY <1>1, <1>2, <1>3, <2>1, CalmMails
<1>6. CASE WillMail(r, f) /\ lock[req[r].f].ep = 0
  <2>1. lock[f].ep = 0
    BY <1>6 DEF WillMail
  <2> QED BY <1>1, <1>2, <2>1 DEF MailedFor, Excused
<1>7. CASE WillMail(r, f) /\ lock[req[r].f].ep # 0
  <2>1. req'[r] = [req[r] EXCEPT !.pc = "notify", !.ep = lock[req[r].f].ep] /\ req[r].f = f
    BY <1>7, ReadBackFacts DEF WillMail
  <2>2. req'[r].pc = "notify" /\ req'[r].ep = lock[f].ep /\ req'[r].f = f /\ req'[r].now = req[r].now
    BY <1>3, <2>1 DEF Request
  <2>3. WillMail(r, f)'
    BY <1>2, <1>7, <2>2 DEF WillMail
  <2> QED BY <1>1, <1>2, <2>3 DEF MailedFor, Excused, Reaches
<1> QED
  BY <1>5, <1>6, <1>7

\* The notification keeps the promise: the link is mailed, or was already.
LEMMA NotifyMails ==
    ASSUME TypeOK, TypeOK', EpisodeIsMailed, ReadsAreOld, NEW r \in Reqs, Notify(r), NEW f \in Factors
    PROVE  MailedFor(f)'
<1>1. MailedFor(f)
  BY DEF EpisodeIsMailed
<1>2. clock' = clock /\ clock \in Nat /\ clock' >= clock /\ req[r].pc = "notify" /\ Only(r)
      /\ req[r].now \in Nat /\ req[r].now <= clock /\ lock[f].until \in Nat /\ lock[f].noted \in Nat
  BY BrakeFields, NotifyFacts DEF Notify, At, ReadsAreOld, Only
<1>3. CASE f # req[r].f
  <2>1. lock'[f] = lock[f] /\ mail \subseteq mail' /\ silenced \subseteq silenced'
    BY <1>3, NotifyFacts DEF Brakes
  <2>2. Steady(f)
    BY <1>2, <1>3 DEF Steady, Only, WillMail
  <2> QED BY <1>1, <1>2, <2>1, <2>2, CalmMails
<1>4. CASE f = req[r].f /\ ~MailDue(req[r], lock[f])
  <2>1. lock' = lock /\ mail' = mail /\ silenced' = silenced
    BY <1>4, NotifyFacts
  <2>2. CASE ~WillMail(r, f)
    <3>1. Steady(f)
      BY <1>2, <2>2 DEF Steady, Only
    <3> QED BY <1>1, <1>2, <2>1, <3>1, CalmMails
  <2>3. CASE WillMail(r, f)
    <3>1. lock[f].noted # 0 /\ lock[f].noted + LinkLife >= lock[f].until
      BY <1>2, <1>4, <2>3 DEF WillMail, MailDue
    <3>2. Excused(f) \/ Reaches(f, lock[f].until)
      <4>1. SUFFICES ASSUME NEW l \in mail, l.f = f, l.ep = lock[f].ep,
                            l.exp >= lock[f].noted + LinkLife
                     PROVE  l.exp >= lock[f].until
        BY <1>1, <3>1 DEF MailedFor, Reaches
      <4>2. l.exp \in Nat
        BY DEF TypeOK, Link
      <4> QED BY <1>2, <3>1, <4>1, <4>2
    <3> QED BY <1>1, <1>2, <2>1, <3>2 DEF MailedFor, Excused, Reaches
  <2> QED BY <2>2, <2>3
<1>5. CASE f = req[r].f /\ MailDue(req[r], lock[f])
  <2>1. lock'[f].until = lock[f].until /\ lock'[f].ep = lock[f].ep /\ lock'[f].noted = req[r].now
        /\ req[r].ep = lock[f].ep
    BY <1>5, NotifyFacts DEF Brakes, MailDue
  <2>2. lock'[f].until <= clock' + LockFor /\ lock'[f].noted <= clock'
    BY <1>1, <1>2, <2>1 DEF MailedFor
  <2>3. \/ Excused(f)'
        \/ /\ \E l \in mail' : l.f = f /\ l.ep = lock'[f].ep /\ l.exp >= lock[f].until
           /\ \E l \in mail' : l.f = f /\ l.ep = lock'[f].ep /\ l.exp >= req[r].now + LinkLife
    <3>1. CASE silenced' = silenced \cup {<<req[r].f, req[r].ep>>}
      BY <1>5, <2>1, <3>1 DEF Excused
    <3>2. CASE mail' = mail \cup {[f |-> req[r].f, ep |-> req[r].ep, exp |-> clock + LinkLife]}
      <4> DEFINE l == [f |-> req[r].f, ep |-> req[r].ep, exp |-> clock + LinkLife]
      <4>1. l \in mail' /\ l.f = f /\ l.ep = lock'[f].ep /\ l.exp = clock + LinkLife
        BY <1>5, <2>1, <3>2
      <4>2. clock + LinkLife >= lock[f].until /\ clock + LinkLife >= req[r].now + LinkLife
        BY <1>1, <1>2 DEF MailedFor
      <4> HIDE DEF l
      <4> QED BY <4>1, <4>2
    <3> QED BY <1>5, <3>1, <3>2, NotifyFacts
  <2>4. lock'[f].ep = 0 => lock'[f].noted = 0 /\ (lock'[f].until = 0 \/ Excused(f)')
    <3>1. lock[f].ep # 0
      BY <1>2, <2>1 DEF ReadsAreOld
    <3> QED BY <2>1, <3>1
  <2> QED BY <2>1, <2>2, <2>3, <2>4 DEF MailedFor, Reaches
<1> QED
  BY <1>3, <1>4, <1>5

\* Factor g is cleared or left as it is, by a request that is not mailing.
Settles(r, g) ==
    /\ Only(r) /\ req[r].pc \notin {"readback", "notify"}
    /\ mail' = mail /\ silenced' = silenced /\ clock' = clock
    /\ \A f \in Factors : lock'[f] = lock[f] \/ (f = g /\ lock'[f] = Clear)

\* Settling a factor keeps every lockout reachable by mail.
LEMMA SettledMails ==
    ASSUME TypeOK, TypeOK', EpisodeIsMailed, NEW r \in Reqs, NEW g, Settles(r, g), NEW f \in Factors
    PROVE  MailedFor(f)'
<1>1. CASE lock'[f] = Clear
  BY <1>1, ClearedMails
<1>2. CASE lock'[f] = lock[f]
  <2>1. MailedFor(f) /\ Steady(f) /\ clock' >= clock
    BY OthersAreSteady, BrakeFields DEF Settles, EpisodeIsMailed
  <2> QED BY <1>2, <2>1, CalmMails DEF Settles
<1> QED
  BY <1>1, <1>2 DEF Settles

\* The steps that leave the brakes and the links alone.
LEMMA QuietSteps ==
    ASSUME NEW r \in Reqs,
           \/ ClaimProof(r) \/ Charge(r) \/ Trust(r) \/ Challenge(r) \/ Check(r) \/ TakeChallenge(r)
           \/ TakeCode(r) \/ RevokeTrust(r) \/ (\E b \in BOOLEAN : Session(r, b)) \/ GiveProof(r)
           \/ Revoke(r) \/ DropProof(r) \/ StorePending(r) \/ DropPending(r) \/ Starting(r)
           \/ (At(r, "extend") /\ UNCHANGED <<clock, stores, fresh, starts, faults, history>>)
    PROVE  /\ req[r].pc \notin {"readback", "notify"}
           /\ mail' = mail /\ silenced' = silenced /\ clock' = clock /\ lock' = lock
<1>1. CASE ClaimProof(r) \/ Charge(r) \/ Trust(r) \/ Challenge(r) \/ Check(r) \/ TakeChallenge(r)
           \/ TakeCode(r) \/ RevokeTrust(r) \/ (\E b \in BOOLEAN : Session(r, b)) \/ GiveProof(r)
           \/ Revoke(r) \/ DropProof(r) \/ StorePending(r) \/ DropPending(r)
  BY <1>1 DEF ClaimProof, Charge, Trust, Challenge, Check, TakeChallenge, TakeCode, RevokeTrust,
     Session, GiveProof, Revoke, DropProof, StorePending, DropPending, At, stores, history
<1>2. CASE Starting(r)
  <2>1. req[r].pc = "idle"
    BY <1>2 DEF Starting, Login, Login2fa, SignedIn, UnlockAccount, LogoutAll, ResetPassword, Setup2fa,
       Verify2fa, Begin, At
  <2> QED BY <1>2, <2>1, StartingFrame DEF stores, history
<1>4. CASE At(r, "extend") /\ UNCHANGED <<clock, stores, fresh, starts, faults, history>>
  BY <1>4 DEF At, stores, history
<1> QED
  BY <1>1, <1>2, <1>4

\* The steps that may clear a factor, and when they do.
LEMMA ClearingSteps ==
    ASSUME TypeOK, ReadsAreOld, ChallengeIsAlone, Issued, NEW r \in Reqs, Only(r)
    PROVE  /\ ServePassword(r) => /\ Settles(r, "password")
                                  /\ lock'["password"] = lock["password"]
                                     \/ (lock["password"].until # 0 /\ lock["password"].until <= clock)
           /\ ServeSecondFactor(r) =>
                 /\ Settles(r, "second_factor")
                 /\ lock'["second_factor"] = lock["second_factor"]
                    \/ (lock["second_factor"].until # 0 /\ lock["second_factor"].until <= clock)
           /\ Site(r) => /\ Settles(r, "second_factor")
                         /\ lock' = lock \/ acct'.secret # acct.secret
           /\ ClearPassword(r) => /\ Settles(r, "password")
                                  /\ lock' = lock \/ lock["password"].until <= clock
           /\ ClearSecondFactor(r) => /\ Settles(r, "second_factor")
                                      /\ lock' = lock \/ lock["second_factor"].until <= clock
           /\ Discharge(r) => Settles(r, req[r].f)
<1> USE BrakeFields
<1>0. lock \in [Factors -> Brake]
  BY DEF TypeOK
<1>1. ASSUME ServePassword(r)
      PROVE  /\ Settles(r, "password")
             /\ lock'["password"] = lock["password"]
                \/ (lock["password"].until # 0 /\ lock["password"].until <= clock)
  <2> DEFINE b == lock["password"].until # 0 /\ lock["password"].until <= req[r].seen.pw.until
  <2>1. lock' = [lock EXCEPT !["password"] = IF b THEN Clear ELSE @] /\ b \in BOOLEAN
        /\ req[r].pc = "servePw" /\ mail' = mail /\ silenced' = silenced /\ clock' = clock
    BY <1>1 DEF ServePassword, At, history
  <2>2. req[r].seen.pw.until <= clock /\ req[r].seen.pw.until \in Nat
    <3>1. req[r].seen \in Reading
      BY Fields
    <3>2. req[r].seen.pw \in Brake
      BY <3>1 DEF Reading
    <3> QED BY <2>1, <3>2 DEF ReadsAreOld, Brake
  <2>3. b => lock["password"].until # 0 /\ lock["password"].until <= clock
    BY <2>2
  <2> HIDE DEF b
  <2>4. lock'["password"] = (IF b THEN Clear ELSE lock["password"])
        /\ \A g \in Factors \ {"password"} : lock'[g] = lock[g]
    BY <2>1, ClearedFacts
  <2> QED BY <2>1, <2>3, <2>4 DEF Settles
<1>2. ASSUME ServeSecondFactor(r)
      PROVE  /\ Settles(r, "second_factor")
             /\ lock'["second_factor"] = lock["second_factor"]
                \/ (lock["second_factor"].until # 0 /\ lock["second_factor"].until <= clock)
  <2> DEFINE b == Served(lock["second_factor"], req[r].now)
  <2>1. lock' = [lock EXCEPT !["second_factor"] = IF b THEN Clear ELSE @] /\ b \in BOOLEAN
        /\ req[r].pc = "serveSf" /\ mail' = mail /\ silenced' = silenced /\ clock' = clock
    BY <1>2, <1>0 DEF ServeSecondFactor, At, history, Served
  <2>2. req[r].now <= clock
    BY DEF ReadsAreOld
  <2>3. b => lock["second_factor"].until # 0 /\ lock["second_factor"].until <= clock
    BY <2>2 DEF Served
  <2> HIDE DEF b
  <2>4. lock'["second_factor"] = (IF b THEN Clear ELSE lock["second_factor"])
        /\ \A g \in Factors \ {"second_factor"} : lock'[g] = lock[g]
    BY <2>1, ClearedFacts
  <2> QED BY <2>1, <2>3, <2>4 DEF Settles
<1>3. ASSUME Site(r)
      PROVE  Settles(r, "second_factor") /\ (lock' = lock \/ acct'.secret # acct.secret)
  <2>1. req[r].pc = "site" /\ mail' = mail /\ silenced' = silenced /\ clock' = clock
    BY <1>3 DEF Site, At
  <2>2. req[r] \in Request /\ req[r].op \in SiteOps /\ req[r].code \in Code
    BY <2>1, Fields DEF ChallengeIsAlone
  <2>3. CASE lock' = lock
    BY <2>1, <2>3 DEF Settles
  <2>4. CASE Matched(req[r]) /\ req[r].op \in {"disable", "verify"}
    <3>1. lock' = [lock EXCEPT !["second_factor"] = Clear] /\ acct' = SiteWrite(req[r])
      BY <1>3, <2>4, SiteFacts
    <3>2. Settles(r, "second_factor")
      BY <1>0, <2>1, <3>1 DEF Settles
    <3>3. Unspent(req[r])
      BY <2>4 DEF Matched, Coded
    <3>4. req[r].op = "disable" => acct'.secret = 0 /\ acct.secret # 0
      BY <2>2, <3>1, <3>3, SiteWriteFacts DEF Unspent, IsTotp
    <3>5. req[r].op = "verify" => acct'.secret = acct.pend /\ acct.pend # acct.secret
      BY <2>2, <3>1, <3>3, SiteWriteFacts DEF Unspent, IsTotp, Issued
    <3> QED BY <2>4, <3>2, <3>4, <3>5
  <2> QED BY <1>3, <2>3, <2>4, SiteFacts
<1>4. ASSUME ClearPassword(r)
      PROVE  Settles(r, "password") /\ (lock' = lock \/ lock["password"].until <= clock)
  <2>1. req[r].pc = "clearPw" /\ mail' = mail /\ silenced' = silenced /\ clock' = clock
    BY <1>4 DEF ClearPassword, At, history
  <2>2. PICK b \in BOOLEAN : /\ b => lock["password"].until <= clock
                             /\ lock' = [lock EXCEPT !["password"] = IF b THEN Clear ELSE @]
    BY <1>4, ClearPasswordFacts
  <2>3. ~b => lock' = lock
    BY <1>0, <2>2
  <2>4. lock'["password"] = (IF b THEN Clear ELSE lock["password"])
        /\ \A g \in Factors \ {"password"} : lock'[g] = lock[g]
    BY <2>2, ClearedFacts
  <2> QED BY <2>1, <2>2, <2>3, <2>4 DEF Settles
<1>5. ASSUME ClearSecondFactor(r)
      PROVE  Settles(r, "second_factor") /\ (lock' = lock \/ lock["second_factor"].until <= clock)
  <2>1. req[r].pc = "clearSf" /\ mail' = mail /\ silenced' = silenced /\ clock' = clock
    BY <1>5 DEF ClearSecondFactor, At, history
  <2>2. PICK b \in BOOLEAN : /\ b => lock["second_factor"].until <= req[r].now
                             /\ lock' = [lock EXCEPT !["second_factor"] = IF b THEN Clear ELSE @]
    BY <1>5, ClearSecondFactorFacts
  <2>3. ~b => lock' = lock
    BY <1>0, <2>2
  <2>4. lock'["second_factor"] = (IF b THEN Clear ELSE lock["second_factor"])
        /\ \A g \in Factors \ {"second_factor"} : lock'[g] = lock[g]
    BY <2>2, ClearedFacts
  <2>5. req[r].now <= clock
    BY DEF ReadsAreOld
  <2>6. b => lock["second_factor"].until <= clock
    BY <2>2, <2>5
  <2> QED BY <2>1, <2>3, <2>4, <2>6 DEF Settles
<1>6. ASSUME Discharge(r)
      PROVE  Settles(r, req[r].f)
  <2>1. req[r].pc = "discharge" /\ mail' = mail /\ silenced' = silenced /\ clock' = clock
    BY <1>6 DEF Discharge, At, history
  <2>2. PICK b \in BOOLEAN : lock' = [lock EXCEPT ![req[r].f] = IF b THEN Clear ELSE @]
    BY <1>6, DischargeFacts
  <2>3. lock'[req[r].f] = (IF b THEN Clear ELSE lock[req[r].f])
        /\ \A g \in Factors \ {req[r].f} : lock'[g] = lock[g]
    BY <2>2, ClearedFacts
  <2> QED BY <2>1, <2>3 DEF Settles
<1> QED
  BY <1>1, <1>2, <1>3, <1>4, <1>5, <1>6

\* A reset ends the lockout it could have left without a link.
LEMMA ResetSaveMails ==
    ASSUME TypeOK, TypeOK', EpisodeIsMailed, NEW r \in Reqs, ResetSave(r), NEW f \in Factors
    PROVE  MailedFor(f)'
<1>1. MailedFor(f)
  BY DEF EpisodeIsMailed
<1>2. req[r].pc \notin {"readback", "notify"} /\ mail' = mail /\ clock' = clock
  BY DEF ResetSave, At
<1>3. Only(r) /\ silenced \subseteq silenced' /\ clock' >= clock
  BY <1>2, ResetSaveFacts, EndFacts, BrakeFields DEF Only
<1>4. CASE f # "password"
  <2>1. lock'[f] = lock[f]
    BY <1>4, ResetSaveFacts
  <2> QED BY <1>1, <1>2, <1>3, <2>1, OthersAreSteady, CalmMails
<1>5. CASE f = "password"
  <2>1. lock'[f].ep = 0 /\ lock'[f].noted = 0 /\ (lock'[f].until = 0 \/ lock'[f].until = lock[f].until)
        /\ (lock'[f].until # 0 => <<f, 0>> \in silenced')
    BY <1>5, ResetSaveFacts
  <2>2. lock'[f].until <= clock' + LockFor /\ lock'[f].noted <= clock'
    BY <1>1, <1>2, <2>1, BrakeFields DEF MailedFor
  <2>3. lock'[f].until = 0 \/ Excused(f)'
    BY <2>1 DEF Excused
  <2> QED BY <2>1, <2>2, <2>3 DEF MailedFor
<1> QED
  BY <1>4, <1>5

\* A crash before the mail excuses the lockout it silences.
LEMMA CrashMails ==
    ASSUME TypeOK, TypeOK', EpisodeIsMailed, NEW r \in Reqs, Crash(r), NEW f \in Factors
    PROVE  MailedFor(f)'
<1>1. MailedFor(f)
  BY DEF EpisodeIsMailed
<1>2. mail' = mail /\ clock' = clock /\ lock' = lock /\ silenced \subseteq silenced' /\ End(r)
  BY DEF Crash, stores
<1>3. Only(r) /\ clock' >= clock
  BY <1>2, EndFacts, BrakeFields DEF Only
<1>4. CASE req[r].pc \notin {"readback", "notify"} \/ req[r].f # f
  <2>1. Steady(f)
    BY <1>3, <1>4 DEF Steady, Only, WillMail
  <2> QED BY <1>1, <1>2, <1>3, <2>1, CalmMails
<1>5. CASE req[r].pc \in {"readback", "notify"} /\ req[r].f = f
  <2>1. Excused(f)'
    BY <1>2, <1>5 DEF Crash, Excused
  <2> QED BY <1>1, <1>2, <2>1 DEF MailedFor
<1> QED
  BY <1>4, <1>5

\* A step of the handlers: calm, clearing, counting, locking or mailing.
LEMMA StepMails ==
    ASSUME TypeOK, TypeOK', EpisodeIsMailed, ReadsAreOld, ChallengeIsAlone, Issued, NEW r \in Reqs,
           Step(r), NEW f \in Factors
    PROVE  MailedFor(f)'
<1>1. GoodRequest(req[r], fresh.ch, clock)
  BY GoodIsMeant
<1>2. Only(r)
  BY <1>1, StepAlters, TakeChallengeAlters DEF Alters
<1>3. CASE \/ ClaimProof(r) \/ Charge(r) \/ Trust(r) \/ Challenge(r) \/ Check(r) \/ TakeChallenge(r)
           \/ TakeCode(r) \/ RevokeTrust(r) \/ (\E b \in BOOLEAN : Session(r, b)) \/ GiveProof(r)
           \/ Revoke(r) \/ DropProof(r) \/ StorePending(r) \/ DropPending(r)
           \/ (At(r, "extend") /\ UNCHANGED <<clock, stores, fresh, starts, faults, history>>)
  <2>1. Settles(r, "password")
    BY <1>2, <1>3, QuietSteps DEF Settles
  <2> QED BY <2>1, SettledMails
<1>4. CASE \/ ServePassword(r) \/ ServeSecondFactor(r) \/ Site(r) \/ ClearPassword(r)
           \/ ClearSecondFactor(r) \/ Discharge(r)
  <2>1. Settles(r, "password") \/ Settles(r, "second_factor") \/ Settles(r, req[r].f)
    BY <1>2, <1>4, ClearingSteps
  <2> QED BY <2>1, SettledMails
<1>5. CASE LockFactor(r) \/ (Extend(r) /\ StartOrExtend(r))
  BY <1>5, StartOrExtendMails DEF LockFactor, Extend
<1>6. CASE Count(r)
  BY <1>2, <1>6, CountMails
<1>7. Extend(r) => \/ StartOrExtend(r)
                   \/ At(r, "extend") /\ UNCHANGED <<clock, stores, fresh, starts, faults, history>>
  BY DEF Extend
<1> QED
  BY <1>3, <1>4, <1>5, <1>6, <1>7, ReadBackMails, NotifyMails, ResetSaveMails DEF Step

\* Every step keeps every lockout reachable by mail or excused.
LEMMA EpisodeStaysMailed ==
    ASSUME TypeOK, TypeOK', EpisodeIsMailed, ReadsAreOld, ChallengeIsAlone, Issued, [Next]_vars
    PROVE  EpisodeIsMailed'
<1>1. fresh'.ep # 0
  BY IdentitiesGrow DEF EpisodeIsMailed
<1>2. ASSUME NEW f \in Factors PROVE MailedFor(f)'
  <2>1. MailedFor(f) /\ clock \in Nat
    BY BrakeFields DEF EpisodeIsMailed
  <2>2. CASE UNCHANGED vars
    <3>1. clock' >= clock /\ Steady(f) /\ lock' = lock /\ mail' = mail /\ silenced' = silenced
      BY <2>1, <2>2 DEF vars, stores, history, Steady
    <3> QED BY <2>1, <3>1, CalmMails
  <2>3. CASE Tick
    <3>1. clock' >= clock /\ Steady(f) /\ lock' = lock /\ mail' = mail /\ silenced' = silenced
      BY <2>1, <2>3 DEF Tick, stores, history, Steady
    <3> QED BY <2>1, <3>1, CalmMails
  <2>4. ASSUME NEW r \in Reqs, Start(r), mix' = mix PROVE MailedFor(f)'
    <3>1. Starting(r)
      BY <2>4, StartIsOne
    <3>2. Alters(r)
      BY <2>4, <3>1, LoginAlters, Login2faAlters, SignedInAlters, Setup2faAlters, Verify2faAlters,
         OtherStartsAlter DEF Starting
    <3>3. Settles(r, "password")
      BY <3>1, <3>2, QuietSteps DEF Settles, Alters
    <3> QED BY <3>3, SettledMails
  <2> QED BY <2>2, <2>3, <2>4, StepMails, CrashMails DEF Next
<1> QED
  BY <1>1, <1>2 DEF EpisodeIsMailed

-----------------------------------------------------------------------------
(* The theorems.                                                           *)

\* The parts of Issued.
LEMMA IssuedParts ==
    Issued <=> /\ \A p \in proofs : p.id < fresh.proof
               /\ \A c \in challenges : c.id < fresh.ch
               /\ OnePerId(challenges) /\ IssuedFactor
BY DEF Issued, IssuedFactor, OnePerId

\* The invariant holds at the start.
LEMMA InitHolds ==
    ASSUME Init
    PROVE  SignInInv /\ CodeSpentOnce /\ OneCodePerChallenge /\ ProofCarriesOnce
<1> PICK s \in {0, 1} :
         acct = [secret |-> s, last |-> 0, codes |-> IF s = 1 THEN {1} ELSE {},
                 pend |-> 0, pendExp |-> 0, erasing |-> FALSE]
  BY DEF Init
<1>1. acct \in Account /\ acct.secret = s /\ acct.pend = 0 /\ acct.codes \subseteq {1}
  BY DEF Account
<1>2. \A f \in Factors : lock[f] = [Clear EXCEPT !.n = MaxAttempts - 1]
  BY DEF Init
<1>3. [Clear EXCEPT !.n = MaxAttempts - 1] \in Brake
  <2>1. MaxAttempts - 1 \in 0..MaxAttempts
    OBVIOUS
  <2> QED BY <2>1, ClearIsBrake DEF Brake
<1>4. \A f \in Factors : lock[f].until = 0 /\ lock[f].ep = 0 /\ lock[f].noted = 0
  BY <1>2 DEF Clear
<1>5. lock \in [Factors -> Brake]
  BY <1>3 DEF Init
<1>6. [id |-> 1, single |-> FALSE, fails |-> 0] \in ProofRow
  BY DEF ProofRow
<1>7. [id |-> 1, exp |-> 1 + ChallengeLife, open |-> TRUE] \in ChallengeRow
  BY DEF ChallengeRow
<1>8. fresh \in Counters /\ fresh.proof = 2 /\ fresh.ch = 2 /\ fresh.code = 2 /\ fresh.secret = 2
      /\ fresh.ep = 1
  BY DEF Init, Counters
<1>9. TypeOK
  <2>1. proofs \subseteq ProofRow
    BY <1>6 DEF Init
  <2>2. challenges \subseteq ChallengeRow
    BY <1>7 DEF Init
  <2>3. req \in [Reqs -> Request]
    BY IdleIsRequest DEF Init
  <2> QED BY <1>1, <1>5, <1>8, <2>1, <2>2, <2>3 DEF Init, TypeOK
<1>10. Issued
  <2>1. \A p \in proofs : p.id = 1
    BY DEF Init
  <2> DEFINE first == [id |-> 1, exp |-> 1 + ChallengeLife, open |-> TRUE]
  <2>2. (\A c \in challenges : c = first) /\ first.id = 1
    BY DEF Init
  <2> HIDE DEF first
  <2>3. \A c \in challenges : c.id = 1 /\ \A d \in challenges : c = d
    BY <2>2
  <2> QED BY <1>1, <1>8, <2>1, <2>3 DEF Issued
<1>11. \A r \in Reqs : req[r] = Idle
  BY DEF Init
<1>12. uses = {} /\ carried = {} /\ clock = 1
  BY DEF Init
<1>13. Idle.ch = 0 /\ Idle.pc = "idle" /\ Idle.now = 0 /\ Idle.seen.pw.until = 0
  BY DEF Idle, Unread, Clear
<1>14. ChallengeIsAlone
  BY <1>11, <1>12, <1>13 DEF ChallengeIsAlone
<1>15. ReadsAreOld
  BY <1>11, <1>12, <1>13 DEF ReadsAreOld
<1>16. EpisodeIsMailed
  <2>1. ASSUME NEW f \in Factors PROVE MailedFor(f)
    <3>1. lock[f].until <= clock + LockFor /\ lock[f].noted <= clock
      BY <1>4, <1>12
    <3> QED BY <1>4, <3>1 DEF MailedFor
  <2> QED BY <1>8, <2>1 DEF EpisodeIsMailed
<1> QED
  BY <1>9, <1>10, <1>12, <1>14, <1>15, <1>16 DEF SignInInv, SpentStaysSpent, CarriedIsGone,
     CodeSpentOnce, OneCodePerChallenge, ProofCarriesOnce

\* Every step keeps the invariant.
LEMMA InvariantStays ==
    ASSUME SignInInv, [Next]_vars
    PROVE  SignInInv'
<1> USE DEF SignInInv
<1>1. TypeOK'
  BY TypesStay
<1>2. IssuedFactor /\ OnePerId(challenges)
  BY IssuedParts
<1>3. IssuedFactor' /\ SpentStaysSpent'
  BY <1>2, IssuedAccount
<1>4. \A p \in proofs' : p.id < fresh'.proof
  BY IssuedProofs DEF Issued
<1>5. (\A c \in challenges' : c.id < fresh'.ch) /\ OnePerId(challenges')
  BY <1>2, IssuedChallenges DEF Issued
<1>6. Issued'
  BY <1>3, <1>4, <1>5 DEF Issued, IssuedFactor, OnePerId
<1>7. ChallengeIsAlone' /\ ReadsAreOld'
  BY <1>1, ChallengeStaysAlone
<1>8. CarriedIsGone'
  BY CarriedStaysGone
<1>9. EpisodeIsMailed'
  BY <1>1, EpisodeStaysMailed
<1> QED
  BY <1>1, <1>3, <1>6, <1>7, <1>8, <1>9

(* SignInInv holds: the state has its shape, what served once is gone from *)
(* the stores, remembered deadlines are over and every episode is mailed   *)
(* for, for any number of racing requests (authController, secondFactor,   *)
(* lockout).                                                               *)
THEOREM SignInInvHolds == Spec => []SignInInv
<1>1. Init => SignInInv
  BY InitHolds
<1>2. SignInInv /\ [Next]_vars => SignInInv'
  BY InvariantStays
<1> QED
  BY <1>1, <1>2, PTL DEF Spec

(* A TOTP or backup code is accepted once, at whatever site it is          *)
(* presented, though every check reads the account long before the write   *)
(* that spends the code (casFilter).                                       *)
THEOREM CodeSpentOnceHolds == Spec => []CodeSpentOnce
<1>1. Init => CodeSpentOnce
  BY InitHolds
<1>2. SignInInv /\ CodeSpentOnce /\ [Next]_vars => CodeSpentOnce'
  BY CodeStaysSpentOnce DEF SignInInv
<1> QED
  BY <1>1, <1>2, SignInInvHolds, PTL DEF Spec

(* A challenge buys one completed sign-in and costs one code, however many *)
(* exchanges race on it (login2fa, consumeTwoFactorChallenge).             *)
THEOREM OneCodePerChallengeHolds == Spec => []OneCodePerChallenge
<1>1. Init => OneCodePerChallenge
  BY InitHolds
<1>2. SignInInv /\ OneCodePerChallenge /\ [Next]_vars => OneCodePerChallenge'
  BY OneCodeStaysPerChallenge DEF SignInInv
<1> QED
  BY <1>1, <1>2, SignInInvHolds, PTL DEF Spec

(* A single-use device proof lets one right password past the lockout      *)
(* (consumeDeviceProof).                                                   *)
THEOREM ProofCarriesOnceHolds == Spec => []ProofCarriesOnce
<1>1. Init => ProofCarriesOnce
  BY InitHolds
<1>2. SignInInv /\ ProofCarriesOnce /\ [Next]_vars => ProofCarriesOnce'
  BY ProofStaysCarriedOnce DEF SignInInv
<1> QED
  BY <1>1, <1>2, SignInInvHolds, PTL DEF Spec

(* While a factor is locked the owner holds a link that opens it, unless a *)
(* fault or a password reset kept it from being mailed (lockFactor).       *)
THEOREM LockedHasLinkHolds == Spec => []LockedHasLink
<1>1. SignInInv => LockedHasLink
  <2>1. SUFFICES ASSUME SignInInv, NEW f \in Factors, Running(f), ~Locking(f), ~Excused(f)
                 PROVE  \E l \in mail : l.f = f /\ l.ep = lock[f].ep /\ l.exp >= lock[f].until
    BY DEF LockedHasLink, Excused
  <2>2. MailedFor(f) /\ lock[f].until # 0
    <3>1. TypeOK /\ EpisodeIsMailed
      BY <2>1 DEF SignInInv
    <3> QED BY <2>1, <3>1, BrakeFields DEF EpisodeIsMailed, Running
  <2>3. \A r \in Reqs : ~WillMail(r, f)
    BY <2>1 DEF Locking, WillMail
  <2> QED BY <2>1, <2>2, <2>3 DEF MailedFor, Reaches
<1> QED
  BY <1>1, SignInInvHolds, PTL

-----------------------------------------------------------------------------
(* The brake.                                                              *)

\* What BrakeHolds asks of one step.
Answered(f) ==
    \/ \E r \in Reqs : At(r, "discharge") /\ req[r].f = f /\ req'[r] # req[r]
    \/ f = "password" /\ \E r \in Reqs : At(r, "save") /\ req'[r] # req[r]
    \/ f = "second_factor" /\ acct'.secret # acct.secret
    \/ ~Running(f) /\ (lock[f].until # 0 \/ Completing(f))

\* A step that lowers no count and drops no deadline forgives nothing.
LEMMA UnforgivenStep ==
    ASSUME TypeOK, TypeOK', NEW f \in Factors, lock'[f].n >= lock[f].n,
           lock'[f].until = lock[f].until \/ lock'[f].until # 0
    PROVE  ~Forgiven(f)
<1>1. lock[f].n \in Nat /\ lock'[f].n \in Nat
  <2>1. lock'[f] \in Brake
    BY DEF TypeOK
  <2> QED BY <2>1, BrakeFields DEF Brake
<1> QED
  BY <1>1 DEF Forgiven

\* An untouched brake is not forgiven.
LEMMA SameIsUnforgiven ==
    ASSUME TypeOK, TypeOK', NEW f \in Factors, lock'[f] = lock[f]
    PROVE  ~Forgiven(f)
<1>1. lock'[f].n >= lock[f].n
  BY BrakeFields
<1> QED
  BY <1>1, UnforgivenStep

\* Every step of a request that forgives a factor is one of the ways out.
LEMMA StepAnswers ==
    ASSUME TypeOK, TypeOK', ReadsAreOld, ChallengeIsAlone, Issued, NEW r \in Reqs, Step(r),
           NEW f \in Factors, Forgiven(f)
    PROVE  Answered(f)
<1>1. GoodRequest(req[r], fresh.ch, clock)
  BY GoodIsMeant
<1>2. Only(r)
  BY <1>1, StepAlters, TakeChallengeAlters DEF Alters
<1>3. lock'[f] # lock[f]
  BY SameIsUnforgiven
<1>4. lock[f].until \in Nat /\ clock \in Nat
  BY BrakeFields
<1>5. CASE ServePassword(r)
  <2>1. f = "password"
    BY <1>2, <1>3, <1>5, ClearingSteps DEF Settles
  <2>2. lock[f].until # 0 /\ lock[f].until <= clock
    BY <1>2, <1>3, <1>5, <2>1, ClearingSteps
  <2> QED BY <1>4, <2>2 DEF Answered, Running
<1>6. CASE ServeSecondFactor(r)
  <2>1. f = "second_factor"
    BY <1>2, <1>3, <1>6, ClearingSteps DEF Settles
  <2>2. lock[f].until # 0 /\ lock[f].until <= clock
    BY <1>2, <1>3, <1>6, <2>1, ClearingSteps
  <2> QED BY <1>4, <2>2 DEF Answered, Running
<1>7. CASE Site(r)
  <2>1. f = "second_factor" /\ acct'.secret # acct.secret
    BY <1>2, <1>3, <1>7, ClearingSteps DEF Settles
  <2> QED BY <2>1 DEF Answered
<1>8. CASE ClearPassword(r)
  <2>1. f = "password" /\ lock[f].until <= clock
    BY <1>2, <1>3, <1>8, ClearingSteps DEF Settles
  <2>2. req'[r].pc = "clearSf" /\ req[r].pc = "clearPw"
    BY <1>8, ClearPasswordFacts, BrakeFields DEF ClearPassword, At, Request
  <2>3. Completing(f)
    BY <2>1, <2>2 DEF Completing, At
  <2> QED BY <1>4, <2>1, <2>3 DEF Answered, Running
<1>9. CASE ClearSecondFactor(r)
  <2>1. f = "second_factor" /\ lock[f].until <= clock
    BY <1>2, <1>3, <1>9, ClearingSteps DEF Settles
  <2>2. req'[r].pc = "session" /\ req[r].pc = "clearSf"
    BY <1>9, ClearSecondFactorFacts, GotoFacts, BrakeFields DEF ClearSecondFactor, At
  <2>3. Completing(f)
    BY <2>1, <2>2 DEF Completing, At
  <2> QED BY <1>4, <2>1, <2>3 DEF Answered, Running
<1>10. CASE Discharge(r)
  <2>1. f = req[r].f
    BY <1>2, <1>3, <1>10, ClearingSteps DEF Settles
  <2>2. req[r].pc = "discharge"
    BY <1>10 DEF Discharge, At
  <2>3. CASE req'[r] = Idle
    <3>1. req'[r].pc = "idle"
      BY <2>3 DEF Idle
    <3> QED BY <2>1, <2>2, <3>1 DEF Answered, At
  <2>4. CASE req'[r] = [req[r] EXCEPT !.pc = "giveProof", !.match = TRUE]
    <3>1. req'[r].pc = "giveProof"
      BY <2>4, BrakeFields DEF Request
    <3> QED BY <2>1, <2>2, <3>1 DEF Answered, At
  <2> QED BY <1>10, <2>3, <2>4, DischargeFacts
<1>11. CASE ResetSave(r)
  <2>1. f = "password"
    BY <1>3, <1>11, ResetSaveFacts
  <2>2. req'[r] = Idle /\ req[r].pc = "save"
    BY <1>11, EndFacts, BrakeFields DEF ResetSave, At
  <2>3. req'[r].pc = "idle"
    BY <2>2 DEF Idle
  <2>4. req'[r] # req[r]
    BY <2>2, <2>3
  <2> QED BY <2>1, <2>2, <2>4 DEF Answered, At
<1>12. CASE Count(r)
  <2>1. f = req[r].f
    BY <1>3, <1>12, CountFacts DEF Brakes
  <2>2. lock'[f].until = lock[f].until
    BY <1>12, <2>1, CountFacts DEF Brakes
  <2>3. lock'[f].n = IF lock[f].n < MaxAttempts THEN lock[f].n + 1 ELSE lock[f].n
    BY <1>12, <2>1, CountFacts DEF Brakes
  <2>4. lock[f].n \in Int
    BY BrakeFields
  <2>5. \A t \in Int : t + 1 >= t /\ t >= t
    OBVIOUS
  <2>6. lock[f].n + 1 >= lock[f].n /\ lock[f].n >= lock[f].n
    BY <2>4, <2>5
  <2>7. lock'[f].n >= lock[f].n
    BY <2>3, <2>6
  <2> QED BY <2>2, <2>7, UnforgivenStep
<1>13. CASE StartOrExtend(r)
  <2>1. f = req[r].f
    BY <1>3, <1>13, StartOrExtendFacts DEF Brakes
  <2>2. lock'[f].n = lock[f].n /\ lock'[f].until = clock + LockFor
    BY <1>13, <2>1, StartOrExtendFacts DEF Brakes
  <2>3. lock[f].n \in Int /\ clock \in Nat /\ clock >= 1 /\ LockFor \in Nat
    BY BrakeFields
  <2>4. lock'[f].n >= lock[f].n
    BY <2>2, <2>3
  <2>5. clock + LockFor # 0
    BY <2>3
  <2> QED BY <2>2, <2>4, <2>5, UnforgivenStep
<1>14. CASE Notify(r)
  <2>1. f = req[r].f
    BY <1>3, <1>14, NotifyFacts DEF Brakes
  <2>2. lock'[f].n = lock[f].n /\ lock'[f].until = lock[f].until
    BY <1>14, <2>1, NotifyFacts DEF Brakes
  <2>3. lock[f].n \in Int
    BY BrakeFields
  <2>4. lock'[f].n >= lock[f].n
    BY <2>2, <2>3
  <2> QED BY <2>2, <2>4, UnforgivenStep
<1>15. CASE ReadBack(r)
  BY <1>3, <1>15 DEF ReadBack, stores
<1>16. CASE \/ ClaimProof(r) \/ Charge(r) \/ Trust(r) \/ Challenge(r) \/ Check(r) \/ TakeChallenge(r)
           \/ TakeCode(r) \/ RevokeTrust(r) \/ (\E b \in BOOLEAN : Session(r, b)) \/ GiveProof(r)
           \/ Revoke(r) \/ DropProof(r) \/ StorePending(r) \/ DropPending(r)
           \/ (At(r, "extend") /\ UNCHANGED <<clock, stores, fresh, starts, faults, history>>)
  BY <1>3, <1>16, QuietSteps
<1> QED
  BY <1>5, <1>6, <1>7, <1>8, <1>9, <1>10, <1>11, <1>12, <1>13, <1>14, <1>15, <1>16, StepIsAnAction

\* Every step that forgives a factor is one of the ways out.
LEMMA BrakeStep ==
    ASSUME SignInInv, [Next]_vars, NEW f \in Factors, Forgiven(f)
    PROVE  Answered(f)
<1>1. TypeOK /\ ReadsAreOld /\ ChallengeIsAlone /\ Issued
  BY DEF SignInInv
<1>2. TypeOK'
  BY <1>1, TypesStay
<1>3. lock'[f] # lock[f]
  BY <1>1, <1>2, SameIsUnforgiven
<1>4. ~(UNCHANGED vars) /\ ~Tick /\ (\A r \in Reqs : ~Crash(r) /\ ~Start(r))
  <2>1. ~(UNCHANGED vars)
    BY <1>3 DEF vars, stores
  <2>2. ~Tick
    BY <1>3 DEF Tick, stores
  <2>3. ASSUME NEW r \in Reqs, Crash(r) PROVE FALSE
    BY <1>3, <2>3 DEF Crash, stores
  <2>4. ASSUME NEW r \in Reqs, Start(r) PROVE FALSE
    BY <1>3, <2>4, StartIsOne, QuietSteps
  <2> QED BY <2>1, <2>2, <2>3, <2>4
<1> QED
  BY <1>1, <1>2, <1>4, StepAnswers DEF Next

(* Failures are forgotten only by a way out the account offers: no         *)
(* completed sign-in and no discharge decided on an older read ends a      *)
(* lockout that has started since (dischargeOnCompletion,                  *)
(* dischargeServedSecondFactor, login's discharge of a served lockout).    *)
THEOREM BrakeAlwaysHolds == Spec => BrakeHolds
<1>1. SignInInv /\ [Next]_vars =>
        [\A f \in Factors : Forgiven(f) =>
          \/ \E r \in Reqs : At(r, "discharge") /\ req[r].f = f /\ req'[r] # req[r]
          \/ f = "password" /\ \E r \in Reqs : At(r, "save") /\ req'[r] # req[r]
          \/ f = "second_factor" /\ acct'.secret # acct.secret
          \/ ~Running(f) /\ (lock[f].until # 0 \/ Completing(f))]_vars
  BY BrakeStep DEF Answered
<1> QED
  BY <1>1, SignInInvHolds, PTL DEF Spec, BrakeHolds

=============================================================================
