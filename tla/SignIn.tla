------------------------------- MODULE SignIn -------------------------------
(***************************************************************************)
(* Signing in to one account: the failed-attempt brake of each factor, the *)
(* second-factor challenge, one-time codes, device proofs, unlock links    *)
(* (server: utils/lockout, secondFactor, twoFactorChallenge, deviceProofs; *)
(* authController login, login2fa, unlockAccount, resetPassword;           *)
(* userController verify2fa, disable2fa, regenerateBackupCodes,            *)
(* deleteAccount).                                                         *)
(*                                                                         *)
(* Every handler is split at its writes. A read and the early returns that *)
(* follow it are one step; a refusal that writes nothing is no action. The *)
(* session row itself belongs to module Sessions.                          *)
(***************************************************************************)
EXTENDS Integers, FiniteSets

CONSTANTS
    Reqs,              \* requests in progress at once
    MaxAttempts,       \* MAX_LOGIN_ATTEMPTS
    MaxProofFailures,  \* MAX_DEVICE_PROOF_FAILURES
    LockFor,           \* LOCKOUT_DURATION_MINUTES, in ticks of the extension interval
    LinkLife,          \* UNLOCK_TOKEN_TTL_MINUTES, in ticks
    ChallengeLife,     \* TWO_FACTOR_CHALLENGE_SECONDS, in ticks
    SetupLife,         \* the life of a pending secret, in ticks
    Drifts,            \* how many steps behind a user's clock may be
    Mixes,             \* bound: what the requests of a behaviour are drawn from, how many
    MaxTime,           \* bound: ticks of the clock
    MaxFaults          \* bound: handlers that die, mails that are not sent

\* lockout.ts asks for a link that outlives the lockout it was mailed for.
ASSUME SignInAssumption ==
    /\ {MaxAttempts, MaxProofFailures, LockFor, ChallengeLife, MaxTime} \subseteq Nat \ {0}
    /\ {MaxFaults, LinkLife, SetupLife} \subseteq Nat
    /\ LinkLife > LockFor
    /\ Drifts \subseteq {0, 1}
    /\ \A m \in Mixes :
           /\ m.starts \in Nat
           /\ m.uses \subseteq {"login", "login2fa", "disable", "regen", "delete", "enrol",
                               "unlock", "everywhere", "reset", "proof", "remember"}

VARIABLES
    clock,       \* the time, from 1; a TOTP step lasts one tick
    lock,        \* the brake of each factor: FactorState
    acct,        \* the second factor of the account and its erasure mark
    proofs,      \* the device_proofs collection
    challenges,  \* the challenges collection
    trusted,     \* the trusted_devices collection
    mail,        \* unlock links in the owner's inbox
    req,         \* the requests in progress
    fresh,       \* the next identity of each kind
    mix,         \* the requests and cookies of this behaviour, and their number
    starts, faults,
    uses,        \* history: codes accepted, at any site
    carried,     \* history: sign-ins a single-use proof vouched for
    silenced     \* history: episodes a fault kept from being mailed

stores == <<lock, acct, proofs, challenges, trusted, mail>>
history == <<uses, carried, silenced>>
vars == <<clock, stores, req, fresh, mix, starts, faults, history>>

Factors == {"password", "second_factor"}

\* lockoutClearUpdate: the four facts of a lockout, all absent.
Clear == [n |-> 0, until |-> 0, ep |-> 0, noted |-> 0]

\* A TOTP code is its secret and step; a backup code has no secret.
Wrong == [s |-> 0, step |-> 0]
IsTotp(code) == code.s # 0

\* The account of a request that has not read it.
Unread == [pw |-> Clear, pwRunning |-> FALSE, sf |-> FALSE, sfRunning |-> FALSE,
           secret |-> 0, last |-> 0, codes |-> {}, pend |-> 0]

Idle == [pc |-> "idle", op |-> "none", f |-> "password", match |-> FALSE, proof |-> 0,
         cookie |-> 0, ch |-> 0, code |-> Wrong, ok |-> FALSE, now |-> 0, ep |-> 0,
         seen |-> Unread]

-----------------------------------------------------------------------------
Init ==
    /\ clock = 1
    /\ mix \in Mixes
    /\ lock = [f \in Factors |-> [Clear EXCEPT !.n = MaxAttempts - 1]]
    /\ \E s \in {0, 1} :
           acct = [secret |-> s, last |-> 0, codes |-> IF s = 1 THEN {1} ELSE {},
                   pend |-> 0, pendExp |-> 0, erasing |-> FALSE]
    /\ proofs = {[id |-> 1, single |-> FALSE, fails |-> 0]}
    /\ challenges = IF acct.secret = 1 THEN {[id |-> 1, exp |-> 1 + ChallengeLife, open |-> TRUE]}
                    ELSE {}
    /\ trusted = IF acct.secret = 1 THEN {1} ELSE {}
    /\ mail = {}
    /\ req = [r \in Reqs |-> Idle]
    /\ fresh = [ep |-> 1, proof |-> 2, ch |-> 2, trust |-> 2, code |-> 2, secret |-> 2]
    /\ starts = 0 /\ faults = 0
    /\ uses = {} /\ carried = {} /\ silenced = {}

Mint(kind) == fresh' = [fresh EXCEPT ![kind] = @ + 1]

-----------------------------------------------------------------------------
(* Reading the account.                                                    *)

\* isLockoutRunning: a deadline that has arrived is served.
Running(f) == lock[f].until > clock

\* What a handler keeps of the account it read: the brakes, the factor.
Snapshot ==
    [pw |-> lock["password"], pwRunning |-> Running("password"),
     sf |-> lock["second_factor"] # Clear, sfRunning |-> Running("second_factor"),
     secret |-> acct.secret, last |-> acct.last, codes |-> acct.codes, pend |-> acct.pend]

At(r, pc) == req[r].pc = pc
Goto(r, pc) == req' = [req EXCEPT ![r].pc = pc]
End(r) == req' = [req EXCEPT ![r] = Idle]
Begin(r, rec) ==
    /\ At(r, "idle") /\ starts < mix.starts /\ ~acct.erasing
    /\ starts' = starts + 1
    /\ req' = [req EXCEPT ![r] = rec]

\* The cookies a request may bring: none, or one that names a live row.
Presented == {0} \cup {p.id : p \in IF "proof" \in mix.uses THEN proofs ELSE {}}
Cookies == {0} \cup IF "remember" \in mix.uses THEN trusted ELSE {}
Proof(id) == CHOOSE p \in proofs : p.id = id

-----------------------------------------------------------------------------
(* login: the password step.                                               *)

\* Where a login with the right password goes: its own brake is behind it.
AfterPassword(q) ==
    CASE q.seen.secret = 0 -> "clearPw"
      [] q.seen.secret # 0 /\ q.cookie # 0 -> "trust"
      [] OTHER -> "challenge"

\* The branches of login once it is known whether this browser is proven.
AfterProof(q, proven) ==
    CASE q.seen.pwRunning /\ ~proven -> "extend"
      [] ~q.match /\ q.proof # 0 -> "charge"
      [] ~q.match /\ q.proof = 0 -> "count"
      [] q.match /\ q.seen.pw.until # 0 /\ ~q.seen.pwRunning -> "servePw"
      [] OTHER -> AfterPassword(q)

\* login reads the proof, then the account, and compares the password.
Login(r, match, p, t) ==
    LET q == [Idle EXCEPT !.op = "login", !.match = match, !.proof = p, !.cookie = t,
                          !.seen = Snapshot]
        claim == match /\ p # 0 /\ Proof(p).single
    IN  /\ Begin(r, [q EXCEPT !.pc = IF claim THEN "claimProof" ELSE AfterProof(q, p # 0)])
        /\ UNCHANGED <<clock, stores, fresh, faults, history>>

\* Mutant: a single-use proof vouches for whoever read it.
ClaimProofUnchecked(r) ==
    /\ At(r, "claimProof")
    /\ proofs' = {p \in proofs : p.id # req[r].proof}
    /\ Goto(r, AfterProof(req[r], TRUE))
    /\ carried' = carried \cup {[id |-> req[r].proof,
           nth |-> Cardinality({c \in carried : c.id = req[r].proof})]}
    /\ UNCHANGED <<clock, lock, acct, challenges, trusted, mail, fresh, starts, faults, uses,
                   silenced>>

\* consumeDeviceProof: of two requests with one single-use proof, one is proven.
ClaimProof(r) ==
    LET won == \E p \in proofs : p.id = req[r].proof
    IN  /\ At(r, "claimProof")
        /\ proofs' = {p \in proofs : p.id # req[r].proof}
        /\ Goto(r, AfterProof(req[r], won))
        /\ carried' = IF won
               THEN carried \cup {[id |-> req[r].proof,
                        nth |-> Cardinality({c \in carried : c.id = req[r].proof})]}
               ELSE carried
        /\ UNCHANGED <<clock, lock, acct, challenges, trusted, mail, fresh, starts, faults,
                       uses, silenced>>

\* recordProofFailure: a wrong password from a proven browser is counted on the proof,
\* whose window of failures outlasts a behaviour.
Charge(r) ==
    LET mine == {p \in proofs : p.id = req[r].proof}
    IN  /\ At(r, "charge")
        /\ proofs' = (proofs \ mine) \cup {[p EXCEPT !.fails = @ + 1] : p \in mine}
        /\ IF \E p \in mine : p.fails + 1 >= MaxProofFailures THEN Goto(r, "dropProof") ELSE End(r)
        /\ UNCHANGED <<clock, lock, acct, challenges, trusted, mail, fresh, starts, faults,
                       history>>

\* A proof at its limit is revoked.
DropProof(r) ==
    /\ At(r, "dropProof")
    /\ proofs' = {p \in proofs : p.id # req[r].proof}
    /\ End(r)
    /\ UNCHANGED <<clock, lock, acct, challenges, trusted, mail, fresh, starts, faults, history>>

\* A password lockout that was served is discharged by the right password, unless
\* a later one replaced it; the copy in memory is corrected with it.
ServePassword(r) ==
    LET served == lock["password"].until # 0
                  /\ lock["password"].until <= req[r].seen.pw.until
    IN  /\ At(r, "servePw")
        /\ lock' = [lock EXCEPT !["password"] = IF served THEN Clear ELSE @]
        /\ req' = [req EXCEPT ![r].seen.pw = Clear, ![r].pc = AfterPassword(req[r])]
        /\ UNCHANGED <<clock, acct, proofs, challenges, trusted, mail, fresh, starts, faults,
                       history>>

\* A trusted-device cookie is burned and replaced, or the code is asked for.
Trust(r) ==
    LET known == req[r].cookie \in trusted
    IN  /\ At(r, "trust")
        /\ trusted' = IF known THEN (trusted \ {req[r].cookie}) \cup {fresh.trust} ELSE trusted
        /\ IF known THEN Mint("trust") ELSE UNCHANGED fresh
        /\ Goto(r, IF known THEN "clearPw" ELSE "challenge")
        /\ UNCHANGED <<clock, lock, acct, proofs, challenges, mail, starts, faults, history>>

\* issueTwoFactorChallenge.
Challenge(r) ==
    /\ At(r, "challenge")
    /\ challenges' = challenges \cup {[id |-> fresh.ch, exp |-> clock + ChallengeLife,
                                       open |-> TRUE]}
    /\ Mint("ch") /\ End(r)
    /\ UNCHANGED <<clock, lock, acct, proofs, trusted, mail, starts, faults, history>>

-----------------------------------------------------------------------------
(* The brake.                                                              *)

\* Mutant: the increment is not capped.
CountUncapped(r) ==
    LET f == req[r].f
    IN  /\ At(r, "count")
        /\ lock' = [lock EXCEPT ![f].n = @ + 1]
        /\ IF lock[f].n + 1 < MaxAttempts THEN End(r) ELSE Goto(r, "lock")
        /\ UNCHANGED <<clock, acct, proofs, challenges, trusted, mail, fresh, starts, faults,
                       history>>

\* registerFailedAuthAttempt: a capped increment; at the cap the factor locks.
Count(r) ==
    LET f == req[r].f
        n == lock[f].n
    IN  /\ At(r, "count")
        /\ lock' = [lock EXCEPT ![f].n = IF n < MaxAttempts THEN n + 1 ELSE n]
        /\ IF n + 1 < MaxAttempts THEN End(r) ELSE Goto(r, "lock")
        /\ UNCHANGED <<clock, acct, proofs, challenges, trusted, mail, fresh, starts, faults,
                       history>>

\* The first write of lockFactor: the deadline, and an identity if there is none.
StartOrExtend(r) ==
    LET f == req[r].f
    IN  /\ lock' = [lock EXCEPT ![f].until = clock + LockFor,
                                ![f].ep = IF @ = 0 THEN fresh.ep ELSE @]
        /\ IF lock[f].ep = 0 THEN Mint("ep") ELSE UNCHANGED fresh
        /\ req' = [req EXCEPT ![r].pc = "readback", ![r].now = clock]
        /\ UNCHANGED <<clock, acct, proofs, challenges, trusted, mail, starts, faults, history>>

LockFactor(r) == At(r, "lock") /\ StartOrExtend(r)

\* extendPasswordLockout: only a deadline that is one interval old is pushed out.
Extend(r) ==
    LET due == lock["password"].until # 0 /\ lock["password"].until < clock + LockFor
    IN  /\ At(r, "extend")
        /\ IF due THEN StartOrExtend(r)
           ELSE End(r) /\ UNCHANGED <<clock, stores, fresh, starts, faults, history>>

\* Which episode won: none when it was discharged in the meantime.
ReadBack(r) ==
    LET ep == lock[req[r].f].ep
    IN  /\ At(r, "readback")
        /\ req' = [req EXCEPT ![r] = IF ep = 0 THEN Idle ELSE [@ EXCEPT !.pc = "notify", !.ep = ep]]
        /\ UNCHANGED <<clock, stores, fresh, starts, faults, history>>

\* Mutant: the mail claim is not scoped to the episode it mails for.
MailDueAnyEpisode(q, k) == k.noted = 0 \/ k.noted + LinkLife < q.now + LockFor

\* No link is outstanding that verifies until this request's deadline.
MailDue(q, k) ==
    /\ k.ep = q.ep
    /\ k.noted = 0 \/ k.noted + LinkLife < q.now + LockFor

\* The mail claim of lockFactor; the send itself is not awaited and may fail.
Notify(r) ==
    LET q == req[r]
        link == [f |-> q.f, ep |-> q.ep, exp |-> clock + LinkLife]
    IN  /\ At(r, "notify")
        /\ IF MailDue(q, lock[q.f])
           THEN /\ lock' = [lock EXCEPT ![q.f].noted = q.now]
                /\ \/ mail' = mail \cup {link} /\ UNCHANGED <<faults, silenced>>
                   \/ /\ faults < MaxFaults /\ faults' = faults + 1
                      /\ silenced' = silenced \cup {<<q.f, q.ep>>}
                      /\ UNCHANGED mail
           ELSE UNCHANGED <<lock, mail, faults, silenced>>
        /\ End(r)
        /\ UNCHANGED <<clock, acct, proofs, challenges, trusted, fresh, starts, uses, carried>>

-----------------------------------------------------------------------------
(* The second factor.                                                      *)

Codes == {Wrong}
         \cup {[s |-> s, step |-> clock - d] : s \in {acct.secret, acct.pend} \ {0},
                                              d \in {x \in Drifts : x < clock}}
         \cup {[s |-> 0, step |-> b] : b \in 1..(fresh.code - 1)}

OpenChallenges == {c \in challenges : c.open /\ c.exp > clock}

\* login2fa up to the code check.
Login2fa(r, c, p, code) ==
    /\ c \in OpenChallenges /\ acct.secret # 0
    /\ Begin(r, [Idle EXCEPT !.pc = "check", !.op = "login2fa", !.f = "second_factor",
                             !.ch = c.id, !.proof = p, !.code = code, !.seen = Snapshot])
    /\ UNCHANGED <<clock, stores, fresh, faults, history>>

\* disable2fa, regenerateBackupCodes and deleteAccount up to the code check, the
\* master password being right; deleteAccount asks for no code without a factor.
SignedIn(r, op, code) ==
    /\ acct.secret # 0 \/ op = "delete"
    /\ Begin(r, [Idle EXCEPT !.pc = IF acct.secret = 0 THEN "site" ELSE "check", !.op = op,
                             !.f = "second_factor",
                             !.code = IF acct.secret = 0 THEN Wrong ELSE code,
                             !.seen = Snapshot])
    /\ UNCHANGED <<clock, stores, fresh, faults, history>>

\* setup2fa up to its write: the account read has no second factor.
Setup2fa(r) ==
    /\ acct.secret = 0
    /\ Begin(r, [Idle EXCEPT !.pc = "setup", !.op = "setup"])
    /\ UNCHANGED <<clock, stores, fresh, faults, history>>

\* The pending secret is stored, whatever the account has become meanwhile.
StorePending(r) ==
    /\ At(r, "setup")
    /\ acct' = [acct EXCEPT !.pend = fresh.secret, !.pendExp = clock + SetupLife]
    /\ Mint("secret") /\ End(r)
    /\ UNCHANGED <<clock, lock, proofs, challenges, trusted, mail, starts, faults, history>>

\* verify2fa up to the code check, or up to dropping an expired pending secret.
Verify2fa(r, code) ==
    /\ acct.secret = 0 /\ acct.pend # 0
    /\ Begin(r, [Idle EXCEPT !.pc = IF acct.pendExp >= clock THEN "check" ELSE "dropPend",
                             !.op = "verify", !.f = "second_factor", !.code = code,
                             !.seen = Snapshot])
    /\ UNCHANGED <<clock, stores, fresh, faults, history>>

\* Whatever secret is pending by now is dropped.
DropPending(r) ==
    /\ At(r, "dropPend")
    /\ acct' = [acct EXCEPT !.pend = 0, !.pendExp = 0]
    /\ End(r)
    /\ UNCHANGED <<clock, lock, proofs, challenges, trusted, mail, fresh, starts, faults, history>>

\* A code of the secret and step the account was read with, within one step, or
\* one of its backup codes.
Matches(q) ==
    IF IsTotp(q.code)
    THEN /\ q.code.s = IF q.op = "verify" THEN q.seen.pend ELSE q.seen.secret
         /\ q.code.step \in (clock - 1)..(clock + 1)
         /\ q.code.step > q.seen.last
    ELSE q.op = "login2fa" /\ q.code.step \in q.seen.codes

\* The end of verifySecondFactor.
AfterCheck(q, ok) ==
    CASE ok -> IF q.op = "login2fa" THEN "takeChallenge" ELSE "site"
      [] ~ok /\ q.op # "verify" -> "count"
      [] OTHER -> "idle"

\* verifySecondFactor reads the brake afresh, refuses while it runs, and checks
\* the code against the account its caller read. Enrolment has no brake.
Check(r) ==
    LET q == req[r]
        braked == q.op # "verify"
        ok == Matches(q)
        then == IF braked /\ lock["second_factor"].until # 0 THEN "serveSf" ELSE AfterCheck(q, ok)
    IN  /\ At(r, "check")
        /\ req' = [req EXCEPT ![r] =
               IF (braked /\ Running("second_factor")) \/ then = "idle" THEN Idle
               ELSE [@ EXCEPT !.pc = then, !.ok = ok, !.now = clock]]
        /\ UNCHANGED <<clock, stores, fresh, starts, faults, history>>

Served(k, now) == k.until # 0 /\ k.until <= now

\* dischargeServedSecondFactor.
ServeSecondFactor(r) ==
    /\ At(r, "serveSf")
    /\ lock' = [lock EXCEPT !["second_factor"] = IF Served(@, req[r].now) THEN Clear ELSE @]
    /\ Goto(r, AfterCheck(req[r], req[r].ok))
    /\ UNCHANGED <<clock, acct, proofs, challenges, trusted, mail, fresh, starts, faults, history>>

\* Mutant: the write does not compare the step with the last one accepted.
UnspentIgnoringStep(q) ==
    IF IsTotp(q.code)
    THEN IF q.op = "verify" THEN acct.secret = 0 /\ acct.pend = q.code.s
         ELSE acct.secret = q.code.s
    ELSE acct.secret # 0 /\ q.code.step \in acct.codes

\* casFilter: the factor is the one the code was checked against, the code unspent.
Unspent(q) ==
    IF IsTotp(q.code)
    THEN /\ IF q.op = "verify" THEN acct.secret = 0 /\ acct.pend = q.code.s
            ELSE acct.secret = q.code.s
         /\ acct.last < q.code.step
    ELSE acct.secret # 0 /\ q.code.step \in acct.codes

\* casUpdate.
Spend(code) ==
    IF IsTotp(code) THEN [acct EXCEPT !.last = code.step]
    ELSE [acct EXCEPT !.codes = @ \ {code.step}]

Used(q) == uses \cup {[code |-> q.code, ch |-> q.ch,
                       nth |-> Cardinality({u \in uses : u.code = q.code})]}

Take(c) == challenges' = (challenges \ {c}) \cup {[c EXCEPT !.open = FALSE]}

\* Mutant: the code is taken before the challenge is.
TakeChallengeLast(r) ==
    /\ At(r, "takeChallenge")
    /\ Goto(r, "takeCode")
    /\ UNCHANGED <<clock, stores, fresh, starts, faults, history>>

\* consumeTwoFactorChallenge: before the code, so that a loser keeps its code.
TakeChallenge(r) ==
    LET mine == {c \in OpenChallenges : c.id = req[r].ch}
    IN  /\ At(r, "takeChallenge")
        /\ \/ \E c \in mine : Take(c) /\ Goto(r, "takeCode")
           \/ mine = {} /\ End(r) /\ UNCHANGED challenges
        /\ UNCHANGED <<clock, lock, acct, proofs, trusted, mail, fresh, starts, faults, history>>

\* The code's own compare-and-set; a replay is answered as a dead token.
TakeCode(r) ==
    LET q == req[r]
    IN  /\ At(r, "takeCode")
        /\ IF Unspent(q)
           THEN acct' = Spend(q.code) /\ uses' = Used(q) /\ Goto(r, "clearPw")
           ELSE End(r) /\ UNCHANGED <<acct, uses>>
        /\ UNCHANGED <<clock, lock, proofs, challenges, trusted, mail, fresh, starts, faults,
                       carried, silenced>>

\* The account after a signed-in site's one conditional write.
SiteWrite(q) ==
    CASE q.op = "disable" -> [acct EXCEPT !.secret = 0, !.codes = {}, !.last = 0]
      [] q.op = "regen" -> [Spend(q.code) EXCEPT !.codes = {fresh.code}]
      [] q.op = "verify" -> [Spend(q.code) EXCEPT !.secret = acct.pend, !.codes = {fresh.code},
                                                  !.pend = 0, !.pendExp = 0]
      [] q.op = "delete" -> [IF q.seen.secret = 0 THEN acct ELSE Spend(q.code)
                               EXCEPT !.erasing = TRUE]

\* withSecondFactorCas merged into the write of the site.
Site(r) ==
    LET q == req[r]
        coded == q.op # "delete" \/ q.seen.secret # 0
        matched == (coded => Unspent(q)) /\ (q.op = "delete" => ~acct.erasing)
    IN  /\ At(r, "site")
        /\ IF matched
           THEN /\ acct' = SiteWrite(q)
                /\ lock' = IF q.op \in {"disable", "verify"}
                           THEN [lock EXCEPT !["second_factor"] = Clear] ELSE lock
                /\ uses' = IF coded THEN Used(q) ELSE uses
                /\ IF q.op \in {"regen", "verify"} THEN Mint("code") ELSE UNCHANGED fresh
                /\ IF q.op = "delete" THEN End(r) ELSE Goto(r, "revokeTrust")
           ELSE End(r) /\ UNCHANGED <<acct, lock, uses, fresh>>
        /\ UNCHANGED <<clock, proofs, challenges, trusted, mail, starts, faults, carried, silenced>>

\* revokeTrustedDevices.
RevokeTrust(r) ==
    /\ At(r, "revokeTrust")
    /\ trusted' = {} /\ End(r)
    /\ UNCHANGED <<clock, lock, acct, proofs, challenges, mail, fresh, starts, faults, history>>

-----------------------------------------------------------------------------
(* A completed sign-in.                                                    *)

\* Mutant: the clear trusts the account as it was read.
NotRunningWhenRead(k, now) == TRUE

\* notRunning: the lockout is absent or over when the write lands.
NotRunning(k, now) == k.until <= now

\* dischargeOnCompletion, the password factor.
ClearPassword(r) ==
    LET s == req[r].seen
        due == ~s.pwRunning /\ (s.pw.n > 0 \/ s.pw.until # 0)
    IN  /\ At(r, "clearPw")
        /\ lock' = [lock EXCEPT !["password"] =
               IF due /\ NotRunning(@, clock) THEN Clear ELSE @]
        /\ req' = [req EXCEPT ![r].pc = "clearSf", ![r].now = clock]
        /\ UNCHANGED <<clock, acct, proofs, challenges, trusted, mail, fresh, starts, faults,
                       history>>

\* dischargeOnCompletion, the second factor.
ClearSecondFactor(r) ==
    LET s == req[r].seen
    IN  /\ At(r, "clearSf")
        /\ lock' = [lock EXCEPT !["second_factor"] =
               IF ~s.sfRunning /\ s.sf /\ NotRunning(@, req[r].now) THEN Clear ELSE @]
        /\ Goto(r, "session")
        /\ UNCHANGED <<clock, acct, proofs, challenges, trusted, mail, fresh, starts, faults,
                       history>>

\* The session, a new device proof for the one presented, and after a remembered
\* TOTP sign-in a trusted device.
Session(r, remember) ==
    LET grant == remember /\ "remember" \in mix.uses /\ req[r].op = "login2fa" /\ IsTotp(req[r].code)
    IN  /\ At(r, "session")
        /\ proofs' = {p \in proofs : p.id # req[r].proof}
                     \cup {[id |-> fresh.proof, single |-> FALSE, fails |-> 0]}
        /\ trusted' = IF grant THEN trusted \cup {fresh.trust} ELSE trusted
        /\ fresh' = [fresh EXCEPT !.proof = @ + 1, !.trust = IF grant THEN @ + 1 ELSE @]
        /\ End(r)
        /\ UNCHANGED <<clock, lock, acct, challenges, mail, starts, faults, history>>

-----------------------------------------------------------------------------
(* Ways out of a lockout, and revocation.                                  *)

\* unlockAccount up to its write: the link names the stored episode.
UnlockAccount(r, l, p) ==
    /\ l \in mail /\ l.exp > clock /\ lock[l.f].ep = l.ep
    /\ Begin(r, [Idle EXCEPT !.pc = "discharge", !.op = "unlock", !.f = l.f, !.ep = l.ep,
                             !.proof = p])
    /\ UNCHANGED <<clock, stores, fresh, faults, history>>

\* dischargeUnlockedEpisode: that episode is still the stored one.
Discharge(r) ==
    LET q == req[r]
        mine == lock[q.f].ep = q.ep /\ ~acct.erasing
    IN  /\ At(r, "discharge")
        /\ lock' = [lock EXCEPT ![q.f] = IF mine THEN Clear ELSE @]
        /\ IF mine /\ q.proof = 0
           THEN req' = [req EXCEPT ![r].pc = "giveProof", ![r].match = TRUE]
           ELSE End(r)
        /\ UNCHANGED <<clock, acct, proofs, challenges, trusted, mail, fresh, starts, faults,
                       history>>

\* issueUnlockProof, or the proof logoutAll hands back; match says single use.
GiveProof(r) ==
    /\ At(r, "giveProof")
    /\ proofs' = proofs \cup {[id |-> fresh.proof, single |-> req[r].match, fails |-> 0]}
    /\ Mint("proof") /\ End(r)
    /\ UNCHANGED <<clock, lock, acct, challenges, trusted, mail, starts, faults, history>>

\* logoutAll with proof p; with none also a password change and a replayed refresh.
LogoutAll(r, p) ==
    /\ Begin(r, [Idle EXCEPT !.pc = "revoke", !.op = "everywhere", !.proof = p,
                             !.match = p # 0 /\ Proof(p).single])
    /\ UNCHANGED <<clock, stores, fresh, faults, history>>

\* resetPassword reads the account with the brake it will clear.
ResetPassword(r) ==
    /\ Begin(r, [Idle EXCEPT !.pc = "revoke", !.op = "reset", !.seen = Snapshot])
    /\ UNCHANGED <<clock, stores, fresh, faults, history>>

\* Trusted devices, device proofs and open challenges go.
Revoke(r) ==
    /\ At(r, "revoke")
    /\ trusted' = {} /\ proofs' = {} /\ challenges' = {}
    /\ CASE req[r].op = "reset" -> Goto(r, "save")
         [] req[r].op = "everywhere" /\ req[r].proof # 0 -> Goto(r, "giveProof")
         [] OTHER -> End(r)
    /\ UNCHANGED <<clock, lock, acct, mail, fresh, starts, faults, history>>

\* user.save() of resetPassword writes the paths the handler changed: the two it
\* had read only if they were set, the two that are never selected always.
ResetSave(r) ==
    LET s == req[r].seen.pw
        k == lock["password"]
        left == [n |-> IF s.n # 0 THEN 0 ELSE k.n, until |-> IF s.until # 0 THEN 0 ELSE k.until,
                 ep |-> 0, noted |-> 0]
    IN  /\ At(r, "save")
        /\ lock' = [lock EXCEPT !["password"] = left]
        /\ silenced' = IF left.until # 0 THEN silenced \cup {<<"password", 0>>} ELSE silenced
        /\ End(r)
        /\ UNCHANGED <<clock, acct, proofs, challenges, trusted, mail, fresh, starts, faults,
                       uses, carried>>

-----------------------------------------------------------------------------
\* A handler dies between two of its writes.
Crash(r) ==
    /\ req[r].pc \in {"lock", "readback", "notify", "takeCode", "clearPw", "revokeTrust",
                      "giveProof", "save", "dropProof"}
    /\ faults < MaxFaults /\ faults' = faults + 1
    /\ silenced' = IF req[r].pc \in {"readback", "notify"}
                   THEN silenced \cup {<<req[r].f, lock[req[r].f].ep>>} ELSE silenced
    /\ End(r)
    /\ UNCHANGED <<clock, stores, fresh, starts, uses, carried>>

Tick ==
    /\ clock < MaxTime /\ clock' = clock + 1
    /\ UNCHANGED <<stores, req, fresh, starts, faults, history>>

Start(r) ==
    \/ "login" \in mix.uses /\ \E match \in BOOLEAN, p \in Presented, t \in Cookies :
                            Login(r, match, p, t)
    \/ "login2fa" \in mix.uses /\ \E c \in challenges, p \in Presented, code \in Codes :
                               Login2fa(r, c, p, code)
    \/ \E op \in {"disable", "regen", "delete"} \cap mix.uses, code \in Codes : SignedIn(r, op, code)
    \/ "enrol" \in mix.uses /\ (Setup2fa(r) \/ \E code \in Codes : Verify2fa(r, code))
    \/ "unlock" \in mix.uses /\ \E l \in mail, p \in Presented : UnlockAccount(r, l, p)
    \/ "everywhere" \in mix.uses /\ \E p \in Presented : LogoutAll(r, p)
    \/ "reset" \in mix.uses /\ ResetPassword(r)

Step(r) ==
    \/ ClaimProof(r) \/ Charge(r) \/ DropProof(r) \/ ServePassword(r) \/ Trust(r) \/ Challenge(r)
    \/ Count(r) \/ LockFactor(r) \/ Extend(r) \/ ReadBack(r) \/ Notify(r)
    \/ Check(r) \/ ServeSecondFactor(r) \/ TakeChallenge(r) \/ TakeCode(r)
    \/ StorePending(r) \/ DropPending(r) \/ Site(r) \/ RevokeTrust(r)
    \/ ClearPassword(r) \/ ClearSecondFactor(r) \/ \E remember \in BOOLEAN : Session(r, remember)
    \/ Discharge(r) \/ GiveProof(r) \/ Revoke(r) \/ ResetSave(r)

Next ==
    /\ Tick \/ \E r \in Reqs : Start(r) \/ Step(r) \/ Crash(r)
    /\ UNCHANGED mix

Spec == Init /\ [][Next]_vars

-----------------------------------------------------------------------------
(* Properties.                                                             *)

Brake == [n : 0..MaxAttempts, until : Nat, ep : Nat, noted : Nat]
Account == [secret : Nat, last : Nat, codes : SUBSET Nat, pend : Nat, pendExp : Nat,
            erasing : BOOLEAN]
Reading == [pw : Brake, pwRunning : BOOLEAN, sf : BOOLEAN, sfRunning : BOOLEAN, secret : Nat,
            last : Nat, codes : SUBSET Nat, pend : Nat]
ProofRow == [id : Nat, single : BOOLEAN, fails : Nat]
ChallengeRow == [id : Nat, exp : Nat, open : BOOLEAN]
Link == [f : Factors, ep : Nat, exp : Nat]
Code == [s : Nat, step : Nat]
Counters == [ep : Nat, proof : Nat, ch : Nat, trust : Nat, code : Nat, secret : Nat]

PCs == {"idle", "claimProof", "charge", "count", "extend", "servePw", "trust", "challenge",
        "lock", "readback", "notify", "check", "serveSf", "takeChallenge", "takeCode", "site",
        "revokeTrust", "clearPw", "clearSf", "session", "discharge", "giveProof", "revoke",
        "save", "setup", "dropPend", "dropProof"}
SiteOps == {"disable", "regen", "delete", "verify"}
Ops == SiteOps \cup {"none", "login", "login2fa", "unlock", "everywhere", "reset", "setup"}

Request == [pc : PCs, op : Ops, f : Factors, match : BOOLEAN, proof : Nat, cookie : Nat, ch : Nat,
            code : Code, ok : BOOLEAN, now : Nat, ep : Nat, seen : Reading]

\* The shape of the state; the counter of a factor stops at the threshold.
TypeOK ==
    /\ clock \in 1..MaxTime
    /\ lock \in [Factors -> Brake]
    /\ acct \in Account
    /\ proofs \subseteq ProofRow
    /\ challenges \subseteq ChallengeRow
    /\ trusted \subseteq Nat
    /\ mail \subseteq Link
    /\ req \in [Reqs -> Request]
    /\ fresh \in Counters
    /\ mix \in Mixes
    /\ faults \in 0..MaxFaults /\ starts \in 0..mix.starts

-----------------------------------------------------------------------------
(* What keeps a code, a challenge and a proof from serving twice.          *)

\* What is stored was issued; there is one row per challenge; a secret that is
\* pending is not the one in force.
Issued ==
    /\ \A p \in proofs : p.id < fresh.proof
    /\ \A c \in challenges : c.id < fresh.ch /\ \A d \in challenges : c.id = d.id => c = d
    /\ acct.secret < fresh.secret /\ acct.pend < fresh.secret
    /\ acct.pend # 0 => acct.pend # acct.secret
    /\ \A b \in acct.codes : b < fresh.code

\* A TOTP code that was accepted is of a retired secret or not past the last step
\* accepted; an accepted backup code is off the account.
SpentStaysSpent ==
    \A u \in uses : u.code \in Code /\
        IF IsTotp(u.code)
        THEN /\ u.code.s < fresh.secret /\ u.code.s # acct.pend
             /\ u.code.s = acct.secret => u.code.step <= acct.last
        ELSE u.code.step < fresh.code /\ u.code.step \notin acct.codes

\* Challenge id c can be taken no more.
Taken(id) == \A c \in challenges : c.id = id => ~c.open

\* Only an exchange names a challenge; whoever took it is alone with it until the
\* code is written, and a code written for it leaves it taken for good.
ChallengeIsAlone ==
    /\ \A r \in Reqs :
        /\ req[r].ch # 0 => req[r].op = "login2fa" /\ req[r].ch < fresh.ch
        /\ req[r].pc = "site" => req[r].op \in SiteOps
        /\ req[r].pc \in {"check", "serveSf"} => req[r].op \in SiteOps \cup {"login2fa"}
        /\ req[r].pc \in {"takeChallenge", "takeCode"} => req[r].op = "login2fa"
        /\ req[r].pc = "takeCode" /\ req[r].ch # 0 =>
              /\ Taken(req[r].ch)
              /\ \A q \in Reqs : req[q].pc = "takeCode" /\ req[q].ch = req[r].ch => q = r
    /\ \A u \in uses : u.ch # 0 =>
        /\ u.ch \in Nat /\ u.ch < fresh.ch /\ Taken(u.ch)
        /\ \A r \in Reqs : req[r].pc = "takeCode" => req[r].ch # u.ch

\* A proof that carried a sign-in is not stored any more.
CarriedIsGone ==
    \A c \in carried : c.id \in Nat /\ c.id < fresh.proof /\ \A p \in proofs : p.id # c.id

-----------------------------------------------------------------------------
(* What keeps the brake on, and a link in the inbox.                       *)

\* What a handler remembers of a deadline and of the time is in the past; one that
\* is about to mail has an episode to mail for.
ReadsAreOld ==
    \A r \in Reqs :
        /\ req[r].now <= clock
        /\ ~req[r].seen.pwRunning => req[r].seen.pw.until <= clock
        /\ req[r].pc = "servePw" => ~req[r].seen.pwRunning
        /\ req[r].pc = "notify" => req[r].ep # 0

\* Request r is going to see that episode lock[f].ep is mailed for until its deadline.
WillMail(r, f) ==
    /\ req[r].f = f /\ req[r].now + LockFor >= lock[f].until
    /\ req[r].pc = "readback" \/ (req[r].pc = "notify" /\ req[r].ep = lock[f].ep)

Excused(f) == <<f, lock[f].ep>> \in silenced

\* A link for the present episode is valid at time t.
Reaches(f, t) == \E l \in mail : l.f = f /\ l.ep = lock[f].ep /\ l.exp >= t

\* An episode that is noted has a link of that age, and a deadline has a link that
\* reaches it or a request that will send one.
MailedFor(f) ==
    /\ lock[f].until <= clock + LockFor /\ lock[f].noted <= clock
    /\ lock[f].ep = 0 => lock[f].noted = 0 /\ (lock[f].until = 0 \/ Excused(f))
    /\ lock[f].noted = 0 \/ Excused(f) \/ Reaches(f, lock[f].noted + LinkLife)
    /\ lock[f].until = 0 \/ Excused(f) \/ Reaches(f, lock[f].until) \/ \E r \in Reqs : WillMail(r, f)

EpisodeIsMailed ==
    fresh.ep # 0 /\ \A f \in Factors : MailedFor(f)

(* The inductive invariant of the module: its shape, that what served once *)
(* is gone from the stores it could be found in (casFilter,                *)
(* consumeTwoFactorChallenge, consumeDeviceProof), that remembered         *)
(* deadlines are over, and that every episode is mailed for (lockFactor).  *)
SignInInv ==
    /\ TypeOK /\ Issued /\ SpentStaysSpent /\ ChallengeIsAlone /\ CarriedIsGone
    /\ ReadsAreOld /\ EpisodeIsMailed

(* A TOTP code or a backup code is accepted once, whatever the sites and   *)
(* requests it is presented at: sign-in, disabling the factor,             *)
(* regenerating its codes, deleting the account, enrolment. The checks     *)
(* read the account long before the write that spends the code             *)
(* (secondFactor.ts casFilter).                                            *)
CodeSpentOnce == \A u, v \in uses : u.code = v.code => u = v

(* One password step buys at most one completed sign-in and costs at most  *)
(* one code: of two exchanges racing on one challenge, with whatever       *)
(* codes, the refused one keeps its own (login2fa takes the challenge      *)
(* before the code).                                                       *)
OneCodePerChallenge == \A u, v \in uses : u.ch # 0 /\ u.ch = v.ch => u = v

(* A single-use proof, the one an unlock link hands out, lets one right    *)
(* password past the password lockout, however many requests present it.   *)
ProofCarriesOnce == \A c, d \in carried : c.id = d.id => c = d

\* A request inside lockFactor for factor f.
Locking(f) == \E r \in Reqs : req[r].f = f /\ req[r].pc \in {"readback", "notify"}

(* While a factor is locked the owner holds a link that names its episode  *)
(* and is valid until the deadline, though the deadline moves, episodes    *)
(* end and begin under the handlers that mail, and links lapse; unless a   *)
(* handler died, a mail failed, or a password reset that had read the      *)
(* account unlocked dropped the episode of the lockout it left standing    *)
(* (resetPassword's save).                                                 *)
LockedHasLink ==
    \A f \in Factors :
        Running(f) /\ ~Locking(f) /\ <<f, lock[f].ep>> \notin silenced
          => \E l \in mail : l.f = f /\ l.ep = lock[f].ep /\ l.exp >= lock[f].until

Forgiven(f) ==
    lock'[f].n < lock[f].n \/ (lock[f].until # 0 /\ lock'[f].until = 0)

Completing(f) ==
    \E r \in Reqs : At(r, IF f = "password" THEN "clearPw" ELSE "clearSf") /\ req'[r] # req[r]

(* Failures are forgotten only by a way out the account offers: a link of  *)
(* that very episode, a password reset (password), a new or removed factor *)
(* (second factor); otherwise only while no lockout runs, by a completed   *)
(* sign-in or because a lockout was served. Neither a completion nor a     *)
(* discharge decided on an older read ends a lockout that has started      *)
(* since, or wipes failures counted since another request discharged it.   *)
BrakeHolds ==
    [][\A f \in Factors : Forgiven(f) =>
          \/ \E r \in Reqs : At(r, "discharge") /\ req[r].f = f /\ req'[r] # req[r]
          \/ f = "password" /\ \E r \in Reqs : At(r, "save") /\ req'[r] # req[r]
          \/ f = "second_factor" /\ acct'.secret # acct.secret
          \/ ~Running(f) /\ (lock[f].until # 0 \/ Completing(f))]_vars

=============================================================================
