---------------------------- MODULE VaultLedger ----------------------------
(***************************************************************************)
(* What the vault quota promises, whatever the requests, crashes and the   *)
(* hourly recount do: a counter never falls below what is stored plus what *)
(* is still promised to a running request, and a request grows the vault   *)
(* only out of its own promise, which was made within the limit.           *)
(* VaultQuota implements it.                                               *)
(***************************************************************************)
EXTENDS Tally

CONSTANTS
    Ops,      \* the requests
    Dims,     \* what is counted: bytes, item rows, folder rows
    Limit     \* the quota and the two row caps, by dimension

VARIABLES
    stored,   \* what the rows amount to, by dimension
    counter,  \* what the account's counters say
    claims    \* what each request was promised and has not used

ledger == <<stored, counter, claims>>

Zero == [d \in Dims |-> 0]
Plus(x, y) == [d \in Dims |-> x[d] + y[d]]
Minus(x, y) == [d \in Dims |-> x[d] - y[d]]
NonNegative(x) == \A d \in Dims : x[d] >= 0
Claimed(d) == Tally([o \in Ops |-> claims[o][d]], Ops)

\* The counter covers the rows and every promise; rows and promises are within
\* the limit. What is owed to the counter (a negative claim) covers nothing.
Covered(d) == stored[d] + Claimed(d) <= counter[d]
Within(d) == stored[d] + Claimed(d) <= Limit[d]

LedgerInit ==
    /\ stored \in [Dims -> Int] /\ NonNegative(stored)
    /\ counter = stored
    /\ claims = [o \in Ops |-> Zero]

\* A promise is made to a request that holds none, within the limit of every
\* dimension it grows; a promise of nothing is never refused.
Promise(o) ==
    /\ claims[o] = Zero
    /\ UNCHANGED stored
    /\ LET more == Minus(counter', counter) IN
         /\ NonNegative(more)
         /\ \A d \in Dims : more[d] > 0 => counter'[d] <= Limit[d]
         /\ claims' = [claims EXCEPT ![o] = more]

\* Rows are written: what grows comes out of the writer's own promise, and what
\* the writer no longer claims stays counted (a row removed without its reply, an
\* unknown outcome, a measure that saw another request's rows too). A removal that
\* is known leaves its writer something to hand back.
Write(o) ==
    /\ UNCHANGED counter
    /\ LET grown == Minus(stored', stored) IN
         /\ \A d \in Dims : grown[d] > 0 => grown[d] <= claims[o][d]
         /\ NonNegative(Minus(Minus(claims[o], grown), claims'[o]))
    /\ claims' = [claims EXCEPT ![o] = claims'[o]]

\* A key rotation rewrites rows of any size without a promise (it is never
\* refused for size): the bytes it adds are owed to the counter until it settles.
Reseal(o) ==
    /\ UNCHANGED counter
    /\ \A d \in Dims \ {"bytes"} : stored'[d] = stored[d]
    /\ claims' = [claims EXCEPT ![o] = Minus(@, Minus(stored', stored))]

\* The rest of a promise is handed back (or what a rotation owes is paid).
HandBack(o) ==
    /\ UNCHANGED stored
    /\ counter' = Minus(counter, claims[o])
    /\ claims' = [claims EXCEPT ![o] = Zero]

\* A promise is forgotten with its request, and the counter keeps it; so is what
\* a rotation owed.
Forget(o) ==
    /\ UNCHANGED <<stored, counter>>
    /\ claims' = [claims EXCEPT ![o] = Zero]

\* Nobody holds a promise: the counters may be set to what is stored.
Recount ==
    /\ \A o \in Ops : claims[o] = Zero
    /\ UNCHANGED <<stored, claims>>
    /\ counter' = stored

LedgerNext ==
    \/ Recount
    \/ \E o \in Ops : Promise(o) \/ Write(o) \/ Reseal(o) \/ HandBack(o) \/ Forget(o)

LedgerSpec == LedgerInit /\ [][LedgerNext]_ledger
=============================================================================
