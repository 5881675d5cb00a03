------------------------------ MODULE MCSignIn ------------------------------
(* Two requests at a time on one account, in twelve mixes of operations.   *)
EXTENDS SignIn, TLC

CONSTANTS r1, r2

Mix(n, uses_) == [starts |-> n, uses |-> uses_]

MCMixes ==
    {Mix(4, {"login", "unlock", "reset"}),
     Mix(4, {"login", "unlock", "proof"}),
     Mix(3, {"login", "everywhere", "proof"}),
     Mix(3, {"login", "login2fa", "unlock"}),
     Mix(3, {"login", "unlock", "remember"}),
     Mix(2, {"login", "login2fa", "unlock", "remember"}),
     Mix(5, {"login2fa", "unlock"}),
     Mix(4, {"login2fa", "enrol"}),
     Mix(4, {"disable", "enrol"}),
     Mix(3, {"login2fa", "disable", "enrol"}),
     Mix(3, {"login2fa", "regen"}),
     Mix(3, {"login2fa", "delete"})}

Interchangeable == Permutations(Reqs)
=============================================================================
