----------------------------- MODULE MCJobLock -----------------------------
(* JobLock for TLC: three interchangeable callers, a lease of two ticks.   *)
EXTENDS JobLock, TLC

CallerSymmetry == Permutations(Callers)
=============================================================================
