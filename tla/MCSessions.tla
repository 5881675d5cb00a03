----------------------------- MODULE MCSessions -----------------------------
(* Two tabs and one foreign presenter over a handful of tokens.            *)
EXTENDS Sessions, TLC

CONSTANTS t1, t2, c1

Interchangeable == Permutations(Tabs)
=============================================================================
