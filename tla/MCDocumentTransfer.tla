------------------------- MODULE MCDocumentTransfer -------------------------
(* DocumentTransfer for TLC.                                               *)
EXTENDS DocumentTransfer, TLC

\* Requests of one kind are interchangeable (not for the liveness run).
RequestSymmetry == Permutations(Uploaders) \cup Permutations(Completers)
=============================================================================
