--------------------------- MODULE MCFolderGraph ---------------------------
(* A folder, one below it, and a third beside them or yet to be created    *)
(* (two moves close a cycle of three); one member; three requests at once. *)
EXTENDS FolderGraph, TLC

CONSTANTS fa, fb, fc, m1, r1, r2, r3

MCTrees == {(fa :> Root) @@ (fb :> fa) @@ (fc :> Root),
            (fa :> Root) @@ (fb :> fa) @@ (fc :> Unborn)}

Interchangeable == Permutations(Reqs)
=============================================================================
