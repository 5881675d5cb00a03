--------------------------- MODULE MCVaultRotation ---------------------------
(* VaultRotation for TLC.  The requests of a run are few and of different  *)
(* kinds, and rows differ by what is stored, so there is no symmetry.      *)
EXTENDS VaultRotation, TLC
=============================================================================
