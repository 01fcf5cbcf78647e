---------------------------- MODULE MCVaultSync ----------------------------
(* VaultSync on two devices. *)
EXTENDS VaultSync, TLC

\* The record files are interchangeable.
Symmetry == Permutations(Recs)
=============================================================================
