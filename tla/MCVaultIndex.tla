---------------------------- MODULE MCVaultIndex ----------------------------
(* Instance of VaultIndex for TLC. *)
EXTENDS VaultIndex, TLC

Symmetry == Permutations(Path) \cup Permutations(Text)
=============================================================================
