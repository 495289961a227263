------------------------ MODULE MCVaultRegistration ------------------------
(* Instances of VaultRegistration for TLC. *)
EXTENDS VaultRegistration, TLC

Symmetry ==
  Permutations(Vault) \cup Permutations(Dir) \cup Permutations(Session) \cup Permutations(Token)
=============================================================================
