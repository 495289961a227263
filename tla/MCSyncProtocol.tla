--------------------------- MODULE MCSyncProtocol ---------------------------
(* Small instances of SyncProtocol: two tabs on one note. *)
EXTENDS SyncProtocol, TLC

Symmetry == Permutations(Client)
=============================================================================
