-------------------------- MODULE MCOfflineReplica --------------------------
(* Instance of OfflineReplica for TLC: people type, and the browser ends in good
   order; or nobody types, the browser dies at any moment, and access that was
   lost comes back. *)
EXTENDS OfflineReplica, TLC

Calm == [edits |-> Edit, cap |-> 1, access |-> {"lose"}, quits |-> {"settled"}]
Rough == [edits |-> {}, cap |-> 0, access |-> {"lose", "regain"}, quits |-> {"abrupt"}]
MCWorld == {Calm, Rough}

Symmetry == Permutations(Note) \cup Permutations(Pane) \cup Permutations(Edit)
=============================================================================
