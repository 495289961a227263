-------------------------- MODULE MCNoteLifecycle --------------------------
(* Instances of NoteLifecycle for TLC. *)
EXTENDS NoteLifecycle, TLC

Symmetry ==
  Permutations(Path \ Target) \cup Permutations(Target) \cup Permutations(Id) \cup Permutations(Note)
    \cup Permutations(Edit) \cup Permutations(Handler)
=============================================================================
