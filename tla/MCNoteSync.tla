----------------------------- MODULE MCNoteSync -----------------------------
(* Instances of NoteSync for TLC. *)
EXTENDS NoteSync, TLC

(* Blocks are interchangeable, and so are connections. *)
Symmetry == Permutations(Block) \cup Permutations(Peer)
=============================================================================
