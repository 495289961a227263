SPECIFICATION Spec
CONSTANTS
  Note = {n1}
  Pane = {p1, p2}
  Edit = {e1, e2}
  Shared = FALSE
  World <- MCWorld
  NoNote = NoNote
SYMMETRY Symmetry
INVARIANTS
  TypeOK
  CleanMeansSent
  RevokedStaysGone
