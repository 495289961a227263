SPECIFICATION Spec
CONSTANTS
  Path = {p1,p2,p3}
  Id = {i1}
  Note = {n1,n2}
  Edit = {e1}
  Target = {p3}
  MaxEvents = 4
  Handler = {h1}
  Trouble = {"crash","io"}
  None = None
SYMMETRY Symmetry
INVARIANTS
  TypeOK
  NoTwins
  AcceptedSurvives
  NothingResurrected
  LinksFollow
CHECK_DEADLOCK FALSE
