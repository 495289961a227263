SPECIFICATION SpecQueue
CONSTANTS
  u1 = u1
  picture = picture
  scan = scan
  Object = {picture, scan}
  Note = {n1}
  User = {u1}
  Client = {c1, c2}
  Owner <- MCOwner
  Original <- MCOriginal
  None = None
  Backends = {"local", "s3"}
  Faults = {"put", "manifest", "read", "remove", "crash"}
CONSTRAINT Explored
SYMMETRY Symmetry
INVARIANTS
  QueueTypeOK
  GrantHolds
  SelfContained
  RetainsOriginal
  PendingIsQueued
PROPERTIES
  CitedSurvive
  OriginalsSurvive
