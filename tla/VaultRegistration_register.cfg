SPECIFICATION Spec
CONSTANTS
  Vault = {v1,v2}
  Dir = {d1,d2,d3}
  Session = {s1}
  Token = {t1}
  MaxRequests = 2
  MaxWrites = 2
  None = None
SYMMETRY Symmetry
INVARIANTS
  RegistrationTypeOK
  PolicyFollows
  IndexCatchable
  ForeignKept
  RefusedLeavesNothing
PROPERTIES
  CommitsWhole
CHECK_DEADLOCK FALSE
