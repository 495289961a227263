SPECIFICATION Spec
CONSTANTS
  Block = {b1, b2}
  Peer = {p1}
  NoFile = NoFile
  Faults = {"crash"}
PROPERTIES
  RecoveryKeepsSaved
