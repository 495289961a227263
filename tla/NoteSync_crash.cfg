SPECIFICATION Spec
CONSTANTS
  Block = {b1, b2, b3}
  Peer = {p1}
  NoFile = NoFile
  Faults = {"crash", "read", "file"}
SYMMETRY Symmetry
INVARIANTS
  TypeOK
  AcceptedDurable
  SidecarCurrent
  MaterializedWhenQuiet
PROPERTIES
  OwnWriteNeverReverts
  ServesDurably
