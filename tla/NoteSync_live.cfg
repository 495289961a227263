SPECIFICATION FairSpec
CONSTANTS
  Block = {b1, b2}
  Peer = {p1}
  NoFile = NoFile
  Faults = {"file"}
PROPERTIES
  EventuallyMaterialized
  ExternalEditArrives
