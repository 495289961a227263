SPECIFICATION FairSpec
CONSTANTS
  Block = {b1}
  Peer = {p1, p2}
  NoFile = NoFile
  Faults = {"crash", "append", "read", "file", "fsync", "marker", "history", "sidecar"}
PROPERTIES
  EmptyRoomReleased
