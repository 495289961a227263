SPECIFICATION FairSpec
CONSTANTS
  Client = {c1}
  Disk = Disk
  Erasure = {e1}
  MaxEdits = 1
  Slots = 2
  Trouble = {"drop", "refuse", "reload"}
  MaxTrouble = 2
INVARIANTS
  NeverTerminal
PROPERTIES
  Converges
CHECK_DEADLOCK FALSE
