SPECIFICATION Spec
CONSTANTS
  Client = {c1, c2}
  Disk = Disk
  Erasure = {}
  MaxEdits = 1
  Slots = 2
  Trouble = {"drop", "network", "refuse", "fail_subscribe", "close_room", "reload"}
  MaxTrouble = 1
SYMMETRY Symmetry
INVARIANTS
  TypeOK
  SavedIsDurable
  InFlightIsPending
CHECK_DEADLOCK FALSE
