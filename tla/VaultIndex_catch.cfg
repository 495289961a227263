SPECIFICATION FairSpec
CONSTANTS
  Path = {p1, p2}
  Text = {t1, t2}
  Capacity = 1
  MaxWrites = 2
  Faults = {"lost"}
  Absent = Absent
  Keep = Keep
PROPERTIES
  HintCatchesUp
  WalkCatchesUp
  HandsOut
