SPECIFICATION SpecIndex
CONSTANTS
  Path = {p1, p2}
  Text = {t1, t2}
  Capacity = 1
  MaxWrites = 2
  Faults = {"crash", "lost", "read", "sql", "publish"}
  Absent = Absent
  Keep = Keep
SYMMETRY Symmetry
INVARIANTS
  IndexTypeOK
  WalkIsRight
