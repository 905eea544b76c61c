SPECIFICATION Spec
CONSTANTS
  Change = {c1, c2}
  Stream = {s1, s2}
  Subscribed = Subscribed
  MaxDrops = 1
  MaxVisits = 1
INVARIANT NothingMissed
CHECK_DEADLOCK FALSE
