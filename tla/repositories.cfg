CONSTANTS
  Call = {c1, c2, c3}
  Nil = Nil
  MaxSyncs = 2
  MaxPushes = 1
  MaxCancels = 1
  k1 = k1
  k2 = k2
  k3 = k3
  p1 = p1
  p2 = p2
  u1 = u1
  u2 = u2
  Path = {p1, p2}
  Commit = {k1, k2, k3}
  Url = {u1, u2}
  Tree <- MCTree
  Offers <- MCOffers
  Job = {j1}
  Sync = {s1, s2, s3}
  Resolve = {q1}
  None = None
  Same = Same
  MaxEdits = 1
SYMMETRY Symmetry
SPECIFICATION MCSpec
INVARIANTS
  OneWriter
  AnswersHold
  MatchesCommit
  PinnedAsShown
PROPERTIES
  RowsSurvive
CHECK_DEADLOCK FALSE
