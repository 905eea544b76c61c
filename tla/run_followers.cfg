SPECIFICATION MCSpec
CONSTANTS
  c1 = c1  c2 = c2  s1 = s1  s2 = s2  w1 = w1  w2 = w2
  \* RunConsole
  Run = {r1}
  Watch = {w1, w2}
  Status = {ok}
  None = None
  MaxEvents = 1
  MaxCrashes = 1
  MaxAttempts = 1
  MaxMoves = 2
  MayRefuse = TRUE
  \* RunChanges, and MaxDrops of RunConsole
  Change = {c1, c2}
  Stream = {s1, s2}
  Subscribed = Subscribed
  MaxDrops = 1
  MaxVisits = 2
INVARIANT NothingForgotten
PROPERTIES
  StayersLearnTheEnd
  LeaversLeaveNothing
  CatchesUp
  NothingLeftBehind
CHECK_DEADLOCK FALSE
