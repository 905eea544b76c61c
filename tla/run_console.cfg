CONSTANTS
  r1 = r1
  r2 = r2
  w1 = w1
  w2 = w2
  w3 = w3
  ok = ok
  Run = {r1, r2}
  Watch = {w1, w2, w3}
  Status = {ok, cancelled}
  None = None
  MaxEvents = 3
  MaxCrashes = 1
  MaxAttempts = 1
  MaxMoves = 2
  MaxDrops = 2
  MayRefuse = TRUE
  Device = {d1}
  Group = {g1}
  Opened = {d1}
  MaxCalls = 2
  MaxElsewhere = 1
  MaxSteps = 2
SPECIFICATION MCSpec
INVARIANTS
  ToldAsItWas
  ScreenIsTrue
  OneStream
  GivesUpOnlyWhenUnreachable
  InventoryPageIsTrue
CHECK_DEADLOCK FALSE
