SPECIFICATION MCSpec
CONSTANTS
  Jobs = {j1}
  Patterns = {hourly, daily}
  NoPattern = NoPattern
  Pass = {p1, p2}
  Firing = {f1, f2}
  Manual = Manual
  Early = Early
  Idle = Idle
  Calls = {c1, c2}
  MaxRuns = 1
  MaxFrames = 3
INVARIANTS
  EntriesLagOnlyBehindEdits
  NeverTwiceAtOnce
  FilesOutliveWorker
  NoSilentQueueing
PROPERTIES
  EntriesRearm
  EntriesFollowJobs
  CancelledRunsStop
  CallsCleanUp
CHECK_DEADLOCK FALSE
