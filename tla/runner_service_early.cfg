SPECIFICATION FairRunnerSpec
CONSTANTS
  Calls = {c1, c2}
  MaxRuns = 1
  MaxFrames = 3
INVARIANT
  FilesOutliveStoppedWorker
CHECK_DEADLOCK FALSE
