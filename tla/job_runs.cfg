SPECIFICATION MCSpec
CONSTANTS
  c1 = c1  c2 = c2  e1 = e1  e2 = e2  v1 = v1  s1 = s1  s2 = s2
  \* JobRuns
  Job = {j1}
  Run = {r1, r2}
  User = {ana, luis}
  NoOne = NoOne
  Key = {k}
  KeyOf <- MCKeyOf
  MaxCrashes = 1
  MaxDbFaults = 2
  \* RunPage
  MaxJobRuns = 3
  PageSize = 1
  \* RunTargets
  Dev = {d1, d2}
  Grp = {g1}
  Pending = Pending
  Failed = Failed
  NoRun = NoRun
  MaxEdits = 1
  \* RunVariables
  Playbook = {p1}
  Connection = {c1, c2}
  Environment = {e1, e2}
  Name = {v1}
  Secret = {s1, s2}
  None = None
  Declares <- MCDeclares
  EnvsOf <- MCEnvsOf
  NameFor <- MCNameFor
  MaxRows = 2
  \* RunOutput
  HostCount = 2
  TaskCount = 2
  Loops = {1}
SYMMETRY Symmetry
CHECK_DEADLOCK FALSE
INVARIANTS
  LocksHoldOnceRecovered
  AnnouncedIsStored
  CancelledWasAskedFor
  OutputIsTrue
PROPERTIES
  CancellationHolds
  PagesAreTrue
