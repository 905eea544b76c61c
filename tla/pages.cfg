SPECIFICATION MCSpec
CONSTANTS
  \* RunHistory
  Run = {1, 2, 3}
  RunJob = {j1, j2}
  PageSize = 1
  Recent = 2
  MaxClock = 2
  \* ResourceCache
  Mutation = {m1, m2}
  NoData = NoData
  \* RunStream
  MaxAttempts = 2
  MaxEvents = 2
  Slots = 1
  \* EditForms
  MaxRevision = 3
  MaxSends = 2
  NoRow = NoRow
  \* KeyPairForm
  Credential = {c1, c2}
  MaxPairs = 3
  \* RemoteBranches
  Remote = {r1, r2}
  Branch = {main, dev}
  NoList = NoList
  NoRemote = NoRemote
  \* CronForm
  LastMinute = 1
  LastHour = 2
  LastDay = 2
  LastWeekday = 1
  Morning = 1
  Interval = {1, 2}
  DefaultInterval = 2
  TypedNumber = {1, 9}
  TypedText <- MCTypedText
INVARIANTS
  FreshWhenSettled
PROPERTIES
  HistoryIsTold
  StreamsAreTrue
  FormsAreTrue
SYMMETRY Alike
CHECK_DEADLOCK FALSE
