SPECIFICATION MCSpec
CONSTANTS
  c1 = c1  c2 = c2  b1 = b1  e1 = e1  e2 = e2  v1 = v1  v2 = v2  s1 = s1  s2 = s2
  f1 = f1  f2 = f2  f3 = f3  top = top  sub = sub  side = side  r1 = r1  r2 = r2
  \* RunHosts
  Device = {d1, d2}
  Group = {g1}
  Script = {script}
  DeviceName = {n1, n2}
  Key = {k1, k2}
  NoKey = NoKey
  Resolution = {ask1}
  MaxChanges = 2
  \* RunSecrets
  Conn = {c1, c2}
  Book = {b1}
  InlineBook = {b1}
  JobId = {j1}
  Env = {e1, e2}
  Var = {v1, v2}
  NoConn = NoConn
  NoEnv = NoEnv
  NoBook = NoBook
  NoRow = NoRow
  Declaration <- MCDeclaration
  JobInput <- MCJobInput
  Writer = {s1, s2}
  Secrets = {secret1}
  \* PlaybookRoles
  File = {f1, f2, f3}
  Main = f1
  Dir = {top, sub, side}
  Up <- MCUp
  DirOf <- MCDirOf
  Role = {r1, r2}
  Variable = {v1, v2}
  Layouts <- MCLayouts
  Contents <- MCContents
  Code <- MCCode
  MaxImportDepth = 2
  \* PlaybooksPage
  Inline = {b1}
  RepoPath = {a1}
  Folder = {f1}
  Repo = {r1}
  MaxCalls = 2
  MaxElsewhere = 1
  MaxSteps = 2
INVARIANTS
  HostsAreRight
  FormIsComplete
  ChoiceIsHonoured
PROPERTIES
  SecretsAreRight
  PlaybooksPageIsTrue
SYMMETRY Alike
CHECK_DEADLOCK FALSE
