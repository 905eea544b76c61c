SPECIFICATION LiveSpec
CONSTANTS
  Job = {j1}
  Run = {r1, r2}
  User = {ana}
  NoOne = NoOne
  Key = {k}
  KeyOf <- MCKeyOf
  MaxCrashes = 1
  MaxDbFaults = 2
CHECK_DEADLOCK FALSE
PROPERTIES
  LedgerSpec
  RunsSettle

