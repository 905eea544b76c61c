SPECIFICATION Spec
CONSTANTS
  Job = {j1}
  Run = {r1, r2}
  User = {ana}
  NoOne = NoOne
  Key = {k}
  KeyOf <- MCKeyOf
  MaxCrashes = 0
  MaxDbFaults = 0
SYMMETRY Symmetry
CHECK_DEADLOCK FALSE
INVARIANT OneRunPerJob
