SPECIFICATION Spec
CONSTANTS
  w1 = w1
  s1 = s1
  None = None
  Workers = {w1}
  Sessions = {s1}
  MissingLimit = 1
  MaxCalls = 1
  Calls = {"exit"}
  Faults = {}
INVARIANTS ExitRestores
