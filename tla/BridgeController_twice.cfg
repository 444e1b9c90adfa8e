SPECIFICATION Spec
CONSTANTS
  w1 = w1
  s2 = s2
  s1 = s1
  None = None
  Workers = {w1}
  Sessions = {s1, s2}
  MissingLimit = 1
  MaxCalls = 2
  Calls = {"advanced"}
  Faults = {}
INVARIANTS AdvancedExclusive
