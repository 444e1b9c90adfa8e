SPECIFICATION FairSpec
CONSTANTS
  w1 = w1
  s1 = s1
  None = None
  Workers = {w1}
  Sessions = {s1}
  MissingLimit = 2
  MaxCalls = 1
  Calls = {"enable", "disable", "connect", "advanced"}
  Faults = {"halfpause"}
PROPERTIES StopHonoured CodexGoneStops DriverHealed EventuallyActive
