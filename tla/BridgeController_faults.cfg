SPECIFICATION Spec
CONSTANTS
  w1 = w1
  w2 = w2
  s1 = s1
  None = None
  Workers = {w1, w2}
  Sessions = {s1}
  MissingLimit = 2
  MaxCalls = 1
  Calls = {"enable", "disable", "connect", "advanced", "exit", "crash"}
  Faults = {"probe", "unplug", "config", "pause", "halfpause", "open", "io", "release", "resume", "timeout"}
SYMMETRY WorkerSymmetry
INVARIANTS TypeOK OneBridge HealMeetsNoBridge ShutdownJoined DriverOwed ActiveMeansRunning AdvancedExclusive
PROPERTIES StopIsKept
