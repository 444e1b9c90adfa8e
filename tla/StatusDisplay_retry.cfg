SPECIFICATION FairSpec
CONSTANTS
  Monitor = monitor
  Tk = tk
  Emitters = {monitor, tk}
  First = s0
  Status = {s0, s1}
  None = none
  QueueSize = 1
  MaxChanges = 0
  Faults = {}
PROPERTIES RetryIsAnswered
