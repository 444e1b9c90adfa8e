SPECIFICATION FairSpec
CONSTANTS
  Monitor = monitor
  Tk = tk
  Emitters = {monitor, tk}
  First = s0
  Status = {s0, s1}
  None = none
  QueueSize = 2
  MaxChanges = 2
  Faults = {"image", "slow", "explorer", "window"}
INVARIANTS TypeOK NewestDelivered NoGhostIcon
PROPERTIES DisplaySettles
