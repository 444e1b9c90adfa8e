SPECIFICATION FairSpec
CONSTANTS
  Valid = {"default", "other"}
  Invalid = {"invalid"}
  Default = "default"
  Workers = {w1, w2}
  None = none
  QueueSize = 2
INVARIANTS TypeOK SavedMeansOnDisk BridgeHasWindow
PROPERTIES CloseEnds
