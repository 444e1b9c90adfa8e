SPECIFICATION FairSpec
CONSTANTS
  None = None
  MaxFaults = 4
  MaxReboots = 2
PROPERTIES HidSettles
