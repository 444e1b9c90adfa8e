SPECIFICATION Spec
CONSTANTS
  None = None
  RotationAxes = {1}
  TranslationAxes = {2}
  Press = 2
  Release = 1
  RatioNum = 5
  RatioDen = 4
  Delay = 1
  Limit = 2
  MaxGap = 1
  Assignments <- Several
  SendsFail = TRUE
CHECK_DEADLOCK FALSE
INVARIANTS TypeOK AxisLock KeysMatch StickMatches NothingStuck
PROPERTIES SettledBeforePress Alternates
