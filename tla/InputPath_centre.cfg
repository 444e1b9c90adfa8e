SPECIFICATION Spec
CONSTANTS
  None = None
  RotationAxes = {1}
  TranslationAxes = {2}
  Press = 2
  Release = 1
  RatioNum = 5
  RatioDen = 4
  Delay = 1
  Limit = 2
  MaxGap = 1
  Assignments <- DefaultOnly
  SendsFail = FALSE
CHECK_DEADLOCK FALSE
INVARIANTS StickCentred
