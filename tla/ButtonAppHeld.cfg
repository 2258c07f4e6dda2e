CONSTANTS
  Wrap = 7
  DebounceTime = 1
  LONG_PRESS_TIME = 3
  DOUBLE_CLICK_TIME = 4
  MaxGap = 1
  MaxSkew = 1
  ReadGap = 2
  MaxQuiet = 6
SPECIFICATION AppFairSpec
PROPERTY HeldPressReported
