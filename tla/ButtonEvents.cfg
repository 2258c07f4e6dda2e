CONSTANTS
  Wrap = 8
  LONG_PRESS_TIME = 3
  DOUBLE_CLICK_TIME = 4
  MaxGap = 2
  MaxSkew = 1
SPECIFICATION FairSpec
INVARIANTS Inv EventIsEarned NothingOverdue
PROPERTIES EveryPressAnswered
