CONSTANTS
  Wrap = 8
  DebounceTime = 3
  MaxGap = 3
  MaxSkew = 1
SPECIFICATION FairSpec
INVARIANTS Inv NothingOverlooked
PROPERTIES AcceptedOnlyStable SettledIsAccepted
