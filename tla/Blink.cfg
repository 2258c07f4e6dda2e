CONSTANTS
  Wrap = 8
  Periods <- MCPeriods
  StateLimit = 8
  MaxPeriod = 4
  MaxGap = 2
SPECIFICATION BlinkSpec
INVARIANT Inv
PROPERTIES ImplementsIdeal CycleGoesOn FiniteSequenceEnds Blinks
