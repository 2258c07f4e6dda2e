CONSTANTS
  Million = 1
  Largest = 12
SPECIFICATION CompareFairSpec
INVARIANT ComparesExactly
PROPERTY Returns
