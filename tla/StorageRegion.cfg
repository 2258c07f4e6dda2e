CONSTANTS
  Capacity = 6
  Regions <- MCRegions
  Address <- MCAddress
  Size <- MCSize
  Byte = {0, 1}
  Nobody = "nobody"
SPECIFICATION Spec
INVARIANT Inv
PROPERTIES OthersUntouched
