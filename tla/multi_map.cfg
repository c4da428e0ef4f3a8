SPECIFICATION Spec
CONSTANTS
  k1 = k1
  k2 = k2
  v1 = v1
  v2 = v2
  f1 = f1
  f2 = f2
  f3 = f3
  b1 = b1
  b2 = b2
  Key <- MCKey
  Value <- MCValue
  Front <- MCFront
  Back <- MCBack
  NoValue = NoValue
  Empty = Empty
  NoSlot = NoSlot
  MaxPairs = 4
  Careful = TRUE
SYMMETRY Alike
INVARIANTS TypeOK Numbering FindingPoints IterationComplete
PROPERTY ImplementsMultiMap
