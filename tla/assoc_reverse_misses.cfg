SPECIFICATION Spec
CONSTANTS
  k1 = k1
  k2 = k2
  k3 = k3
  k4 = k4
  k5 = k5
  v1 = v1
  v2 = v2
  Element <- MCElement
  Hash <- MCHash
  AskedBuckets = 3
  InitialSize = 4
  Sizes = {4, 9}
  Empty = Empty
  NoValue = NoValue
  AllocMayFail = FALSE
INVARIANT ReverseComplete
