SPECIFICATION Spec
CONSTANTS
  k1 = k1
  k2 = k2
  k3 = k3
  k4 = k4
  Key = {k1, k2, k3, k4}
  Value = {v1}
  Bucket <- MCBucket
  SlotsPerBucket = 2
  Empty = Empty
  Home1 <- MCHome1
  Home2 <- MCHome2
  ExpungeBuckets = {1}
  NoValue = NoValue
  NoCell = NoCell
  Checked = FALSE
  Expunging = TRUE
INVARIANTS UsedCount PointerValid
PROPERTIES KeysKept
