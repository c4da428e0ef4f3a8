SPECIFICATION Spec
CONSTANTS
  k1 = k1
  k2 = k2
  k3 = k3
  Key = {k1, k2, k3}
  Value = {v1, v2}
  Bucket <- MCBucket
  SlotsPerBucket = 1
  Empty = Empty
  MaxLayers = 3
  LayerOf <- MCLayerOf
  Home1 <- MCHome1
  Home2 <- MCHome2
  Capacity <- MCRoomy
  ExpungeBuckets = {}
  Class <- MCClass
  ClassOf <- MCClassOf
  Rounds = 3
  MoveRounds = 2
  MaxCount = 3
  NoValue = NoValue
  NoCell = NoCell
  Checked = TRUE
  UseFilters = TRUE
  AllocMayFail = FALSE
INVARIANTS TypeOK UniqueKeys FindingPoints LookupComplete FilterExact SubCount MapCount Placement
PROPERTIES ImplementsMap KeysKept
CHECK_DEADLOCK FALSE
