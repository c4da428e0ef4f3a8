SPECIFICATION FairSpec
CONSTANTS
  k1 = k1
  k2 = k2
  k3 = k3
  Key = {k1, k2, k3}
  Value = {v1}
  Bucket <- MCBucket
  SlotsPerBucket = 1
  Empty = Empty
  MaxLayers = 3
  LayerOf <- MCLayerOf
  Home1 <- MCHome1
  Home2 <- MCHome2
  Capacity <- MCTight
  ExpungeBuckets <- MCExpunge
  Class <- MCClass
  ClassOf <- MCClassOf
  Rounds = 3
  MoveRounds = 2
  MaxCount = 3
  NoValue = NoValue
  NoCell = NoCell
  Checked = FALSE
  UseFilters = FALSE
  AllocMayFail = TRUE
PROPERTIES OperationsReturn
CHECK_DEADLOCK FALSE
