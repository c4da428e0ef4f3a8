SPECIFICATION ShardedFairSpec
CONSTANTS
  k1 = k1
  k2 = k2
  k3 = k3
  k4 = k4
  Thread = {t1, t2}
  Map = {0, 1, 2, 3}
  Ops <- MCOps
  NoThread = NoThread
  NoMap = NoMap
  Key = {k1, k2, k3, k4}
  AskedShards = 3
  Fold <- MCFold
  FoldAgain <- MCFoldAgain
  EmptyKey = EmptyKey
  NoKey = NoKey
INVARIANTS ShardedTypeOK InsertsExclude FindingShard
PROPERTY CallsReturn
