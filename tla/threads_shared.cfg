SPECIFICATION Spec
CONSTANTS
  m1 = m1
  Thread = {t1, t2}
  Map = {m1}
  Ops <- MCShared
  NoThread = NoThread
  NoMap = NoMap
INVARIANTS MutualExclusion
