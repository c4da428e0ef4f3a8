SPECIFICATION Spec
CONSTANTS
  k1 = k1
  k2 = k2
  k3 = k3
  k4 = k4
  Key = {k1, k2, k3, k4}
  Fingerprint = {1, 2}
  NiceSize = 4
  Size = 3
  SlotsPerBucket = 1
  MaxRounds = 4
  KeyBits <- MCKeyBits
  ShortBits <- MCShortBits
  FpOf <- MCFpOf
  XorOf <- MCXorOf
  Garbage = {0, 7}
  MaxCopies = 2
  MaxDropped = 1
INVARIANTS NoFalseNegatives
CHECK_DEADLOCK FALSE
