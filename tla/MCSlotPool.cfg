SPECIFICATION PoolLiveSpec
CONSTANTS
  s1 = s1
  s2 = s2
  t1 = t1
  t2 = t2
  t3 = t3
  i1 = i1
  k1 = k1
  None = None
  NoKey = NoKey
  Slots <- MCSlots
  Requests <- MCRequests
  Keys <- MCKeys
  KeyOf <- MCKeyOf
INVARIANTS PoolTypeOK SoleOwner KeyTruth
PROPERTIES EveryCallReturns
