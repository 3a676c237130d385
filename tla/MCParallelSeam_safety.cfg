SPECIFICATION Spec
CONSTANTS
  s1 = s1
  s2 = s2
  s3 = s3
  t1 = t1
  t2 = t2
  t3 = t3
  c1 = c1
  i1 = i1
  k1 = k1
  None = None
  NoKey = NoKey
  Slots = {s1, s2, s3}
  Requests = {t1, t2, t3, i1}
  Keys <- MCKeys
  KeyOf <- MCKeyOf
  MaxBatch = 2
  LongLimit = 1
  ShortRows = 1
  PromptRows = 2
  MaxNew = 1
  Constrained = {}
  Panicky = {t1, t2, t3}
SYMMETRY MCSymmetry
INVARIANTS TypeOK SeamSoleOwner WaiterHasWork NoStrandedWork CohortBounded AckExpected NoStrandedWaiter
PROPERTIES LongPrefillExclusive
