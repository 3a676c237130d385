SPECIFICATION Spec
CONSTANTS
  Slots = {s1, s2}
  None = None
INVARIANTS TypeOK FlushedOrTried FieldsOutliveWorkers
PROPERTIES FlushEnds
CHECK_DEADLOCK FALSE
