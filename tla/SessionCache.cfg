SPECIFICATION Spec
CONSTANTS
  Worker = w
  Threads = {w, t1, t2}
  Slots = {k1, k2}
  Convs = {c1, c2}
  None = None
  Cap = 3
  MaxTurns = 3
  MaxStems = 2
  MaxCrashes = 1
INVARIANTS TypeOK CatalogOnDisk NoLitter SidecarFits
PROPERTIES LostOnlyByPolicy PairsStayWhole CheckoutsEnd
CHECK_DEADLOCK FALSE
