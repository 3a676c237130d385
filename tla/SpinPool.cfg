SPECIFICATION Spec
CONSTANTS
    Workers = 2
    Callers = {c1, c2}
    Bursters = {c1}
    MaxTasks = 2
    Risky = {1}
    MaxRuns = 2
    None = None
INVARIANTS TypeOK NoStaleJob VerdictIsOwn
PROPERTIES BurstParks RunsOnce EveryoneReturns
CHECK_DEADLOCK FALSE
