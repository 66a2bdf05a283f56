SPECIFICATION FairSpec
CONSTANTS
  Callers = {r1, r2}
  Queries = {good, bad}
  BadQueries = {bad}
  MaxAge = 1
  Lag = 1
  MaxNow = 3
INVARIANTS TypeOK FreshEnough ConflictNeedsARival
PROPERTIES KeepsThePromise EveryCallEnds
CHECK_DEADLOCK FALSE
