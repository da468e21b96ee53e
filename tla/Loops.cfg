SPECIFICATION FairSpec
CONSTANTS
  Stacks = {s1}
  Requests = {r1, r2}
  Deployers = {d1}
  StoreFails = TRUE
  None = None
INVARIANTS TypeOK OneLoopPerStack DeletedHasNoLoop
PROPERTIES RefreshReturns StopReturns
CHECK_DEADLOCK FALSE
