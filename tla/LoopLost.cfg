SPECIFICATION FairSpec
CONSTANTS
  Stacks = {s1}
  Requests = {r1}
  Deployers = {d1}
  StoreFails = FALSE
  None = None
PROPERTY EnabledStackHasLoop
CHECK_DEADLOCK FALSE
