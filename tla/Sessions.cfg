CONSTANTS
  socket = socket
  plain = plain
  Reqs <- TwoReqs
  Serves <- Split
  HostIds = {h1}
  None = None
SPECIFICATION Spec
INVARIANTS TypeOK SharedClientOpen OrphansOverlap TrailBeforeClose
 
CHECK_DEADLOCK FALSE
