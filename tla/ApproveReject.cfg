SPECIFICATION Spec
CONSTANTS
  Deployments = {d1, d2, d3}
  Triggers = {t1}
  Loops = {}
  Approvers = {a1}
  Rejecters = {r1}
  Operators = {}
  Patches = {"gate"}
  MaxVersion = 0
  MayReuse = FALSE
  MaxCrashes = 0
  None = None
PROPERTY RejectedNeverStarts
CHECK_DEADLOCK FALSE
