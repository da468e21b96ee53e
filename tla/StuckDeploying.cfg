SPECIFICATION Spec
CONSTANTS
  Deployments = {d1, d2, d3}
  Triggers = {t1}
  Loops = {}
  Approvers = {}
  Rejecters = {}
  Operators = {}
  Patches = {}
  MaxVersion = 0
  MayReuse = FALSE
  MaxCrashes = 0
  None = None
INVARIANT DeployingMeansInFlight
CHECK_DEADLOCK FALSE
