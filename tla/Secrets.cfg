SPECIFICATION Spec
CONSTANTS
  Deployments = {d1, d2}
  Triggers = {h1}
  Loops = {l1}
  Approvers = {}
  Rejecters = {}
  Operators = {h2}
  Patches = {"active", "paused"}
  MaxVersion = 1
  MayReuse = FALSE
  MaxCrashes = 1
  None = None
SYMMETRY DeploymentSymmetry
INVARIANTS HashIsHonest
PROPERTIES NoResurrection
CHECK_DEADLOCK FALSE
