SPECIFICATION Spec
CONSTANTS
  Deployments = {d1, d2}
  Triggers = {h1}
  Loops = {l1}
  Approvers = {h1}
  Rejecters = {h2}
  Operators = {h2}
  Patches = {"gate"}
  MaxVersion = 0
  MayReuse = FALSE
  MaxCrashes = 0
  None = None
SYMMETRY DeploymentSymmetry
INVARIANTS TypeOK DedupeOutsideWindow
PROPERTIES GateHolds OutcomeKept
CHECK_DEADLOCK FALSE
