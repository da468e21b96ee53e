SPECIFICATION Spec
CONSTANTS
  Services <- TwoServices
  Order <- TwoOrder
  Replicas <- MCReplicas
  Deploys = {p1, p2}
  Loops = {p1, p2}
  Target <- AllNew
  Before <- MCBefore
  MaxIds = 12
  MaxFaults = 1
  None = None
SYMMETRY DeploySymmetry
INVARIANTS TypeOK KeepsServing BoundedSurge Converges EarlierServicesRestored
CHECK_DEADLOCK FALSE
