SPECIFICATION Spec
CONSTANTS
  Services = {"db", "job", "web"}
  Versions = {"v1", "v2"}
  Compose <- MCCompose
  Filters <- MCFilters
  MaxPer = 2
  MaxEvents = 2
  MaxFaults = 1
INVARIANTS TypeOK DeployClears NothingMissed
PROPERTIES Settles
