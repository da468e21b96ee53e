SPECIFICATION Spec
CONSTANTS
  Commits = {c1}
  Uploads = {r1, r2}
  MaxTime = 2
  MaxCrashes = 2
  MaxFaults = 1
  Keep = 1
  Hole = Hole
  Damaged = Damaged
  None = None
SYMMETRY RestoreSymmetry
INVARIANTS TypeOK NothingLost StagedIntact
PROPERTIES BackupsSurvive RestoreIsAtomic
CHECK_DEADLOCK FALSE
