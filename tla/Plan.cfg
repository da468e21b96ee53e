SPECIFICATION Spec
CONSTANTS
  Names = {a, b, c, d}
  Files <- AllFiles
INVARIANTS TypeOK DependenciesFirst RollsOutTheClosure CycleIffKnot
CHECK_DEADLOCK FALSE
