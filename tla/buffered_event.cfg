SPECIFICATION Spec
CONSTANTS
  Cpu = {c1, c2}
  Depth = 2
  MaxFilters = 2
  Migrates = FALSE
INVARIANTS TypeOK OneWriter CountCovers FreedUnusedCalled
