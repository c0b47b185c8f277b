SPECIFICATION Spec
CONSTANTS
  Targets <- ThreeIds
  Kinds = {volatile, constant}
  Members <- TwoMembers
  Files <- FlatFiles
  FirstId = 100
  MaxTargets = 3
  MaxRounds = 2
INVARIANTS EntriesAgree SharedAreGrouped
PROPERTY MeaningKept
\* the module has been written and read back often enough
CHECK_DEADLOCK FALSE
