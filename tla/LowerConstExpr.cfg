SPECIFICATION FairSpec
CONSTANTS
  e1 = e1
  e2 = e2
  e3 = e3
  Leaf = leaf
  Exprs <- ExprsOf
  Modules <- AnyUses
INVARIANTS DefinedBeforeUse MeaningKept AllLowered
PROPERTY Ends
\* the pass is over: no step after the last function
CHECK_DEADLOCK FALSE
