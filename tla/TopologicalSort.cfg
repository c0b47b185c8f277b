SPECIFICATION FairSpec
CONSTANT Graphs <- AnyModules
INVARIANTS TypeOK DeclaredBeforeUse EmittedOnce CycleIsReal
PROPERTY Terminates
\* the constructor returns: no step after "sorted" or the failed assertion
CHECK_DEADLOCK FALSE
