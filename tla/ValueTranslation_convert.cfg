SPECIFICATION FairSpec
CONSTANT Bodies <- ConvertInLoop
INVARIANT EveryDecorationLands
\* the translation is over: no step after "translated"
CHECK_DEADLOCK FALSE
