SPECIFICATION FairSpec
CONSTANT Programs <- AnyCalls
INVARIANTS TypesAgree AdaptedOnce OnlyIntended OrderlyAdapted
PROPERTY AdaptationEnds
\* the pass is over: no step after "done" or the failed assertion
CHECK_DEADLOCK FALSE
