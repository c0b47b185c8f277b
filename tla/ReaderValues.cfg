SPECIFICATION FairSpec
CONSTANT Modules <- SmallBodies
INVARIANTS InOrder OperandsAgree
PROPERTY TranslationEnds
\* the translation is over: no step after "translated", a failed assertion or a crash
CHECK_DEADLOCK FALSE
