SPECIFICATION FairSpec
CONSTANT Bodies <- Loops
INVARIANTS IdTableAgrees OperandIdsAgree NoForwardLeft TranslatedOnce AnnotationsLand
PROPERTY TranslationEnds
\* the translation is over: no step after "translated"
CHECK_DEADLOCK FALSE
