\* The pass on every program of AllPrograms.  Seven rounds are enough for all that can be
\* lowered; the recursive ones get two, after which they are four times as large.
SPECIFICATION Spec
CONSTANT
  Programs <- AllPrograms
INVARIANTS BlocksCalled AllLowered
\* The pass stops when it is done, or with an assertion.
CHECK_DEADLOCK FALSE
