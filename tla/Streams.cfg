SPECIFICATION Spec
CONSTANTS
  Base = 5
  Modules <- SmallModules
  Conversions = 1
INVARIANT ReadAsWritten
\* the file has been read often enough, or an assertion has failed
CHECK_DEADLOCK FALSE
