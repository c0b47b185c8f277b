SPECIFICATION Spec
CONSTANTS
  Names <- OneName
  FileNames <- OneFile
  Files <- Foreign
  MaxId = 4
  MaxModes = 1
  Conversions = 2
INVARIANTS TablesAgree FreshIds LayoutSuffices 
\* the module has been read and written often enough
CHECK_DEADLOCK FALSE
