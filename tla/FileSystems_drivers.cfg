SPECIFICATION Spec
CONSTANTS
  Images <- AllImages
  Lengths = {3, 7}
  MaxCalls = 5
  None = None
INVARIANTS
  TypeOK
  ReadsTheFile
  FindsTheFile
  ListsTheDirectory
CHECK_DEADLOCK FALSE
