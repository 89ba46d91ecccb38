\* Eight machines, every key, menu entry and typed command.
SPECIFICATION Spec
CONSTANTS
  Names = {"A", "B", "C", "D"}
  Values = {"", "x", "yy", "$A"}
  Length <- mcLength
  Refers <- mcRefers
  NullLength = 1
  VARIABLES_MAX = 3
  VARIABLE_STORE_SIZE = 24
  TOGGLES = 2
  MAX_BLOCKS = 3
  MAX_VAR_PER_BLOCK = 2
  Configurations <- mcConfigurations
  Keys = {"k", "l", "j"}
  MaxInputs = 8
  None = None
INVARIANTS
  PointersLive
  CurrentIsABlock
  KeyMovesItsToggle
  ShownIsCurrent
  AgainCostsNothing
\* The number of inputs is bounded.
CHECK_DEADLOCK FALSE
