\* Three machines, every key and command, whatever the stack holds.
SPECIFICATION Spec
CONSTANTS
  Machines <- mcMachines
  Typed <- mcTyped
  Edits <- mcEdits
  ScriptSize = 2
  StringSize = 2
  NextAt = 1
  menu_height = 3
  Frame <- mcFrame
  MaxInputs = 10
  None = None
INVARIANTS
  MenuIsTheFile
  ItemIsShown
  BackspaceReturns
\* The number of inputs is bounded, and a kernel that is booted does not return.
CHECK_DEADLOCK FALSE
