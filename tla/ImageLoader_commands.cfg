\* Every command in any order, typed and in scripts, with everything failing.
SPECIFICATION Spec
CONSTANTS
  PAGE = 2
  Floor = 2
  Ram = 18
  Kernels <- mcKernels
  Modules <- mcModules
  Expanded <- mcExpanded
  LipSize = 1
  VbeSize = 1
  Addresses <- mcAddresses
  EditAt = 10
  EditSize = 1
  Faults <- mcFaults
  MaxMods = 2
  MaxCommands = 7
  None = None
INVARIANTS
  TypeOK
  
  ModulesAsAsked
  NothingBrokenBooted
\* Control passes to the kernel.
CHECK_DEADLOCK FALSE
