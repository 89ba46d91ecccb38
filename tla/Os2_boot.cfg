SPECIFICATION Spec
CONSTANTS
  Boots <- MCBoots
  MaxEbrs = 4
  Track = 63
  BootCode <- MCBootCode
  TablePages = 9
  MbiPages = 7
  MaxMu = 2
  SaveItems = 2
  h1 = h1
  h2 = h2
  h3 = h3
  Handles <- MCHandles
  SecSize = 2
  VolSize = 2
  None = None
  OtherDrive = OtherDrive
SYMMETRY AnyHandle
INVARIANTS
  BootVolumeIsKnown
  ModulesIntact
  Preloaded
  ReadGivesTheFile
  HandedOver
CHECK_DEADLOCK FALSE
