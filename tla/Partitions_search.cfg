SPECIFICATION FairSpec
CONSTANTS
  Disks <- mcDisks
  PC_SLICE_MAX = 2
  Dests <- mcDests
  Floppies <- mcFloppies
  ReadErrors = TRUE
  MaxNumber = 7
  Sectors = 40
  None = None
INVARIANTS
  OpensTheNumbered
  HiddenIsNumbered
PROPERTY
  SearchEnds
