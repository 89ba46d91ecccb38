\* A floppy's last sector, read alone and with one that is not there.
SPECIFICATION FairSpec
CONSTANTS
  hd = hd
  fd = fd
  sd = sd
  None = none
  Drive <- mcDrive
  Data <- mcData
  EZD <- mcEZD
  Geometry <- mcGeometry
  Media <- mcMedia
  InitialDisk <- mcDisk
  Absent <- mcNothing
  BadCHS <- mcBadCHS
  Requests <- mcEdge
  Writes <- mcNothing
  Slots = 2
INVARIANTS
  LeftOutIsNotUsed
