\* Three drives, one of them written to, BIOS errors everywhere, failed probes
\* followed by an invalidation.
SPECIFICATION FairSpec
CONSTANTS
  hd = hd
  fd = fd
  sd = sd
  None = none
  Drive <- mcDrive
  Data <- mcData
  EZD <- mcEZD
  Geometry <- mcGeometry
  Media <- mcMedia
  InitialDisk <- mcDisk
  Absent <- mcFloppy
  BadCHS <- mcBadCHS
  Requests <- mcRequests
  Writes <- mcWrites
  Slots = 2
INVARIANTS
  TypeOK
  CacheCoherent
  GeometryOfDrive
PROPERTIES
  ReadsTheDisk
  ReadReturns
\* A divide error stops the machine.
CHECK_DEADLOCK FALSE
