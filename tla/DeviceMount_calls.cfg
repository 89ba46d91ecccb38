\* Every call; a partition and the floppy may fail to be read, with and without a
\* 16-bit micro-FSD.
SPECIFICATION FairSpec
CONSTANTS
  sys = sys
  data = data
  other = other
  floppy = floppy
  alien = alien
  hd = hd
  fd = fd
  xd = xd
  cfg = cfg
  ini = ini
  Root = root
  None = none
  Boot = sys
  NumFsys = 2
  Dev <- mcDev
  Drive <- mcDrive
  DriveOf <- mcDriveOf
  WholeDisk <- mcWhole
  Mountable <- mcMountable
  Files <- mcFiles
  Removable <- mcRemovable
  Flaky <- mcDataFlaky
  FileTables <- mcBoth
  Tries = 3
  MaxDepth = 4
  Calls <- mcEvery
INVARIANTS
  LooksAtTheCurrentDevice
  FindsWhatIsThere
  NestingIsBounded
PROPERTIES
  ServesTheNamedDevice
  CallEnds
\* A driver that cannot be read, or a mount that nests for ever, ends the loader.
CHECK_DEADLOCK FALSE
