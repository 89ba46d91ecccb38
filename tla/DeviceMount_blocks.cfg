\* A block list is opened.
SPECIFICATION FairSpec
CONSTANTS
  sys = sys
  data = data
  other = other
  floppy = floppy
  alien = alien
  hd = hd
  fd = fd
  xd = xd
  cfg = cfg
  ini = ini
  Root = root
  None = none
  Boot = sys
  NumFsys = 2
  Dev <- mcDev
  Drive <- mcDrive
  DriveOf <- mcDriveOf
  WholeDisk <- mcWhole
  Mountable <- mcMountable
  Files <- mcFiles
  Removable <- mcNothing
  Flaky <- mcNothing
  FileTables <- mcNo
  Tries = 1
  MaxDepth = 4
  Calls <- mcBlocks
INVARIANTS
  MarkedIsRemounted
