SPECIFICATION Spec
CONSTANTS
  Inis <- MCInis
  Files <- MCFiles
  Mountable <- MCMountable
  BootDevice = "hd0"
  BootDriver = "hpfs"
  MemLower = 639
  Starters = {TRUE, FALSE}
  Requests <- MCRequests
  Serials = {1}
  PrefixesGiven = {"os2"}
  LdrLens = {20}
  MaxRequests = 3
  None = None
INVARIANTS
  TypeOK
  CalledCodeFits
  TableIsTrue
CHECK_DEADLOCK FALSE
