---------------------------- MODULE MC_DeviceMount -----------------------------
(***************************************************************************)
(* Instances of DeviceMount for TLC: a boot disk with three partitions, a  *)
(* floppy that driver 0 reads and a disk that no driver reads.             *)
(***************************************************************************)
EXTENDS DeviceMount

CONSTANTS
  sys, data,   \* two partitions of the boot disk, of the same file system
  other,         \* a third one, of another
  floppy,      \* a floppy, a whole-disk device
  alien,       \* a device of a file system no driver knows
  hd, fd, xd,  \* their drives
  cfg, ini     \* names of ordinary files

mcDev == {sys, data, other, floppy, alien}
mcDrive == {hd, fd, xd}
mcDriveOf == [d \in mcDev |-> CASE d = floppy -> fd [] d = alien -> xd [] OTHER -> hd]
mcWhole == {floppy}

mcMountable == {<<-1, sys>>, <<-1, data>>, <<0, floppy>>, <<1, other>>}

\* The drivers are on the boot partition and, but for the first, on the one like it.
mcFiles == ({sys, data} \X {cfg, 1}) \cup {<<sys, 0>>} \cup {<<other, cfg>>, <<floppy, cfg>>, <<data, ini>>}

mcNothing == {}
mcRemovable == {fd, xd}
mcDataFlaky == {data, floppy}
mcBootFlaky == {sys}
mcBoth == {TRUE, FALSE}
mcNo == {FALSE}

Open(d) == [kind |-> "open", dev |-> d, name |-> cfg]
Missing == [kind |-> "open", dev |-> Root, name |-> ini]
List(d) == [kind |-> "dir", dev |-> d, name |-> None]
SetRootTo(d) == [kind |-> "root", dev |-> d, name |-> None]
PrintIt == [kind |-> "print", dev |-> Root, name |-> None]
Blocks(d) == [kind |-> "block", dev |-> d, name |-> None]

mcOpens == {Open(d) : d \in mcDev \cup {Root}} \cup {Missing}
mcRoots == {SetRootTo(d) : d \in mcDev}
mcLists == {List(d) : d \in mcDev \cup {Root}}

mcCalls == mcOpens \cup mcRoots
mcBlocks == mcCalls \cup {Blocks(sys)}
mcEvery == mcBlocks \cup mcLists \cup {PrintIt}
===============================================================================
