------------------------------ MODULE DeviceMount ------------------------------
(***************************************************************************)
(* Choosing a device and mounting it: open_device(), open_device2(),       *)
(* set_boot_fsys(), set_fsys(), setup_part() and the part of grub_open(),  *)
(* dir() and freeldr_open() around them (loader/preldr/func.c,             *)
(* stage0_fs.c), and real_mkroot() (root.c).                               *)
(*                                                                         *)
(* There is one working buffer for a file-system driver.  When the driver  *)
(* in it cannot mount a device, open_device2() fetches the others from     *)
(* files, and fetching a file mounts a device: the calls nest.  `stack'    *)
(* holds the activations of open_device2(); the steps between them are     *)
(* actions, so that each probe and each mount fails or not on its own.     *)
(*                                                                         *)
(* A device is a drive and a partition; finding the partition in its table *)
(* is not modelled here.  A file is a name on a device.                    *)
(***************************************************************************)
EXTENDS Integers, Sequences

CONSTANTS
  Dev,        \* devices
  Boot,       \* the boot device
  Drive,      \* BIOS drives
  DriveOf,    \* [Dev -> Drive]
  WholeDisk,  \* devices without a partition table
  NumFsys,    \* drivers listed in the .ini file; driver -1 is the boot driver
  Mountable,  \* <<driver, device>>: the driver understands the device
  Files,      \* <<device, name>>; name n \in 0..NumFsys-1 is driver n's file
  Removable,  \* drives whose get_diskinfo may fail
  Flaky,      \* devices that may fail to be read
  FileTables, \* TRUE: a 16-bit micro-FSD may serve files; FALSE: none may do so
  Tries,      \* spellings freeldr_open() tries: 3 with ignorecase, else 1
  MaxDepth,   \* activations the stack has room for
  Calls,      \* calls made: [kind, dev, name]
  Root,       \* stands for "no device named"
  None        \* no device, no drive, no name

Driver == -1..NumFsys-1
CallType ==
  [kind : {"none", "open", "dir", "root", "print", "block"}, dev : Dev \cup {Root},
   name : {f[2] : f \in Files} \cup {None}]

ASSUME ConstantsAssumption ==
  /\ NumFsys \in Nat
  /\ Boot \in Dev
  /\ DriveOf \in [Dev -> Drive]
  /\ WholeDisk \subseteq Dev
  /\ Mountable \subseteq Driver \X Dev
  /\ Removable \subseteq Drive
  /\ Flaky \subseteq Dev
  /\ FileTables \subseteq BOOLEAN
  /\ Tries \in Nat \ {0}
  /\ MaxDepth \in Nat \ {0}
  /\ Calls \subseteq CallType
  /\ \A c \in Calls : c.kind # "none" /\ (c.kind \in {"root", "block"} => c.dev # Root)
  /\ Root \notin Dev /\ None \notin Dev /\ Root # None
  /\ None \notin Drive

VARIABLES
  filetab,    \* a 16-bit micro-FSD serves files (filetab_ptr), from Boot
  saved,      \* saved_drive and saved_partition (dev), saved_fsys_type (fsys)
  cur,        \* current_drive and current_partition
  fsys,       \* fsys_type; NumFsys marks "no file system"
  driver,     \* the driver in the working buffer
  mounted,    \* the device whose superblock the driver holds
  buf_drive,  \* the drive whose geometry is known (-1: None)
  errnum,
  stack,      \* activations of open_device2(): their device, driver tried, and
              \* the spelling of that driver's file being opened
  pc,
  call,       \* the call from the loader
  try,        \* the spelling of its file name being tried
  ret,        \* how it ended
  got,        \* the device the last successful open or listing read
  careful     \* nothing yet after which the code loses what is mounted

where == <<saved, cur, fsys>>
disk  == <<driver, mounted, buf_drive>>
ext   == <<call, try, ret, got>>
vars  == <<filetab, where, disk, errnum, stack, pc, ext, careful>>

Idle   == pc = "idle"
Nested == stack # <<>>
Top    == stack[Len(stack)]
Pop    == SubSeq(stack, 1, Len(stack) - 1)
SetTop(f) == [stack EXCEPT ![Len(stack)] = f]

Init ==
  /\ saved = [dev |-> Boot, fsys |-> -1]
  /\ cur = Boot
  /\ fsys = -1
  /\ driver = -1
  /\ filetab \in FileTables
  /\ mounted = IF filetab THEN None ELSE Boot
  /\ buf_drive \in {DriveOf[Boot]} \cup (IF filetab THEN {None} ELSE {})
  /\ errnum = "none"
  /\ stack = <<>>
  /\ pc = "idle"
  /\ call = [kind |-> "none", dev |-> Root, name |-> None]
  /\ try = 1
  /\ ret = "idle"
  /\ got = None
  /\ careful = TRUE

-------------------------------------------------------------------------------
(* Calls from the loader. *)

\* Printing the root makes it current unmounted, a block list marks the driver,
\* and dir() leaves the error number of the call before.
Careful(c) == c.kind \notin {"print", "block"} /\ (c.kind = "dir" => errnum = "none")

\* freeldr_open() and real_mkroot() clear the error number, dir() does not.  A
\* 16-bit micro-FSD opens files by itself and touches nothing here.
Ask(c) ==
  /\ Idle
  /\ filetab => c.kind # "open"
  /\ call' = c
  /\ careful' = (careful /\ Careful(c))
  /\ try' = 1
  /\ got' = None
  /\ ret' = "idle"
  /\ errnum' = IF c.kind = "dir" THEN errnum ELSE "none"
  /\ pc' = CASE c.kind \in {"open", "dir"} -> "setup"
             [] OTHER -> c.kind
  /\ UNCHANGED <<where, disk, stack>>

\* loop_func() forgets which drive the buffer is for.
Loop ==
  /\ Idle
  /\ buf_drive' = None
  /\ UNCHANGED <<where, driver, mounted, errnum, stack, pc, ext>>

Finish(r) == pc' = "idle" /\ ret' = r

\* print_root_device().
PrintRoot ==
  /\ pc = "print"
  /\ cur' = saved.dev
  /\ fsys' = saved.fsys
  /\ Finish("ok")
  /\ UNCHANGED <<saved, disk, errnum, stack, call, try, got>>

\* set_device(), then open_device2() on what it names.
StartRoot ==
  /\ pc = "root"
  /\ cur' = call.dev
  /\ pc' = "enter"
  /\ UNCHANGED <<saved, fsys, disk, errnum, stack, ext>>

\* A file given as a list of blocks needs the partition, not a file system.
OpenBlocks ==
  /\ pc = "block"
  /\ cur' = call.dev
  /\ \/ /\ buf_drive' = DriveOf[cur']
        /\ fsys' = NumFsys
        /\ Finish("ok")
        /\ UNCHANGED errnum
     \/ /\ DriveOf[cur'] \in Removable
        /\ buf_drive # DriveOf[cur']
        /\ errnum' = "no_disk"
        /\ Finish("failed")
        /\ UNCHANGED <<fsys, buf_drive>>
  /\ UNCHANGED <<saved, driver, mounted, stack, call, try, got>>

-------------------------------------------------------------------------------
(* setup_part(). *)

\* A nested open names no device: the driver files are looked for on the root.
Named == ~ Nested /\ call.dev # Root

RemountWhenMarked == fsys = NumFsys \/ buf_drive = None
Remount == saved.dev # cur \/ fsys = NumFsys \/ buf_drive = None

SetupNamed ==
  /\ pc = "setup"
  /\ Named
  /\ cur' = call.dev
  /\ pc' = "enter"
  /\ UNCHANGED <<saved, fsys, disk, errnum, stack, ext>>

SetupRootUnmounted ==
  /\ pc = "setup"
  /\ ~ Named
  /\ Remount
  /\ cur' = saved.dev
  /\ fsys' = saved.fsys
  /\ pc' = "look"
  /\ UNCHANGED <<saved, disk, errnum, stack, ext>>

SetupRoot ==
  /\ pc = "setup"
  /\ ~ Named
  /\ Remount
  /\ cur' = saved.dev
  /\ fsys' = saved.fsys
  /\ pc' = "enter"
  /\ UNCHANGED <<saved, disk, errnum, stack, ext>>

SetupMounted ==
  /\ pc = "setup"
  /\ ~ Named
  /\ ~ Remount
  /\ pc' = "look"
  /\ UNCHANGED <<where, disk, errnum, stack, ext>>

-------------------------------------------------------------------------------
(* open_device2(). *)

\* The call: a new activation, if the stack has room for it.
Enter ==
  /\ pc = "enter"
  /\ \/ /\ Len(stack) < MaxDepth
        /\ stack' = Append(stack, [cd |-> cur, fst |-> -1, try |-> 0])
        /\ pc' = IF filetab THEN "each" ELSE "loaded"
     \/ /\ Len(stack) = MaxDepth
        /\ pc' = "overflow"
        /\ UNCHANGED stack
  /\ UNCHANGED <<where, disk, errnum, ext>>

\* What open_device() makes of the device d with the driver r: whether d is
\* mounted then, the error number and the drive whose geometry is known.
OpenDevice(d, r) ==
  LET err == IF d \in WholeDisk THEN errnum ELSE "none"
  IN  (IF DriveOf[d] \in Removable /\ buf_drive # DriveOf[d]
       THEN {[mnt |-> mounted, err |-> "no_disk", buf |-> buf_drive]} ELSE {})
      \cup (IF d \in Flaky
            THEN {[mnt |-> None, err |-> "read", buf |-> DriveOf[d]]} ELSE {})
      \cup {[mnt |-> IF <<r, d>> \in Mountable THEN d ELSE None,
             err |-> err, buf |-> DriveOf[d]]}

Opened(o, d) == o.mnt = d /\ o.err = "none"

\* Tries the driver in the working buffer; goes on at `next' when it will not do.
TryDevice(next) ==
  \E o \in OpenDevice(cur, driver) :
    /\ mounted' = o.mnt
    /\ errnum' = o.err
    /\ buf_drive' = o.buf
    /\ pc' = IF Opened(o, cur) THEN "opened" ELSE next

\* First the driver of the last device opened.
TryLoaded ==
  /\ pc = "loaded"
  /\ TryDevice("boot")
  /\ UNCHANGED <<where, driver, stack, ext>>

\* A driver is put in the buffer.  Superblocks are kept outside it, in FSYS_BUF: the
\* same driver finds its own there, another one nothing that it knows.
Put(r) ==
  /\ driver' = r
  /\ mounted' = IF driver = r THEN mounted ELSE None

\* set_boot_fsys(): the boot driver is copied back from where it was kept.
BootFsysMarked ==
  /\ saved' = [saved EXCEPT !.fsys = fsys]
  /\ fsys' = NumFsys
  /\ Put(-1)

set_boot_fsys ==
  /\ saved' = [saved EXCEPT !.fsys = fsys]
  /\ fsys' = -1
  /\ Put(-1)

UseBootDriver ==
  /\ pc = "boot"
  /\ set_boot_fsys
  /\ pc' = "bootdriver"
  /\ UNCHANGED <<cur, buf_drive, errnum, stack, ext>>

TryBoot ==
  /\ pc = "bootdriver"
  /\ TryDevice("each")
  /\ UNCHANGED <<where, driver, stack, ext>>

\* The next listed driver.  A 16-bit micro-FSD opens its file by itself.
FetchSameDriver ==
  /\ pc = "each"
  /\ Top.fst + 1 < NumFsys
  /\ fsys' = Top.fst + 1
  /\ stack' = SetTop([Top EXCEPT !.try = 1])
  /\ pc' = IF ~ filetab THEN "fetch"
           ELSE IF <<Boot, Top.fst + 1>> \in Files THEN "found" ELSE "each"
  /\ UNCHANGED <<saved, cur, disk, errnum, ext>>

FetchDriver ==
  /\ pc = "each"
  /\ Top.fst + 1 < NumFsys
  /\ fsys' = Top.fst + 1
  /\ stack' = SetTop([Top EXCEPT !.fst = @ + 1, !.try = 1])
  /\ pc' = IF ~ filetab THEN "fetch"
           ELSE IF <<Boot, Top.fst + 1>> \in Files THEN "found" ELSE "each"
  /\ UNCHANGED <<saved, cur, disk, errnum, ext>>

\* set_fsys() opens the driver's file, on the root, with the boot driver.
OpenDriverFile ==
  /\ pc = "fetch"
  /\ set_boot_fsys
  /\ errnum' = "none"
  /\ pc' = "setup"
  /\ UNCHANGED <<cur, buf_drive, stack, ext>>

\* The driver's file is open: it is read, relocated and put in the buffer, and
\* the device is tried again.  A file that cannot be read stops the loader (its
\* .rel file is needed) or puts junk in the buffer.
UseDriverKeepsDevice ==
  /\ pc = "found"
  /\ \/ /\ Put(Top.fst)
        /\ fsys' = Top.fst
        /\ cur' = cur
        /\ pc' = "driver"
     \/ /\ saved.dev \in Flaky
        /\ pc' = "stopped"
        /\ UNCHANGED <<driver, mounted, fsys, cur>>
  /\ UNCHANGED <<saved, buf_drive, errnum, stack, ext>>

UseDriver ==
  /\ pc = "found"
  /\ \/ /\ Put(Top.fst)
        /\ fsys' = Top.fst
        /\ cur' = Top.cd
        /\ pc' = "driver"
     \/ /\ saved.dev \in Flaky
        /\ pc' = "stopped"
        /\ UNCHANGED <<driver, mounted, fsys, cur>>
  /\ UNCHANGED <<saved, buf_drive, errnum, stack, ext>>

TryDriver ==
  /\ pc = "driver"
  /\ TryDevice("each")
  /\ UNCHANGED <<where, driver, stack, ext>>

NoDriverLeft ==
  /\ pc = "each"
  /\ Top.fst + 1 >= NumFsys
  /\ errnum' = "fsys_mount"
  /\ pc' = "unopened"
  /\ UNCHANGED <<where, disk, stack, ext>>

\* Both ends of open_device2() return to setup_part() or to real_mkroot().
Leave ==
  /\ pc \in {"opened", "unopened"}
  /\ stack' = Pop
  /\ pc' = IF stack' = <<>> /\ call.kind = "root"
           THEN IF pc = "opened" THEN "rooted" ELSE "unrooted"
           ELSE "look"
  /\ UNCHANGED <<where, disk, errnum, ext>>

-------------------------------------------------------------------------------
(* The rest of grub_open() or dir(), after setup_part(). *)

Sought == IF Nested THEN Top.fst ELSE call.name

\* The error number when the driver's dir function is not reached.
Blocked == errnum # "none" \/ fsys = NumFsys

\* No driver was ever put in the buffer: its entry points are not set.
Unset == filetab /\ driver = -1

\* The driver looks the name up in the directory it has mounted.
Finds == mounted # None /\ ((call.kind = "dir" /\ ~ Nested) \/ <<mounted, Sought>> \in Files)

LookFinds ==
  /\ pc = "look"
  /\ ~ Blocked
  /\ Finds
  /\ IF Nested
     THEN pc' = "found" /\ UNCHANGED <<ret, got>>
     ELSE Finish("ok") /\ got' = mounted
  /\ UNCHANGED <<where, disk, errnum, stack, call, try>>

LookFails ==
  /\ pc = "look"
  /\ Blocked \/ ~ Unset
  /\ \/ Blocked \/ ~ Finds
     \/ mounted \in Flaky
  /\ errnum' = CASE errnum # "none" -> errnum
                 [] fsys = NumFsys -> "fsys_mount"
                 [] Finds -> "read"
                 [] OTHER -> "not_found"
  /\ pc' = "notfound"
  /\ UNCHANGED <<where, disk, stack, ext>>

LookUnset ==
  /\ pc = "look"
  /\ ~ Blocked
  /\ Unset
  /\ pc' = "stopped"
  /\ UNCHANGED <<where, disk, errnum, stack, ext>>

\* freeldr_open() tries the name again in upper and in lower case.
Retry ==
  /\ pc = "notfound"
  /\ IF Nested
     THEN /\ Top.try < Tries
          /\ stack' = SetTop([Top EXCEPT !.try = @ + 1])
          /\ UNCHANGED try
     ELSE /\ call.kind = "open"
          /\ try < Tries
          /\ try' = try + 1
          /\ UNCHANGED stack
  /\ errnum' = "none"
  /\ pc' = "setup"
  /\ UNCHANGED <<where, disk, call, ret, got>>

GiveUp ==
  /\ pc = "notfound"
  /\ IF Nested
     THEN Top.try >= Tries /\ pc' = "each" /\ UNCHANGED ret
     ELSE (call.kind = "dir" \/ try >= Tries) /\ Finish("failed")
  /\ UNCHANGED <<where, disk, errnum, stack, call, try, got>>

-------------------------------------------------------------------------------
(* The rest of real_mkroot(). *)

RootFsys == IF DriveOf[cur] = DriveOf[Boot] THEN -1 ELSE fsys

\* The root moves; reading the partition table for set_bootdev() may still fail.
SetRoot ==
  /\ pc = "rooted"
  /\ saved' = [dev |-> cur, fsys |-> RootFsys]
  /\ fsys' = RootFsys
  /\ \/ Finish("ok") /\ errnum' = "none"
     \/ cur \in Flaky /\ Finish("failed") /\ errnum' = "read"
  /\ UNCHANGED <<cur, disk, stack, call, try, got>>

KeepRoot ==
  /\ pc = "unrooted"
  /\ Finish("failed")
  /\ UNCHANGED <<where, disk, errnum, stack, call, try, got>>

\* The probe of a drive fails before the superblock is read: the driver that was
\* put back still has another device's.
Strays == pc \in {"bootdriver", "driver"} /\ ~ filetab /\ mounted' \notin {None, cur}

Step ==
  /\ UNCHANGED filetab
  /\ \/ PrintRoot \/ StartRoot \/ OpenBlocks
     \/ SetupNamed \/ SetupRoot \/ SetupMounted
     \/ Enter \/ TryLoaded \/ UseBootDriver \/ TryBoot \/ FetchDriver \/ OpenDriverFile
     \/ UseDriver \/ TryDriver \/ NoDriverLeft \/ Leave
     \/ LookFinds \/ LookFails \/ LookUnset \/ Retry \/ GiveUp
     \/ SetRoot \/ KeepRoot
  /\ careful' = (careful /\ ~ Strays)

Next ==
  \/ UNCHANGED filetab /\ \E c \in Calls : Ask(c)
  \/ UNCHANGED <<filetab, careful>> /\ Loop
  \/ Step

Spec == Init /\ [][Next]_vars

\* The pre-loader runs alone: once called it goes on.
FairSpec == Spec /\ WF_vars(Step)

-------------------------------------------------------------------------------
(* Properties. *)

Service == INSTANCE FileService WITH
  root <- saved.dev,
  status <- IF ~ Idle THEN "busy" ELSE ret

\* A file or a directory comes from the device that was named, or from the
\* root; the root moves by the root command only.
ServesTheNamedDevice == Service!Spec

\* The driver asked for a file holds the superblock of the current device.
LooksAtTheCurrentDevice ==
  careful /\ pc = "look" /\ ~ Blocked /\ mounted # None => mounted = cur

\* Driver r can be had while the root is where it is now.
Available(r) ==
  IF filetab THEN r # -1 /\ <<Boot, r>> \in Files
  ELSE r = -1 \/ (<<-1, saved.dev>> \in Mountable /\ <<saved.dev, r>> \in Files)

Target == IF call.dev = Root THEN saved.dev ELSE call.dev

Reliable(d) == d \notin Flaky /\ DriveOf[d] \notin Removable

Findable ==
  /\ \A d \in {Target, saved.dev} : Reliable(d)
  /\ \E r \in Driver : Available(r) /\ <<r, Target>> \in Mountable
  /\ call.kind = "open" => <<Target, call.name>> \in Files

\* What is there is found, whatever was opened before and however it ended: a
\* call fails only if no driver that can be had understands its device, or the
\* file is not there.
FindsWhatIsThere == careful /\ Idle /\ ret = "failed" => ~ Findable

\* "since we use the same filesystem buffer, mark it to be remounted" (func.c
\* 493-494): after a block list was opened, what is there is found as before.
MarkedIsRemounted == Idle /\ ret = "failed" => ~ Findable

\* Mounting nests, but twice at most, as long as the root can be probed.
NestingIsBounded ==
  /\ pc = "overflow" => DriveOf[saved.dev] \in Removable
  /\ Len(stack) > 2 => DriveOf[saved.dev] \in Removable

\* A call ends.
CallEnds == ~ Idle ~> pc \in {"idle", "overflow", "stopped"}
===============================================================================
