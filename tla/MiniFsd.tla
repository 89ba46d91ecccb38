------------------------------ MODULE MiniFsd ------------------------------
(***************************************************************************)
(* mFSD: the file-system driver the OS/2 kernel starts with, which reads   *)
(* the modules the loader has left in memory, until the real driver (the   *)
(* IFS) is there.  The kernel calls MFS_* first (one file), then FS_* (any *)
(* number of handles), then MFS_TERM, which hands the open files over.     *)
(*                                                                         *)
(* MFS_* and FS_* share the position, the size, the place and the selector *)
(* of one file.  A selector is a number; `sels` has the page it maps, None *)
(* when free.  A position counts pages, a sector is SecSize of them.       *)
(***************************************************************************)
EXTENDS Os2Boot

CONSTANTS
  SaveItems, \* 0x80, the places to note open files in
  Handles,   \* the kernel's
  SecSize, VolSize

ASSUME PlacesAssumption == SaveItems \in Nat

\* No record of an open file is None.
Drive == <<"drive", "">>
AllNames == {Drive} \cup UNION {b.names : b \in Boots}
ASSUME NoneAssumption == None \notin [handle : Handles, name : AllNames] /\ None \notin Nat

\* The drive is not opened by a file's name; sectors have a size.
ASSUME NamesAssumption == \A b \in Boots : Drive \notin b.names /\ b.selectors \in Nat
ASSUME SizesAssumption == SecSize \in Nat \ {0} /\ VolSize \in Nat

VARIABLES
  stage,  \* what the kernel may call
  sels,   \* selector -> page
  g,      \* the variables all files share
  hands,  \* handle -> sffsi and sffsd
  saves,  \* save_area, None where save_map has 0, and whether one too many was noted
  last,   \* what the last call has read
  ifs     \* what the IFS was given

fvars == <<stage, sels, g, hands, saves, last, ifs>>
mvars == <<bvars, fvars>>

Closed == [open |-> FALSE, name |-> None, size |-> 0, position |-> 0, base |-> 0, direct |-> FALSE, index |-> 0]
NoFile == [name |-> None, pos |-> 0, len |-> 0, data |-> <<>>]

NoSelectors == [i \in 1..boot.selectors |-> None]
NoGlobals == [filepos |-> 0, filemax |-> 0, filebase |-> 0, sel |-> 0, sel1 |-> 0, mods_sel |-> 0,
              drvletter |-> 0 - 65, remotefs |-> FALSE, ramdisk |-> FALSE, file |-> None]
AllClosed == [h \in Handles |-> Closed]
NoneSaved == [area |-> [i \in 1..SaveItems |-> None], open_files |-> 0, torn |-> FALSE]
NotHanded == [files |-> <<>>, handles |-> {}]

FsdInit ==
  /\ stage = "none"
  /\ sels = NoSelectors /\ g = NoGlobals /\ hands = AllClosed /\ saves = NoneSaved /\ last = NoFile /\ ifs = NotHanded

\* The kernel stops: nothing is looked at any more.
Stopped ==
  /\ stage' = "dead"
  /\ sels' = NoSelectors /\ g' = NoGlobals /\ hands' = AllClosed /\ saves' = NoneSaved /\ last' = NoFile /\ ifs' = NotHanded

---------------------------------------------------------------------------
(* MFSH_PHYSTOVIRT gives the lowest selector that is free.                 *)

Free(table_) == {i \in 1..boot.selectors : table_[i] = None}
Map(table_, page) == [table_ EXCEPT ![Lowest(Free(table_))] = page]
Unmap(table_, sel) == [i \in 1..boot.selectors |-> IF i = sel THEN None ELSE table_[i]]

\* advance_ptr(): the selector is given up and had again for where the file is.
advance_ptr(table_, v) ==
  LET freed == Unmap(table_, v.sel1) IN
  [sels |-> Map(freed, v.filebase + v.filepos), g |-> [v EXCEPT !.sel1 = Lowest(Free(freed))]]

---------------------------------------------------------------------------
(* mfs.c                                                                   *)

MfsFree == at = "kernel" /\ table.mini

\* MFS_INIT: the list of modules is where os2ldr was told; the temporary
\* selectors are given back, one for the MBI and one for the list are kept.
MfsInit ==
  /\ MfsFree /\ stage = "none"
  /\ IF Page(mbi_place) = <<Mbi, 0>>
     THEN /\ stage' = "mfs"
          /\ sels' = Map(Map(sels, mbi_place), mbi_place)
          /\ g' = [g EXCEPT !.sel = 1, !.mods_sel = 2, !.drvletter = FirstOption,
                            !.ramdisk = boot.ramdisk, !.remotefs = boot.ramdisk]
          /\ UNCHANGED <<hands, saves, last, ifs>>
     ELSE Stopped
  /\ UNCHANGED bvars

\* MFS_OPEN: selectors for the MBI, the list and the file are had anew; the
\* ones had before are forgotten.  Each command line is looked at by way of sel1.
\* The kernel closes a file before it opens another one through MFS_*.
Opened(name) ==
  LET n == Cardinality(Free(sels))
      there == n > 2 /\ Matches(name) # {}
      one == Map(sels, mbi_place)
      two == Map(one, mbi_place)
      a == Lowest(Free(sels))
      b == Lowest(Free(one))
      had == [g EXCEPT !.sel = a, !.mods_sel = b, !.sel1 = Lowest(Free(two))]
  IN [ok |-> there,
      sels |-> CASE n = 0 -> sels [] n = 1 -> one [] n > 1 /\ ~there -> two [] there -> Map(two, ufs_open(name).start),
      g |-> CASE n = 0 -> g [] n = 1 -> [g EXCEPT !.sel = a] [] n = 2 -> [g EXCEPT !.sel = a, !.mods_sel = b]
              [] n > 2 /\ ~there -> had
              [] there -> [had EXCEPT !.filepos = 0, !.filemax = ufs_open(name).pages, !.filebase = ufs_open(name).start]]

MfsOpenInto(opened, name) ==
  /\ sels' = opened.sels
  /\ g' = IF opened.ok THEN [opened.g EXCEPT !.file = name] ELSE opened.g
  /\ last' = NoFile
MfsOpen ==
  /\ stage = "mfs" /\ g.file = None
  /\ \E name \in boot.names : MfsOpenInto(Opened(name), name)
  /\ UNCHANGED <<bvars, stage, hands, saves, ifs>>

\* MFS_READ: from where the selector points.  At the end of the file nothing is
\* read, beyond it an error is returned.
Chunk(v, len) == IF v.filemax - v.filepos > len THEN len ELSE v.filemax - v.filepos
MfsReadAt(table_, v, len, name) ==
  LET moved == advance_ptr(table_, [v EXCEPT !.filepos = @ + Chunk(v, len)]) IN
  IF v.filepos > v.filemax
  THEN [sels |-> table_, g |-> v, last |-> NoFile]
  ELSE [sels |-> moved.sels, g |-> moved.g,
        last |-> [name |-> name, pos |-> v.filepos, len |-> len,
                  data |-> [i \in 1..Chunk(v, len) |-> IF v.sel1 = 0 \/ table_[v.sel1] = None THEN None
                                                       ELSE Page(table_[v.sel1] + i - 1)]]]

MfsReadInto(read) == sels' = read.sels /\ g' = read.g /\ last' = read.last
MfsRead ==
  /\ stage = "mfs" /\ g.file # None
  /\ \E len \in 1..2 : MfsReadInto(MfsReadAt(sels, g, len, g.file))
  /\ UNCHANGED <<bvars, stage, hands, saves, ifs>>

\* The kernel moves within a file or to its end; positions before the file's
\* start or far behind its end are not looked at.
PositionAfter(position, size, offset_, type) ==
  CASE type = 0 -> offset_ [] type = 1 -> position + offset_ [] type = 2 -> size + offset_
InReach(position, size) == position >= 0 /\ position <= size + 1

\* MFS_CHGFILEPTR
MfsChgFilePtr ==
  /\ stage = "mfs" /\ g.file # None
  /\ \E offset_ \in {0 - 1, 0, 1}, type \in 0..2 :
       /\ <<offset_, type>> \in boot.moves
       /\ InReach(PositionAfter(g.filepos, g.filemax, offset_, type), g.filemax)
       /\ LET moved == advance_ptr(sels, [g EXCEPT !.filepos = PositionAfter(g.filepos, g.filemax, offset_, type)])
          IN sels' = moved.sels /\ g' = moved.g
  /\ last' = NoFile
  /\ UNCHANGED <<bvars, stage, hands, saves, ifs>>

\* MFS_CLOSE gives two selectors back and still has their numbers.
MfsClose ==
  /\ stage = "mfs" /\ g.file # None
  /\ sels' = Unmap(Unmap(sels, g.sel1), g.sel)
  /\ g' = [g EXCEPT !.file = None]
  /\ last' = NoFile
  /\ UNCHANGED <<bvars, stage, hands, saves, ifs>>

---------------------------------------------------------------------------
(* fs_all.c                                                                *)

\* FS_INIT
FsInit ==
  /\ stage = "mfs" /\ g.file = None
  /\ stage' = "init"
  /\ UNCHANGED <<bvars, sels, g, hands, saves, last, ifs>>

\* FS_MOUNT of the boot drive, or FS_ATTACH when the boot is from a remote one:
\* nothing is open.  The boot sector is read, or the kernel stops.
FsMount ==
  /\ stage = "init"
  /\ \/ /\ stage' = "fs"
        /\ saves' = [saves EXCEPT !.area = [i \in 1..SaveItems |-> None]]
        /\ UNCHANGED <<sels, g, hands, last, ifs>>
     \/ ~g.remotefs /\ Stopped
  /\ UNCHANGED bvars

\* FS_OPENCREATE: the first place of save_map is taken.  One behind the last is
\* taken too when the byte there happens to be zero; other than that the kernel
\* is stopped.
Slot == {i \in 1..SaveItems : saves.area[i] = None}
Noted(h, name) ==
  IF Slot = {} THEN [saves EXCEPT !.torn = TRUE, !.open_files = @ + 1]
  ELSE [saves EXCEPT !.area[Lowest(Slot)] = [handle |-> h, name |-> name], !.open_files = @ + 1]
CanBeNoted == Slot # {} \/ ~saves.torn

FreshHandle(name, size, base, direct) ==
  [open |-> TRUE, name |-> name, size |-> size, position |-> 0, base |-> base, direct |-> direct,
   index |-> IF Slot = {} THEN SaveItems + 1 ELSE Lowest(Slot)]

OpenFile(h, name, opened) ==
  /\ opened.ok => CanBeNoted
  /\ sels' = opened.sels
  /\ g' = opened.g
  /\ hands' = IF opened.ok THEN [hands EXCEPT ![h] = FreshHandle(name, opened.g.filemax, opened.g.filebase, FALSE)] ELSE hands
  /\ saves' = IF opened.ok THEN Noted(h, name) ELSE saves
OpenDrive(h) ==
  /\ CanBeNoted
  /\ hands' = [hands EXCEPT ![h] = FreshHandle(Drive, VolSize, 0, TRUE)]
  /\ saves' = Noted(h, Drive)
  /\ UNCHANGED <<sels, g>>

FsOpenCreate ==
  /\ stage = "fs"
  /\ \/ /\ \E h \in Handles :
             /\ ~hands[h].open /\ Cardinality({k \in Handles : hands[k].open}) < boot.opens
             /\ OpenDrive(h) \/ \E name \in boot.names : OpenFile(h, name, Opened(name))
        /\ last' = NoFile
        /\ UNCHANGED <<stage, ifs>>
     \/ Slot = {} /\ Cardinality({k \in Handles : hands[k].open}) < boot.opens /\ Stopped
  /\ UNCHANGED bvars

\* FS_READ: the handle's position and place become the shared ones.  A drive is
\* read in whole sectors, by the kernel.
RestoredButThePlace(h) == [g EXCEPT !.filemax = hands[h].size, !.filepos = hands[h].position]
SharedFrom(h) == [g EXCEPT !.filemax = hands[h].size, !.filepos = hands[h].position, !.filebase = hands[h].base]
ReadSectors(v, len) ==
  IF v.filepos + len > VolSize THEN [sels |-> sels, g |-> v, last |-> NoFile] ELSE
  [sels |-> sels, g |-> [v EXCEPT !.filepos = @ + ((len \div SecSize) * SecSize), !.filebase = g.filebase],
   last |-> [name |-> Drive, pos |-> v.filepos, len |-> len,
             data |-> [i \in 1..((len \div SecSize) * SecSize) |-> (v.filepos \div SecSize) * SecSize + i - 1]]]
ReadOf(h, len, v) ==
  IF hands[h].direct THEN ReadSectors(v, len)
  ELSE LET now == advance_ptr(sels, v) IN MfsReadAt(now.sels, now.g, len, hands[h].name)
FsReadInto(h, read) ==
  /\ MfsReadInto(read)
  /\ hands' = [hands EXCEPT ![h].position = read.g.filepos]
FsRead ==
  /\ stage = "fs"
  /\ \E h \in Handles, len \in 1..2 :
       /\ hands[h].open
       /\ FsReadInto(h, ReadOf(h, len, SharedFrom(h)))
  /\ UNCHANGED <<bvars, stage, saves, ifs>>

\* FS_CHGFILEPTR
FsChgFilePtr ==
  /\ stage = "fs"
  /\ \E h \in Handles, offset_ \in {0 - 1, 0, 1}, type \in 0..2 :
       /\ <<offset_, type>> \in boot.moves
       /\ hands[h].open
       /\ InReach(PositionAfter(hands[h].position, hands[h].size, offset_, type), hands[h].size)
       /\ hands' = [hands EXCEPT ![h].position = PositionAfter(@, hands[h].size, offset_, type)]
       /\ g' = IF hands[h].direct THEN g ELSE [g EXCEPT !.filebase = hands[h].base]
  /\ last' = NoFile
  /\ UNCHANGED <<bvars, stage, sels, saves, ifs>>

\* FS_CLOSE: `type` is not looked at.
ClearedFirst(h) == [saves EXCEPT !.area[1] = None, !.open_files = @ - 1]
SavesWithout(h) ==
  [saves EXCEPT !.area = [i \in 1..SaveItems |-> IF i = hands[h].index THEN None ELSE @[i]], !.open_files = @ - 1]
FsClose ==
  /\ stage = "fs"
  /\ \E h \in Handles :
       /\ hands[h].open
       /\ saves' = SavesWithout(h)
       /\ hands' = [hands EXCEPT ![h] = Closed]
  /\ last' = NoFile
  /\ UNCHANGED <<bvars, stage, sels, g, ifs>>

\* FS_FINDFIRST finds by opening.
FsFindFirst ==
  /\ stage = "fs"
  /\ \E name \in boot.names :
       LET opened == Opened(name) IN
       sels' = opened.sels /\ g' = opened.g /\ last' = NoFile
  /\ UNCHANGED <<bvars, stage, hands, saves, ifs>>

\* FS_IOCTL, FS_PROCESSNAME, FS_FINDCLOSE, FS_EXIT, and FS_COMMIT of the stubs.
FsNothing ==
  /\ stage = "fs"
  /\ last' = NoFile
  /\ UNCHANGED <<bvars, stage, sels, g, hands, saves, ifs>>

\* fs_stubs.c, none of which is supported: page files, locks, pipes and notification;
\* changing files and directories; asking about files and the volume.
PageStubs == {"FS_ALLOCATEPAGESPACE", "FS_DOPAGEIO", "FS_OPENPAGEFILE", "FS_SETSWAP", "FS_CANCELLOCKREQUEST",
              "FS_FILELOCKS"}
ChangeStubs == {"FS_COPY", "FS_DELETE", "FS_FLUSHBUF", "FS_MOVE", "FS_NEWSIZE", "FS_WRITE", "FS_MKDIR",
                "FS_RMDIR", "FS_SHUTDOWN"}
QueryStubs == {"FS_FINDFROMNAME", "FS_FINDNEXT", "FS_FILEINFO", "FS_PATHINFO", "FS_FSCTL", "FS_FILEATTRIBUTE",
               "FS_FSINFO", "FS_CHDIR"}
FsStub ==
  /\ stage = "fs"
  /\ \E calls \in {PageStubs, ChangeStubs, QueryStubs} : last' = NoFile
  /\ UNCHANGED <<bvars, stage, sels, g, hands, saves, ifs>>

---------------------------------------------------------------------------
(* MFS_TERM                                                                *)

\* Booting from a ramdisk, every module is written to the drive, by portions of a
\* page each: to the name behind the first word of its command line, if there is one.
TargetOf(mod) == IF Len(mod.words) > 1 THEN Tail(mod.words) ELSE mod.words
FileWritten(mod) == [target |-> TargetOf(mod), data |-> [n \in 1..mod.pages |-> Page(mod.start + n - 1)]]

\* The first place noted for a file that is now written: that handle is the IFS's.
Reopened(mod) ==
  LET noted == {i \in 1..SaveItems \ Slot : <<saves.area[i].name>> = TargetOf(mod)} IN
  IF noted = {} THEN {} ELSE {saves.area[Lowest(noted)]}

\* Otherwise every file noted is opened anew.
AllNoted == {saves.area[i] : i \in 1..SaveItems \ Slot}

HandedTo ==
  IF g.ramdisk THEN [files |-> [i \in DOMAIN mods |-> FileWritten(mods[i])], handles |-> UNION {Reopened(mods[i]) : i \in DOMAIN mods}]
  ELSE [files |-> <<>>, handles |-> AllNoted]

\* Any call of the IFS may fail, and stops the kernel; so do selectors that cannot
\* be had for writing the modules.  The mini-FSD's own variables and selectors
\* are not used any more.
MfsTerm ==
  /\ stage = "fs"
  /\ \/ Stopped
     \/ /\ g.ramdisk => Cardinality(Free(sels)) >= 2
        /\ stage' = "ifs"
        /\ ifs' = HandedTo
        /\ sels' = NoSelectors
        /\ g' = [NoGlobals EXCEPT !.ramdisk = g.ramdisk, !.drvletter = g.drvletter]
        /\ last' = NoFile
        /\ UNCHANGED <<hands, saves>>
  /\ UNCHANGED bvars

FsdNext ==
  \/ MfsInit \/ MfsOpen \/ MfsRead \/ MfsChgFilePtr \/ MfsClose \/ FsInit \/ FsMount \/ FsOpenCreate \/ FsRead
  \/ FsChgFilePtr \/ FsClose \/ FsFindFirst \/ FsNothing \/ FsStub \/ MfsTerm

MInit == Init /\ FsdInit
Next == (BootNext /\ UNCHANGED fvars) \/ FsdNext
Spec == MInit /\ [][Next]_mvars
---------------------------------------------------------------------------
(* Properties                                                              *)

Min2(a, b) == IF a < b THEN a ELSE b
Held(name, pos, n) == [i \in 1..n |-> <<name, pos + i - 1>>]
Volumes(disk, logical, types) == {i \in DOMAIN disk.volumes : disk.volumes[i].logical = logical /\ disk.volumes[i].type \in types}
Others == {d \in ToSet(boot.disks) : d.number # boot.boot.number /\ d.fixed}
LettersOf(disk) == Min2(1, Cardinality(Volumes(disk, FALSE, boot.types))) + Cardinality(Volumes(disk, TRUE, boot.types))
BehindTheOthers == LetterC + FoldLeft(LAMBDA n, d : n + (IF d \in Others THEN LettersOf(d) ELSE 0), 0, boot.disks)
BootVolume == boot.boot.volumes[CHOOSE i \in DOMAIN boot.boot.volumes : boot.boot.volumes[i].number = boot.part]

\* What OS/2 is told of the volume it boots from is true.  AUTO gives the letter
\* behind those of all other disks' volumes, the one of two AUTO letters that the
\* other is moved past; DLAT the letter LVM has given; the CONFIG.SYS, the boot
\* sector and the mini-FSD have the same letter (--drv before --drv2), and a logical
\* partition's boot sector the place the partition begins at
\* (ufsd/drv.c, ufsd/ufsdc.c cmain(), cfgsys.c callback(), mFSD/mfs.c MFS_INIT()).
BootVolumeIsKnown ==
  table # None =>
    /\ ModeOf("drv").kind = "auto" => letters.drv = BehindTheOthers + (IF ModeOf("drv2").kind = "auto" THEN 1 ELSE 0)
    /\ ModeOf("drv2").kind = "auto" => letters.drv # letters.drv2 /\ letters.drv2 - BehindTheOthers \in {0, 1}
    /\ ModeOf("drv").kind = "dlat" /\ ModeOf("drv2").kind # "auto" => letters.drv = BootVolume.letter
    /\ BootVolume.logical => table.hidden = BootVolume.start
    /\ Matches(ConfigSys) # {} =>
         \A i \in DOMAIN config : boot.config[i].drive = "@" => config[i].drive = table.log_drive - 128 + LetterC
    /\ stage \notin {"none", "dead"} /\ boot.modes[1].key = "drv" => g.drvletter = table.log_drive - 128 + LetterC

\* Neither the editor's tables nor its text, the files preloaded and what is told
\* of the modules are ever put over a module, wherever config.sys is in the list
\* (cfgsys.c callback(), load_modules(), bootos2.c mbi_reloc()).
ModulesIntact ==
  at \in {"os2ldr", "kernel", "os2boot"} =>
    \A i \in DOMAIN mods : \A p \in 1..mods[i].pages : Page(mods[i].start + p - 1) = <<Last(mods[i].words), p - 1>>

\* What is preloaded is a file of the disk, alone in its module.  With autopreload every boot file,
\* basedev and library, and what the lines of config.sys that count name, can then be opened by os2ldr
\* and the kernel, by the names they ask for, or nothing is started.  The lines that count are those of
\* PSD, BASEDEV and VIDEO, the last of COUNTRY, DEVINFO=KBD and DEVINFO=SCR, and the first IFS with the
\* DEVICE lines before it: none of them without an IFS line.  From a ramdisk, all of IFS, DEVICE, RUN and
\* CALL, and the last PROTSHELL, if on the boot drive.  A line that is missing is not noticed, see FirstIfs
\* and Value.  Not so for what is found elsewhere: a name that only occurs in the command
\* line of a module, within a longer one or before its end, and one only the root directory
\* has, which is loaded as //name.  "If a file with such name already is loaded, skip loading"
\* (cfgsys.c:117): opening what is preloaded gives the very module.  Not so if config.sys gives
\* parameters, which are taken for a part of the name: such a file may be loaded twice
\* (cfgsys.c load_modules(), preload_module(), preload_library(); ufs_open()).
OfTheDisk(mod) == Len(mod.words) = 1 /\ OnDisk(mod.words[1])
OpensAsItself(mod) == ufs_open(mod.words[1]) = mod
IsElsewhere(name, places) ==
  \E i \in DOMAIN mods : \E k \in DOMAIN mods[i].words :
    Occurs(name, mods[i].words[k]) /\ ~ (k = Len(mods[i].words) /\ mods[i].words[k] \in places)
CanBeOpened(name, places) == (\E place \in places : Matches(place) # {}) \/ IsElsewhere(name, places)
InThree(base) == {<<d, base>> : d \in {"os2/boot", "os2", ""}}
InLibpath(base) == \E k \in DOMAIN boot.libpath : CanBeOpened(<<boot.libpath[k], base>>, {<<boot.libpath[k], base>>})
IsLast(i) == \A j \in DOMAIN config : config[j].type = config[i].type => j <= i
IfsBefore(i) == \E j \in DOMAIN config : j < i /\ config[j].type = "IFS"
IfsBehind(i) == \E j \in DOMAIN config : j > i /\ config[j].type = "IFS"
Counts(i) ==
  \/ config[i].type \in {"COUNTRY", "KBD", "SCR"} /\ IsLast(i)
  \/ ~boot.ramdisk /\ ~IfsBefore(i) /\ (config[i].type = "IFS" \/ (config[i].type = "DEVICE" /\ IfsBehind(i)))
  \/ boot.ramdisk /\ HasBootDrive(config[i])
     /\ (config[i].type \in {"IFS", "DEVICE", "RUN", "CALL"} \/ (config[i].type = "PROTSHELL" /\ IsLast(i)))
Preloaded ==
  at \in {"os2ldr", "kernel", "os2boot"} =>
    /\ \A i \in DOMAIN mods \ DOMAIN boot.modules :
         OfTheDisk(mods[i]) /\ ((\A l \in DOMAIN config : ~config[l].args) => OpensAsItself(mods[i]))
    /\ boot.autopreload /\ Matches(ConfigSys) # {} =>
         /\ \A base \in ToSet(Needed) : CanBeOpened(<<"", base>>, {<<"", base>>})
         /\ \A base \in ToSet(Basedevs) : CanBeOpened(<<"", base>>, InThree(base))
         /\ \A base \in ToSet(Libraries) : InLibpath(base)
         /\ \A i \in DOMAIN config :
              /\ config[i].type \in {"PSD", "BASEDEV"} => CanBeOpened(<<"", config[i].name[2]>>, InThree(config[i].name[2]))
              /\ config[i].type = "VIDEO" => InLibpath(config[i].name[2])
              /\ Counts(i) => CanBeOpened(config[i].name, {config[i].name})

\* A file read through either driver is the module's, at the position of the very
\* handle that is read, whatever was opened, found, read or closed in between; a
\* drive read in whole sectors is the drive's; a ramdisk gets every module whole
\* (mbifunc.c ufs_read(); mfs.c MFS_READ(), MFS_TERM(); fs_all.c FS_READ()).
ReadGivesTheFile ==
  /\ mu.got # None => mu.got.data = Held(mu.got.name, mu.got.pos, Len(mu.got.data))
  /\ last.name # None /\ last.name # Drive =>
       last.data = Held(last.name, last.pos, Min2(last.len, ufs_open(last.name).pages - last.pos))
  /\ last.name = Drive /\ last.pos % SecSize = 0 =>
       last.data = [i \in 1..(last.len - (last.len % SecSize)) |-> last.pos + i - 1]
  /\ stage = "ifs" /\ g.ramdisk =>
       \A i \in DOMAIN mods : ifs.files[i].data = Held(Last(mods[i].words), 0, mods[i].pages)

\* The IFS is given the files that are open, under the handles they are open by,
\* and no other.  Booting from a ramdisk, only the first handle of a file is handed
\* over, and a drive's not at all; and a file noted one behind the last place is
\* outside of what MFS_TERM() looks at (fs_all.c FS_OPENCREATE(), FS_CLOSE();
\* mfs.c MFS_TERM()).
OpenOnes == {[handle |-> h, name |-> hands[h].name] : h \in {h \in Handles : hands[h].open}}
Alone(o) == o.name # Drive /\ \A p \in OpenOnes : p.name = o.name => p = o
HandedOver ==
  stage = "ifs" /\ ~saves.torn =>
    /\ ifs.handles \subseteq OpenOnes
    /\ IF g.ramdisk
       THEN \A o \in OpenOnes : Alone(o) /\ TargetOf(ufs_open(o.name)) = <<o.name>> => o \in ifs.handles
       ELSE ifs.handles = OpenOnes
=============================================================================
