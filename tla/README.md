# FreeLdr: a verification project in TLA+

FreeLdr is the osFree boot loader: a multi-stage OS/2-style loader derived from
GRUB legacy, written in C and assembly for Open Watcom.  This directory holds
TLA+ models of the parts of it that decide what is booted and from which
sectors, TLC configurations that check them, and TLAPS proofs.

All paths below are relative to `src/`.

## 1. Inventory

The loader is single-threaded.  What makes it hard is not preemption but a
handful of global variables (`errnum`, `current_drive`, `saved_drive`,
`fsys_type`, `buf_drive`, `sector_size`, ...) that nested calls read and write
while outer calls are using them, BIOS calls that fail on their own, fixed-size
arenas and tables, code that is copied and relocated over other code, and readers
that see their input in chunks or keep what they read last.

| Component | Source | State it keeps | Operations | What is hard |
|---|---|---|---|---|
| Track cache, BIOS disk access | `loader/preldr/dskaccess.c`, `bios.c`, `biosdisk.asm` | `buf_drive`, `buf_track`, `buf_geom`, the buffer, `sector_size` | `rawread`, `rawread_loop`, `rawwrite`, `devread`, `biosdisk`, `get_diskinfo` | a BIOS failure in any call, LBA to CHS fallback, partial track reads, EZ-Drive mapping, cache validity across drives and writes |
| Partition enumeration | `loader/preldr/part.c` | `current_partition`, `current_slice`, `part_start`, `part_length` | `next_partition`, `real_open_partition`, `open_partition_hiddensecs` | extended-partition chains built by on-disk pointers, numbering, termination |
| Device selection and mounting | `loader/preldr/func.c`, `root.c`, `setdev.c` | current and saved drive, partition and file-system type, the loaded driver | `set_device`, `open_device2`, `set_fsys`, `setup_part`, `real_mkroot` | loading a driver file while mounting the device the driver is for: nested opens over the same globals |
| File API, service tables | `loader/preldr/stage0_fs.c`, `func.c` | open file, `filepos`, `filemax`, redirection prefix | `freeldr_open/read/seek/close`, `u_parm`, blocklists | retries with other letter cases, 16-bit driver calls, end of file |
| Pre-loader start | `loader/preldr/stage0_fs.c`, `init.asm`, `common.c` | file table, parameters, memory map | `init`, `set_addr`, `set_ftable`, INI parser, `init_bios_info` | fallbacks among several boot methods; unsorted memory maps |
| Configuration reader | `loader/cfgparse.c` | position in the file, pending line | `getline`, `process_cfg` | lines, comments and continuations that straddle 1 KiB chunks |
| Menu and scripts | `loader/loader/loader.c` | menu items, script and string arenas, current/previous configuration | `process_cfg_line1`, `exec_cfg`, `exec_menu`, `KernelLoader` | nested configurations, arenas reset between them, fallback after failure |
| Variables and toggles | `loader/loader/commands.c` | variable store, toggle slots and blocks | `set_func`, `var_set`, `toggle_func` | bump allocation, values shared between variables and toggle blocks, limits |
| Commands | `loader/loader/commands.c` | `kernel_type`, module list, hooks | `kernel`, `module`, `root`, `boot`, `loop`, ... | order constraints among commands, hooks left set on an error |
| Image and module loading | `loader/loader/boot.c` | `cur_addr`, module list, multiboot info | `load_image`, `load_module`, `create_lip_module`, `create_bs_module` | images that overlap what is already loaded, limits, 1 MiB floor |
| Preprocessor | `loader/loader/pp.c` | input and output position | `preprocess`, `subst_include`, `subst_if` | nested conditionals in skipped branches |
| Line editor | `loader/edit.c` | linked list of lines, cursor, window | `edt_get_user_input`, `read_file`, `save_file` | splitting and joining lines at the ends of the list |
| Command line, terminal selection | `loader/cmdline.c`, `wrap.c`, `loader/setdev.c` | input line, history, terminal | `getcmd`, wrappers | mostly input and layout |
| File-system drivers (uFSD) | `loader/filesys/*.c` | driver-private superblock data, FAT cache | `mount`, `read`, `dir` | cluster chains on damaged media, caches filled by reads that may fail |
| MBI micro-FSD | `loader/kernels/ufsd/` | own track cache, drive letters, open file | `cmain`, drive-letter assignment, `mu_Open/Read`, zip and PXE readers | letters that depend on each other, chains of extended partitions; os2ldr calls back in |
| OS/2 mini-FSD | `loader/kernels/mFSD/` | one shared position, size and place, a record per handle, notes of open files, selectors | `MFS_*`, `FS_*`, `MFS_TERM` | handles that share variables, selector life time, handing open files to the real driver |
| Kernel loaders | `loader/kernels/{chainc,bootos2,linuxc,cfgsys,cfgparsr}.c` | kernel image, the list of modules, `config.sys` edits | one driver per operating system; patching, editing and preloading `config.sys` | everything is put behind the last module, which moves |
| Terminals | `loader/term/*` | cursor, screen, escape parser | `putchar`, `getkey`, `terminfo` | layout |
| Boot sectors | `bootsec/*` | - | - | assembly without loops worth a model |
| Shared libc, headers | `loader/shared`, `loader/include` | - | string functions | pure functions |
| Installer | `freeinst/*` | - | - | an interactive Pascal program, separate from the loader |
| FAT utility | `util/fat` | - | - | a host tool |

Calls go down: the menu and its scripts call the commands, the commands load
images or choose devices, images come through the file API, whose opens mount a
device, find its partition and read it through the track cache.  They also come
back up: mounting a device opens the files of file-system drivers, and reading a
configuration file runs the commands in it.  Shared state is the globals named
above; there are no locks and nobody to lock out.

What makes each part correct, in a sentence:

- **Track cache**: a read delivers what the disk holds or fails, whatever was
  read, written, probed and failed before it.
- **Partitions**: the number given to a partition is the same whoever counts, and
  belongs to exactly one place on the disk.
- **Mounting**: a name is looked up on the device it names; only the root command
  moves the root; what can be mounted is mounted.
- **Configuration reader**: lines do not depend on where the chunks end.
- **Menu**: the scripts shown and run are those of the file; backspace returns.
- **Variables and toggles**: texts in the store stay apart; a key moves its own
  toggle by one block, and what is shown is what is set.
- **Image loader**: nothing loaded is overwritten before it is used; a kernel gets
  its own modules; what failed is not booted.
- **File-system drivers**: what is opened, listed and read is what the disk holds,
  whatever calls before left in the driver's caches.
- **Pre-loader**: code that is called was relocated for the place it is at and calls
  back the copy of the pre-loader that runs; os2ldr is told where things really are.
- **OS/2**: the boot volume is described truly everywhere, modules stay whole and are
  all there, each handle reads its own file, open files are handed over.

The hazards, each at its line of the source and with the properties that are
about it, are listed in `PROJECT.json`.

## 2. Modules

| Module | What it is | Composition |
|---|---|---|
| `BlockDevice` | what a reader promises: the sectors asked for, or a failure | abstract specification of `TrackCache` |
| `TrackCache` | `rawread()`, `rawwrite()`, `biosdisk()`, `get_diskinfo()` step by step | implements `BlockDevice` |
| `TrackCacheProofs` | theorems about `TrackCache`: types, geometry, that it implements `BlockDevice` | extends `TrackCache` |
| `FileService` | what the loader expects of opens, listings and the root command | abstract specification of `DeviceMount` |
| `DeviceMount` | `open_device2()` and its callers, nested opens of driver files | implements `FileService` |
| `DeviceMountProofs` | theorems about `DeviceMount` | extends `DeviceMount` |
| `Partitions` | the walk through partition tables and BSD labels, by number and by hidden sectors | |
| `ConfigReader` | `process_cfg()` and `getline()` | |
| `ConfigReaderProofs` | theorems about `ConfigReader` | extends `ConfigReader` |
| `Menu` | menu, items, scripts, configuration files that name others | |
| `MenuProofs` | theorems about `Menu` | extends `Menu` |
| `Toggles` | variables, toggles, triggers, the store of their texts | |
| `TogglesProofs` | theorems about `Toggles` | extends `Toggles` |
| `ImageLoader` | kernel and module commands, `cur_addr`, the multiboot information | |
| `ImageLoaderProofs` | theorems about `ImageLoader` | extends `ImageLoader` |
| `FileDriver` | what all file-system drivers share: the globals and the calls around `fs_dir()` and `fs_read()`, and what the loader expects | |
| `FatDriver`, `Ext2Driver`, `MinixDriver`, `UfsDriver`, `HpfsDriver`, `IsoDriver`, `JfsDriver`, `XfsDriver`, `ReiserDriver`, `NtfsDriver` | one driver each (`UfsDriver`: ffs and ufs2) | extend `FileDriver` |
| `FileSystemImages` | disks for them, with their hard cases | used by `MC_FileSystems`, which composes the drivers |
| `PreLoader` | `init()` of the pre-loader until os2ldr runs on its services | |
| `PreLoaderProofs` | theorems about `PreLoader` | extends `PreLoader` |
| `DriveLetters` | the letters and places of partitions as the micro-FSD counts them | extended by `Os2Boot` |
| `Os2Boot` | OS/2's kernel loader, CONFIG.SYS, the micro-FSD that serves os2ldr | extended by `MiniFsd` |
| `MiniFsd` | the mini-FSD that serves the OS/2 kernel until the real driver is there | composes the three |
| `MiniFsdProofs` | theorems about `Os2Boot` and `MiniFsd` | extends `MiniFsd` |
| `MC_*` | the instances that TLC checks | extend their module |

`DeviceMount` takes "the device can be read" and "the partition was found" as
given or failing; `TrackCache` and `Partitions` are what stands behind the two.
`Menu` takes a file as its lines, which `ConfigReader` hands on, and a command as
what it does to the menu; `Toggles` and `ImageLoader` are the commands.  The drivers
are what `DeviceMount` and `PreLoader` take as "understands the device, has the file";
`MiniFsd` reads the memory that `Os2Boot` has arranged, at the places it has noted.

Definitions whose comment says so, or which stand before a definition of a
similar name (`PartialWhenExact` before `Partial`), are faulty forms of it: they
are what the definition would be with a plausible mistake, and are used by
nothing.  Each property is checked to notice one of them (`mutants` in
`PROJECT.json`).

### TrackCache

| Code | Model |
|---|---|
| `buf_drive`, `buf_track`, `buf_geom`, `BUFFERADDR`, `errnum` | variables of the same names, `buf` for the buffer |
| one turn of the loop of `rawread()` (`dskaccess.c` 95-236) | `Refresh`, `RefreshFails`, `OutOfGeometry`, `Fault`, `Hit`, `Fill`, `Retry`, `NotEZD`, `MapInBuffer`, `MapFromDisk`, `Copy`, `Return`; `phase` is the place in it |
| `biosdisk()` with its fallback from LBA to CHS | the operator `biosdisk`: the set of possible outcomes |
| `get_diskinfo()` | the geometry of the drive, or what `Garbled` leaves |
| `rawwrite()` | `Write`, in one action: no caller runs between its accesses |
| `real_open_partition()`'s refresh, `PARM_BUF_DRIVE` | `Mount`, `Invalidate` |

A BIOS call succeeds or fails on its own each time.  A request counts whole
sectors; the offsets of bytes inside the first and the last move with the data.
Nothing is assumed of the disks' contents, of the length of a track or of what is written.
What goes wrong with them is an event of the model.  `rawwrite()` computes the track it wrote to by
`buf_geom.sectors` and `rawread()` by what fits the buffer, which is seven sectors of 512 bytes
(`BUFFERLEN`, `loader/include/fsd.h:70`): on an ordinary hard disk a write into the buffered part of a track, but for its
first, keeps the buffer.  `behind` tells that this has happened; the buffer is sound again once
it is filled anew, and a read that finds its track in it before that has no promise.  After reading the end of
track 0, `rawread()` looks for an EZ-Drive's table at the start of the buffer, where another sector is, and it takes what is
behind the first sector of the buffer for sector 1 when a track has only one (`Mistaken`).
Two things `rawread()` leaves to its callers: after a probe that failed nothing is to be read
before `buf_drive` is reset (`Clean`), and no part of a track together with what the drive
does not have (`Inside`).  `careful` tells that none of the four was met so far.  `exec_cfg()` keeps
to `Clean`, a command after a failed `root` does not; nobody makes sure of the others.  Properties,
the abstract specification and the theorem promise something while `careful` is true; the model goes
on when it is false.  `DeviceMount` has the same: printing the root, a block list and a listing after
a failed call leave states that the code does not provide for, and so does a drive whose probe fails
while a driver still holds the superblock of another device (`Strays`).

### DeviceMount

`open_device2()` calls `set_fsys()`, which opens a driver's file, which calls
`open_device2()` again.  `stack` holds one record for each activation, with what
the C function keeps in locals over the nested call: the device it was called for
and the number of the driver being tried.  Everything else is the code's global
variables: `cur` (`current_drive`, `current_partition`), `saved`, `fsys`
(`fsys_type`), `driver` (what is in the working buffer), `mounted` (whose
superblock that driver holds), `buf_drive`, `errnum`.  `pc` names the next piece
of code.  `filetab` is true if a 16-bit micro-FSD serves files, which changes who
opens the drivers' files.

Superblocks are at `FSYS_BUF` (`include/fsd.h:37`), outside the working buffer: copying a driver
over another leaves them there, and a driver that is put back finds the one it read (`Put`).  What
the JFS and NTFS drivers keep in variables of their own is copied with the driver and is not modelled.

### Partitions

A disk is a function from sectors to tables and labels.  `NextSlice` is
`next_pc_slice()`, `FirstBSD` and `NextBSD` are `next_bsd_partition()`, `Check` is
the comparison in `real_open_partition()`; `Find` and `WalkChain` are
`open_partition_hiddensecs()`, which does not use them and numbers partitions by
itself.  `There` says what the tables mean without walking them, and is what both
walks are compared with.

### ConfigReader

A file is a sequence of characters of a small alphabet (a letter, blank,
continuation, comment, carriage return, line feed): where the end of the chunk
falls among them is the matter.  `s` and `str` are the two static arrays that keep
the pieces of a line and the lines continued; they outlive a call, and `Return`
keeps them for the next file.  The arrays hold BUFSIZE characters; the checks refuse more, but a line of exactly
BUFSIZE has its zero written behind the array: `Overrun` is the outcome in which that byte was somebody's, after which
nothing is known, and taking the line as ever the other.  `LogicalLines` is the reference: the lines of the
whole file, joined and cleaned, without any buffer.

### Menu

`arena` is the memory at `menu_items`, with the addresses of the nodes: `st_prev`
survives `init_vars()`, and the model writes through it as the code does.
`ReadTitle`, `ReadCommand` and `ReadGlobal` are the three cases of
`process_cfg_line1()`, `ShowMenu` is `exec_cfg()` up to the first key, the actions
of `Input` are the keys and the command line.  `exec_cfg()`'s item is not
initialised: `Frame` is the set of values the stack may hold there.
`MachinesAssumption` says what lines are: a title has a length, a `configfile` command that succeeds
names a file of the machine (one that does not is a command that fails).

### Toggles

`store` maps the address of each text to the text: the code's bump allocation,
with a text's room being what its first value took.  The commands are functions of
a record of the memory (`Memory`, `Store`), since they call each other and stop in
the middle when something does not fit; what was done before stays, as in the
code.  `Line`, `ShowMenu` and the actions of `Input` are the loader around them:
after a toggle's key the file is read again with `process_what = "triggers"`.
An entry of a block whose variable found no room keeps its text and has the variable 0,
where the code stores -1 (`ProcessVar`).  When such an entry is shown or drawn, the code uses what lies
before its list of variables; of what follows nothing is known: `wild` is set and the machine stops.
`ConfigurationsAssumption` says what the commands of a configuration file look like,
`NoneAssumption` that no text has the address None, the null pointer of a variable without a value.

### ImageLoader

Memory is a line of cells; a thing loaded is a record of where and how long.
`Put` is every write: it marks what it falls upon among the things that the
multiboot information names (`spoilt`).  A command line is a thing and the zero behind it, on which `cur_addr`
is left standing, another (`Zero`).  `KernelLoaded`, `KernelRefused` and
`KernelBroken` are the ends of `load_image()`; the others are one action for a
command that succeeds.  Failures of a command in a script go through `Failed`,
which is what `exec_cfg()` does after a script.  The ghost variables `asked`,
`broken` and `moved` record what the commands promised.

### FileDriver and the drivers

All drivers are linked to the same globals, one is loaded at a time, and a call of it
runs to its end before the next.  So a call is one step: `FileDriver` has the step
(`Mounted`, `Opened`, `Listed`, `Delivered`, `Seek`: what `func.c` does before and after
the driver's function), and a driver's module is functions from the record `d` of the
globals and the driver's memory to that record afterwards, in the order of the C code.
What makes them hard is in `mem`: each driver keeps blocks it read last and numbers that
say which these are.

| Module | Code | What is kept between calls |
|---|---|---|
| `FatDriver` | `fsys_fat.c` | the piece of the FAT in the buffer (`cached_fat`), the cluster the last read came to |
| `Ext2Driver` | `fsys_ext2fs.c` | the inode, two map blocks and their tags (`mapblock1`, `mapblock2`) |
| `MinixDriver` | `fsys_minix.c` | the inode, two zone tables and their tags |
| `UfsDriver` | `fsys_ffs.c`, `fsys_ufs2.c` | the inode, a window of one indirect block (`mapblock`, `from`, `window`) |
| `HpfsDriver` | `fsys_hpfs.c` | one fnode, one dnode, one anode |
| `IsoDriver` | `fsys_iso9660.c` | the volume's descriptor, where the file starts |
| `JfsDriver` | `fsys_jfs.c` | the file set's inode, another inode, a page of the extent tree and one of a directory |
| `XfsDriver` | `fsys_xfs.c` | one inode; its extents are walked from the first in every call |
| `ReiserDriver` | `fsys_reiserfs.c` | the nodes of the path to the last item by depth, the root, the journal's transactions |
| `NtfsDriver` | `fsys_ntfs.c` | two file records with their attributes' places, the block last read in part (`save_pos`) |

A disk is a function from block numbers to what a block holds (a table, a directory, an
inode, data), and a file's contents are numbers that tell where on the disk they lie, so
that a wrong block is never right by chance.  `bad` is the set of blocks that cannot be
read while the call runs: a driver's early returns after `devread()` are all taken.

### PreLoader

`m` is the machine.  `m.at[b]` says what code the buffer `b` holds, for which place it has
been relocated and which copy of the pre-loader it calls; `m.v[c]` has the variables of the
copy `c`, of which there are two after `set_addr()`.  The operators that take a machine `k`
and give one are the C functions with their nested calls (`open_device2`, `set_fsys`, `reloc`,
`u_termctl`, `set_ftable`'s `Read` and `Table`); the actions are `init()` cut where it returns to
itself: `Begin`, `Configure`, `Backup`, `MoveDriver`, `init_term`, `LoaderTable`, the loader's calls
(`u_open`, `u_term`, `u_parm`) until `LoaderReturns`, then `Leave16` or `set_addr` and `Os2Table`.
`called` collects every call of a driver or terminal in one step, with what the buffer held.
Two things are taken for granted: that the boot drive's driver understands the boot device, and that where a 16-bit
micro-FSD has started the pre-loader and preldr.ini asks for one of its own, a driver listed there is on the disk
(`BootAssumption`; `init()` does not look at either, section 6).

### DriveLetters, Os2Boot, MiniFsd

`DriveLetters` is `drv.c` as operators on a disk's tables: `get_num_parts`, `assign_auto`, `offset`,
`dla`.  `Os2Boot` is the way to os2ldr, `at` naming the place: `bootos2_cmain`, `AssignLetters`,
`PatchConfig`, `editor`, `Preload` (the whole of `load_modules()`: a list of what is looked for,
folded with `Step`), `mbi_reloc`, `LoadOs2ldr`, then `MuOpen` and `MuRead` as os2ldr likes, and
`StartKernel`.  Memory is a sequence of pages, and a module's place a page number.
`MiniFsd` continues with the kernel's calls, one action each, of which any may come at any time
in its stage: `MFS_*`, then `FS_*` with any number of handles, then `MFS_TERM`.  `g` has the
variables that all files share, `hands` what the kernel keeps per handle, `saves` the notes of open
files, `sels` the selectors.  The driver that takes over is external: `ifs` is what it is given.

## 3. Runs

| Run | Question | Bounds | States |
|---|---|---|---|
| `trackcache_reads` | does a read deliver the disk, with BIOS errors and a write between? does it return? | three drives (LBA, 8 sectors, tracks of 4 of which 2 fit; a floppy with CHS, 4 sectors; one whose tracks fit, which is written to), sixteen requests of up to 4 sectors | 579 thousand |
| `mount_calls` | is the device named the one served, is what is there found, does every call return, how deep does it nest? | five devices on three drives, three drivers, three spellings, every kind of call, a partition and the floppy unreliable, with and without a micro-FSD | 57 thousand |
| `config_lines` | are the lines handed on those of the file? | all well-formed files of up to seven characters, chunks of four, three files that may fail to be read | 839 thousand |
| `partitions` | is the partition found the one asked for? | 150 disks: up to three tables in the chain, labels with gaps, broken tables, floppies | 117 thousand |
| `image_commands` | is anything overwritten, are the modules the kernel's? | three kernels, two modules, seven commands, pages of two cells | 2.8 million |
| `variables` | do texts stay apart, does a key move its toggle? | eight machines with two files each, eight inputs | 13 thousand |
| `menu` | are the scripts the file's, does backspace return? | three machines with three files each, ten inputs | 245 thousand |
| `filesystems` | is what is opened, listed and read what the disk holds? | twenty-two disks of eleven formats, five calls, reads of 3 and 7 units, any one block of the fragile ones failing in any call | 42 thousand |
| `stages` | is the code called the one for its place, are the tables true? | seven preldr.ini, with and without a 16-bit micro-FSD, three requests of the loader and os2ldr | 2 thousand |
| `os2_boot` | are letters, modules and open files what OS/2 is told? | 25 combinations of letters and volumes, 29 ways of preloading (files, lines and parameters missing or there), three kernels with three handles | 134 thousand |

Two more runs show disagreements of the code with comments of its own
(section 6): `trackcache_edge` and `mount_blocks`.

Why these are enough.  The sizes are the smallest at which every branch is taken
and every pair of them can meet: a BIOS track that is longer than the buffer and a
request over three virtual tracks; a chunk that ends inside a line, a
continuation, between carriage return and line feed; a chain of three tables, the
first of which is linked from the disk and the others from the extended partition;
a page that is larger than the smallest thing loaded, and kernels that overlap.  In
`TrackCache` all contents are different, so that a wrong sector is never taken for
the right one by chance.  Counters have a bound of their own, each named:
`MaxCommands` and `MaxInputs` end a behaviour (seven commands are a kernel, two
modules, a failure and another kernel with its modules; eight and ten inputs are
two keys and their reloads, a file named, edited and left, and back);
`MaxMods` stands for the list of modules, `MaxNumber` for slice numbers beyond
the last, `MaxDepth` for the size of the stack, twice what `NestingIsBounded` shows to be needed.
`Machines`, `Configurations`, `Disks`, `Images`, `Inis` and `Boots` are families chosen for
the hard cases, each with a comment; they are examples, and the properties are not shown
for other files.  `MaxCalls` is five, because a wrong cache needs a mount, an open, a read that
fills the cache, a call that makes it untrue and a read that uses it; blocks, caches and
tables have two to four entries (`BLOCK_SIZE`, `NDIR_BLOCKS`, `FAT_CACHE_SECTORS`, ...), so that every level
of indirection and every edge of a cache is met within seven units.  `MaxRequests` of three are
an open, a terminal and a parameter in any order before the pre-loader moves, or opens after
it.  In `os2_boot` `SaveItems` is 2 with three handles, which meets the limit; eight or ten selectors
are two opens more than can be had; `MaxMu` is an open and a read, `TablePages` and `MbiPages` are
the sizes in the source, `MaxEbrs` the longest chain on the disks.

Fairness.  Two kinds of liveness are checked.  `ReadReturns` (a read returns),
`CallEnds` (an open, a listing or a root command returns) and `SearchEnds` (a
search for a partition ends).  Each assumes weak fairness of the steps of the call
in progress and nothing else: FreeLdr is one thread with nothing above it that
could stop running it, so a called function goes on.  No fairness is assumed of
the user, of the callers or of which BIOS calls succeed: a call returns also when
all of them fail.

`CHECK_DEADLOCK FALSE` is said where the system stops: `rawread()` divides by a track of no sectors, a kernel is booted and does
not return, `panic()` halts, a driver that cannot be read ends the loader, the
bound of the inputs is reached.

### What the properties except

A property that excepts a case says so in its comment, and the case is either the
user's wish or a defect listed in section 6.

- `NothingOverwritten` excepts memory after `cur_addr` was set back (`moved`):
  `modaddr` asks for it; the editor and failing ELF symbols do it by themselves.  It also excepts the zero behind
  a command line that ends where a page does, on which the next module is put.
- `NothingInvented` and `NothingLost` except lines read while the arrays hold what a
  read error left in them (`stale`).  What the run shows is that nothing else
  leaves anything, and that they recover.
- `SearchEnds` excepts `PastTheEnd`, the loop of `open_partition_hiddensecs()` for
  the last logical partition, which does not end.
- `HiddenIsNumbered` is about chains whose tables hold one partition each, which
  is what partitioning programs write; the two ways of counting disagree on others.
- `MenuIsTheFile` excepts files whose first title is written through the old
  `st_prev` (`struck`), `ItemIsShown` menus whose first item the stack chose
  (`astray`).
- `BackspaceReturns` is about items with one `configfile` command, and files without one
  among their global commands: a second one, in the same script or in the file it leads to,
  takes the place that backspace would return to.
- `ShownIsCurrent` is about files in which no two toggles share a variable, no `set` writes one
  of a toggle (`Apart`), and all lines that write a block of a toggle have a variable at the same
  place of it (`OnePlace`, section 6): the text of a variable is compared with the one at its place;
  and it excepts menus drawn with an entry that has no variable (`wild`).  `PointersLive` requires
  a text of every entry that counts, and a variable of those that did not lose it.
- `AgainCostsNothing` is about files whose commands do not write the same variable in two
  ways, and were read without an error.
- `CacheCoherent` excepts a buffer that `rawwrite()` kept though the sector written is in it (`behind`); `ReadsTheDisk`
  promises nothing from the read on that uses such a buffer, or takes another sector for an EZ-Drive's first.
- `CacheCoherent`, `GeometryOfDrive`, `ReadsTheDisk`, `LooksAtTheCurrentDevice`, `FindsWhatIsThere` and
  `ServesTheNamedDevice` speak of what happens while the callers are `careful` (section 2).
- `KeyMovesItsToggle` excepts toggles that a trigger of the file moves or writes anew, which is
  what triggers are for.
- `ReadsTheFile`, `FindsTheFile` and `ListsTheDirectory` except a driver whose buffer's tag names
  a block that could not be read (`Tainted`) and, for the three drivers that do not look at
  what `devread()` returns, calls with an error (`Careless`).  What the drivers get wrong on good disks is on
  the disks of the run, and excepted where it shows, all of it in section 6: units of holes that a driver reads from block 0
  (`BlindToHoles`: minix, ffs, ufs2, reiserfs; ext2 where a whole table is left out, or in extents), reads that jfs or xfs loses its
  place with at a hole (`OverAGap`) or hpfs at another anode (`AcrossAnodes`), names of a FAT12 or FAT16 root directory
  that does not begin three clusters before the data (`Unseen`, `LostInRoot`), a block that NTFS keeps for a cluster
  of several (`Tainted`), files that ext2 refuses (`Refused`).
- `TableIsTrue` excepts runs in which sectors of another track were taken for the
  directory's after the move (`misread`), and a boot without extloader.
- `BootVolumeIsKnown` says of the mini-FSD's letter only what holds when `--drv` stands before
  `--drv2`; `Preloaded` excepts names that are found elsewhere than they are asked
  for (`IsElsewhere`: within the command line of a module, in a longer name or before its end; a file that only the root
  directory has is loaded as //name), promises the files of those lines that count (`Counts`: without an IFS line no DEVICE line
  does, and what is loaded in place of a line that is missing is not promised to be anything), and says that a file preloaded is the first of its name only if CONFIG.SYS gives no
  parameters (section 6); `HandedOver` excepts a file noted behind the last place (`torn`), and from a
  ramdisk further handles of the same file and drives.

## 4. Proofs

`TrackCacheProofs`, `DeviceMountProofs`, `ConfigReaderProofs`, `ImageLoaderProofs`, `TogglesProofs`,
`MenuProofs`, `MiniFsdProofs` and `PreLoaderProofs` are checked by TLAPS.  What they assume of the constants is `ConstantsAssumption` of
`TrackCache`, `DeviceMount`, `ConfigReader`, `ImageLoader`, `Menu` and `Toggles`, `ConfigurationsAssumption` of `Toggles`,
`MachinesAssumption` of `Menu` (section 2), `EditAssumption` of `ImageLoader` (the editor's place, 4 MiB, begins a page), `NoneAssumption` of `ImageLoader`, `MiniFsd` and `Toggles` (that None is neither something loaded nor a note nor a
page nor an address), `PlacesAssumption`, `SizesAssumption` and `NamesAssumption` of `MiniFsd` (places to note files in,
selectors, the drive's sectors and their size are numbers, a sector has a size, and a drive is not opened by a file's name),
`BootsAssumption` and `PagesAssumption` of `Os2Boot` (the next paragraph), `ConstantsAssumption` and `BootAssumption` of
`PreLoader` (the one after it); TLC evaluates all of them in
the runs.

What `Os2Boot` assumes is how the loader leaves memory, and what the code's tables take: there are modules,
one behind the other, and each has a name; LIBPATH and DPATH are lists of directories; CONFIG.SYS, the text the editor changes, takes a page; and what
`mbi_reloc()` writes (the module list and its command lines) takes no more room than the editor's tables, MAX_LINES (8192) times a
`struct line`, 40 pages (`loader/edit.c:12`, `kernels/bootos2.c:79`).

`PreLoader` assumes of preldr.ini that it names files and lists of drivers and terminals, and a default terminal that is in
its list; the rest is section 2's.  Which drivers understand which devices, which files there are and how long, which
terminals and files are asked for and how much room the loader asks to be left is arbitrary.

Of the two nodes in the menu's arena `Menu` assumes that the next pointer of a string is no further in it
than a script is long (8 bytes into it, and 20: `loader/loader/loader.c:132`).

Nothing is assumed of the sizes: drives, geometries,
requests, devices, drivers and who understands what, files, kernels, modules, the size of a page
and the number of commands are arbitrary, and so are the disks, CONFIG.SYS files, modules, handles and places of `MiniFsd`,
and the configuration files, names, texts, keys and sizes of `Toggles` and of `Menu`.

| Theorem | What it shows |
|---|---|
| `TypeCorrect` | types of `TrackCache`: every sector number, count and place in the buffer that `rawread()` computes is in range |
| `GeometryAlwaysOfDrive` | while failed probes are followed by an invalidation, a drive is addressed only with its own geometry |
| `CacheAlwaysCoherent` | between two reads, a track buffer that claims a track holds what the media hold there, unless a write to a drive with longer tracks fell into it |
| `DiskServed` | `TrackCache` implements `BlockDevice`: a read fails or delivers exactly what the media hold, until one uses such a buffer or mistakes a sector for an EZ-Drive's |
| `LooksWhereItShould` | the driver that is asked for a file holds the superblock of the current device |
| `NamesServed` | `DeviceMount` implements `FileService`: files come from the device that was named or from the root, and only the root command moves the root |
| `TwoAtMost` | as long as the root's drive can be probed, `open_device2()` is active at most twice, and room for two activations is enough (hypothesis `MaxDepth >= 2`) |
| `FoundIfThere` | what is there is found, whatever was opened before and however it ended: a call fails only if no driver that can be had understands its device, or the file is not there |
| `Typed` | types of `ConfigReader`: the buffer and the two arrays are never given more characters than they have room for, whatever the file (the zero behind a full array is `Overrun`) |
| `NothingIsInvented` | the lines handed on are lines of the file, in order, wherever the ends of the buffer fall and whatever was read before |
| `NothingIsLost` | a file that was processed was handed on to its last line |
| `ImageTypeCorrect` | types of `ImageLoader`; a valid multiboot kernel has an image and a command line |
| `NeverOverwritten` | nothing a valid kernel's multiboot information names is overwritten while `cur_addr` is not set back |
| `ModulesAlwaysAsAsked` | a valid kernel's modules are those asked for since it was loaded, in order |
| `BrokenNeverBooted` | no kernel is booted that a script failed after |
| `OpenFilesHandedOver` | the real file-system driver of OS/2 is given the open files, under their handles, and no others |
| `ModulesStayIntact` | no module is written over by what is preloaded, the editor or the relocated list, until the kernel has it |
| `NothingStartsWithout` | what is preloaded is a file of the disk; os2ldr, its messages, the kernel, the drivers and libraries of every boot, and what the lines of CONFIG.SYS that count name can be opened, or nothing is started |
| `ReadsAreTheFiles` | os2ldr and the kernel read the pages of the very file a handle is for, at its position |
| `StartTypeCorrect` | types of `PreLoader`: places in `init()`, the code in every buffer, the driver in use |
| `CodeFits` | a driver or terminal that is called is in its buffer, lies where it was relocated for and calls the copy of the pre-loader that runs |
| `TableTells` | the file table tells what was loaded and where; os2ldr has the room it needs above the pre-loader |
| `MenuShowsTheFile` | the menu's items, followed pointer by pointer, are the scripts of the file or of the editor, in their order, with their commands |
| `HighlightStaysInside` | the keys keep the highlighted item among the menu's, and its script is found |
| `BackspaceLeadsBack` | from a menu that an item's only `configfile` led to, backspace returns to the item's menu |
| `AlwaysAtABlock` | a toggle that is shown or moved stands at a block that it has |
| `PointersAlwaysLive` | what variables and toggles point to is in the store and whole, also after it was emptied; a variable that an entry names is listed |
| `MenuShowsTheBlocks` | at the menu every variable of a toggle's current block has the value the block gives it, or an entry of some block has lost its variable |
| `AgainIsFree` | a file read to its end takes no memory when it is read again, after a key or because its menu is entered again |
| `TogglesKeepTheirKeys` | a key moves its own toggle to the next of its blocks, and no other toggle, unless a trigger of the file does |

The arguments:

- `TypeCorrect`.  `TypeOK` is not inductive: `Copy` needs to know that the sectors it
  copies lie in the buffer.  `Working` adds that between the geometry check and the
  copy a track has at least one sector, that the buffer is the drive's, and that
  `bufaddr` is 0 or the offset of the sector in its track.  `biosdiskType` shows that
  an access, whatever its outcome, keeps sectors per track and heads, on which these
  rest; `GarbledType` that a failed probe at least leaves some heads.
- `GeometryAlwaysOfDrive`.  `GeometryInv` says that the geometry is the cached
  drive's, as reported or with LBA given up, except after a probe that has just
  failed.  A read cannot begin in that exception because of `Clean`, and cannot
  enter it past the geometry check, which is the second conjunct.
- `CacheAlwaysCoherent` and `DiskServed` share the invariant `Inv` of `TrackCacheProofs`.  Coherence
  between reads is not inductive: during a read the buffer may hold the end of a track at its start
  and claim the whole (`Leftover`).  `TrackInv` says that this lasts only while the read goes on behind
  that track, on the drive; `MapInv` what the last access left in the buffer (a track, its end, or
  the sectors asked for), `CopyInv` that after the mapping of sector 0 the sectors to be copied are
  those a caller is to see, `OutInv` that what was delivered is, so far, what was asked for.
  `PhysicalIsSector` shows that an address in cylinders, heads and sectors is that of the sector it
  was computed from, `InTrack` that, where a track fits the buffer, a write which leaves the buffer
  alone is outside its track (`Spared`).
- `LooksWhereItShould` and `NamesServed` share the invariant `Inv` of `DeviceMountProofs`.  What is
  mounted is the current device only at times: while drivers are exchanged and tried the two
  differ.  `Superblock` says at which places they agree again, `Place` which device is current
  there, and `Activations` that the first activation is for the device the call names and every
  further one for the root, so that returning from a nested open restores the right device.
  `Control` says which calls can be at which place.  A 16-bit micro-FSD leaves nothing to put back:
  then the two may differ after a failure, and it is the error number that keeps the driver from
  being asked.  For the refinement, `Hidden` shows that most steps are stutters and `Seen` that the
  end of a call is `Serve`, `MoveRoot` or `Fail`.
- `TwoAtMost`.  Nothing in the code counts the activations.  `Depth` is why there is no third: the
  second one has just mounted the root's drive when it opens a driver's file, so `buf_drive` is set,
  `fsys_type` is the boot driver's and the root is current, and `setup_part()` has nothing to mount.
- `FoundIfThere` rests on four more invariants over `Inv`.  `AtHome`: when the boot driver understands the
  root, then whenever the root is current it is mounted, and opening a driver's file on it takes no further
  driver; hence the file of a driver is found if it is there.  `Search`: the drivers are tried in turn and
  none that can be had and understands the call's device is passed over, so the search stops before the
  list ends; a device that a listed driver is needed for is not the root, since such drivers are had
  through the root.  `Counted` ties the driver in the buffer to the one being tried, `Steady` says that
  no call leaves behind an error number or a mark that the next careful one stumbles over.  Depth does
  not matter here: a search that overflows the stack does not return.
- `NothingIsInvented` and `NothingIsLost` are about well-formed files (`WellFormed`: a line feed ends each line, no carriage return
  stands elsewhere than before one, and the last line is not continued; section 6 has what becomes of others).  They share the invariant
  `Follows`: every state is at a `Place` of the file; the physical lines that end before it have been handed on or are
  what `str` holds (`Joined`, the definition of the logical lines cut after line k), and `s` is what lies between the last
  of these ends and the place (`At`).  `GetlineIs` is the heart: from a place within a line, `getline()` takes what is left of the
  line or, if the buffer ends before, of the buffer, and process_cfg() tells the two apart, also when the buffer ends between
  carriage return and line feed.  The lines are numbered by counting their ends, so `RankIs`, `RankGrows` and `EndsInOrder`
  show that the ends lie in order and the last one is the end of the file.  What is handed on is an initial part of all
  lines since `Joined` only ever appends (`DoneBegins`).  `Follows` also says that after a file that was processed or
  refused both arrays are empty: the next file starts with nothing.
- `ImageLoader`'s four share one invariant, `Inv`.  That nothing was overwritten is not
  inductive; `Below` is why it holds: everything named ends at or before `cur_addr`, but for the zeros, which
  may stand on it (`Under`), and every command begins writing at the next page.  `OnlyMinor` concludes that what is written
  falls on a zero at most, and only if `cur_addr` is that page.  `ModuleKeepsInv` proves the step once for
  the four ways of loading a module, which differ only in where the thing and its text
  end; `OthersKeepInv` for the commands that name nothing new.  `Unbroken` is the reason
  for `NothingBrokenBooted`: a script that fails takes the kernel's validity with it.
- `OpenFilesHandedOver`.  `HandedOver` speaks of one moment; what makes it true is the agreement
  of the handles and the notes all along: an open handle is noted at its index (`OpenIsNoted`),
  a note is of an open handle that has it as its index (`NotedIsOpen`).  Each alone is not
  inductive: closing frees the right note only because of the first, opening takes a place
  nobody else has only because of the second.  `OpenKeeps`, `CloseKeeps` and `MoveKeeps` are the three
  things a call does to a handle, `QuietKeeps` covers those that do nothing to one, `BootKeeps` the
  whole of `Os2Boot`.  From a ramdisk, `AloneIsReopened` needs that a module's name is that of a first
  module, hence that modules are numbered (`ListOfModules`), which the next invariant provides.
- `ModulesStayIntact`.  That a module is whole is not inductive: `Whole` has to hold of the list as it grows, and while
  it does, every module has to end before the page that is written next (`Below`), since
  `load_modules()` puts each file there.  What `mbi_reloc()` writes goes behind the last of the list, which
  need not be the last in memory: an edited CONFIG.SYS stays at its place in the list, and its text is behind the editor's
  tables.  `Spared` says that what is written fits before every such text.
  CONFIG.SYS is gone through by a fold; `FoldFine` shows that it keeps a state `Fine` by an
  induction over the number of lines, through the recursive function the fold is defined by, and `PartsListed` that
  the lists of files it follows are lists: load_modules() is four of them and what comes after (`Rest`), each gone through
  if none before it failed.
- `NothingStartsWithout`.  The plan is lists of some length that depends on CONFIG.SYS, and what one of its steps loads has to be there
  after all others.  `FoldMet`: a step that must succeed and is anywhere in the plan has its file in the list in the end, or the
  plan has failed, since no step takes anything out or takes a failure back (`Met`).  `FilesAsked`, `LinesAsked` and `CountsAsked` say that
  the step is in the plan for every file of every boot and every line the property is about, in one of the parts it is joined from; `LastAndFirst` finds
  the line that counts where there are several of its type.  What is found in the list is then
  either the very file (`CanBeOpened`) or elsewhere.  `Own` is the other half: what is preloaded is of the disk, and
  no module before it ends with its name, because the list was searched for it first; with parameters it was not.
  `PreInv` carries this from `Preload` to the moment os2ldr and the kernel open files.
- `ReadsAreTheFiles`.  `MuRight` is for os2ldr: what is open is a module of the list.  For the kernel,
  the variables all files share are of no use between calls: only the selector is (`Right`: an open
  file has had one).  So `FS_READ()` has to bring back position, size and place before it advances the pointer;
  `AdvanceIs` shows that this gives the selector back before it asks for one, hence always has one, and that it
  then points at the page of the position (`Points`), `ReadAtIs` that what is behind it is the file's.
  `OneFile` is the same for MFS_*, where the selector has to point there all the time.
- `CodeFits` and `TableTells` share the invariant `Inv` of `PreLoaderProofs`, which has a part for each stage of `init()`:
  until the uFSD has moved up (`Early`, `Micro`) and after (`Running`).  For what runs to call only what fits, three
  buffers have to hold the right code at once: the driver in use is the one in EXT3HIBUF, linked to the copy that runs (`Up`),
  the one saved as uFSD lies where `set_boot_fsys()` will copy it to (`Spare`), the terminal is linked if it is in use (`Good`).  Opening a file
  may exchange the driver several times before it ends, so each operator (`OpenDevice`, `set_fsys`, `open_device2`, `grub_open`,
  ...) has a lemma that says what it keeps (`Quiet`, `Keeps`, `Beside`, `Still`); the loops through drivers and directories
  are folds, gone through by `Induction`.  The move breaks it all in the middle: the code belongs to the old copy and the
  variables to the new one.  `MovedIs` and `ArrivedIs` say that nothing is called in between that the copy that runs does not fit.
  `TableTells` needs the same length at two moments: `set_addr()` makes room for os2ldr by opening it, and `set_ftable()` loads it later,
  with another driver in EXT3HIBUF perhaps, another current device and another case tried first.  `OpenIs`: what an open comes to
  depends on none of these but on the saved uFSD, the root, the list of drivers and the disk (`SpeltLength`), if the driver in use is
  one of those that the list yields (`Native`).  `High` is the arithmetic of the page the copy moves to.
- `MenuShowsTheFile`, `HighlightStaysInside` and `BackspaceLeadsBack` share the invariant `Inv` of
  `MenuProofs`.  `Chains` says that there are addresses of the scripts and of their commands, all different, whose nodes
  point at one another in order; `NthIs` and `CommandsAre` that following the pointers finds just
  these.  What is linked next while a file is read is `Ends`: `sc_prev` is the last script, but `st_prev` may be
  any command that ends its script, or one left from the file before.  If there is a script at that old
  address the write falls into it (`Strikes`), which the property excepts; if there is a string it was
  the last of its script, so nothing that is followed changes.  The editor's commands
  go behind all others, at addresses that differ because a string has a size (`AtIs`).  `Item` keeps the
  number of the highlighted item, `Return` the file to return to; `RanIs` says what a script does to the
  two names of files: nothing if it has no `configfile`, and `prev_cfg` is the file it was run from if it has one.
- `AlwaysAtABlock` and `PointersAlwaysLive` share the invariant `Inv` of `TogglesProofs`, which says of the
  memory the commands work on that it is `Good`: the texts lie side by side, variables and the used entries
  of blocks point at texts, every toggle in use stands at one of its blocks, and no toggle has
  more blocks than there is room for.  Each command keeps it, wherever it stops: only entries below
  `nr_vars` count, so one that never had a text is not looked at, and one that loses its variable keeps the text it had.  That a block begun has an entry for each
  assignment before is what the loop of `process_block()` needs.  `Grows` says that texts are never
  removed but by `EmptyStore`, which empties the toggles too.  The loops of the commands
  are recursive functions over sequences; each has a lemma that the function exists, and one that its last
  value is good, by an induction over numbers (`Induction`, from the well-foundedness of the naturals).
- `TogglesKeepTheirKeys`.  A key is looked up in the first slot that has it, so the proof needs that no two
  slots have the same key (`Unique`), which is kept because a toggle is written anew in the slot of its key.
  `Leaves` says which toggles a command may change: `toggle` the one of its key, `select` and a trigger's
  commands one named by a key, everything else none.  After the key the file is read again for its
  triggers; `Reloads` says that until this ends the commands not behind a trigger change nothing, and those
  behind the trigger of the key are what the property excepts.  That the next block is the one
  after the current one modulo their number rests on `AlwaysAtABlock`.
- `MenuShowsTheBlocks`.  What is shown at the menu is true of the memory all the time between commands: `Sound`.  To keep it, a
  command that moves a toggle has to reach the end of the block it shows.  `DoBlockShows` is why `toggle_do_block()` does:
  every variable of the block is listed already and under one number (`OneName`), so none needs room it may not
  find; and as each name stands at one place (`InPlaces`, from `OnePlace`), none later in the block undoes an earlier one.
  The others stay as they are since their variables have other names (`Allowed`, from `Apart`); `Changes` says
  which variables a command may change.  A toggle that is written anew has no blocks until the last of
  its lines has been read, hence one whose setting fails is none that is shown.  No assumption that nothing fails is needed,
  but for the entries a failure left without a variable: `Sound` speaks of the others, and `Tidy` says that a menu
  has no such entry unless drawing it met one (`wild`), as nothing but commands makes them and none runs at the menu.
- `AgainIsFree`.  That a command takes no memory the second time is true of what its first run left, not of what the
  file says: `Settled` is that a `set` whose variable is listed finds its value there (`SetDone`), and a `toggle set` whose toggle
  has a slot finds every text of its blocks at its place and every name listed (`ToggleDone`).  This holds in the middle of a
  file too, and after files that were left, since each command keeps it for all others: `Adds` says that texts stay as they are
  and what a command may list, `Others` which slots a `toggle set` leaves alone, and `Fixed` that no two commands write the same
  (`FixedOnce`).  Keys and selects take no memory at all (`Free`), since
  every variable of a block is listed.  `Left` adds that what the file has, up to the line that is read, is there (`Present`);
  after a key only triggers are processed, and the `toggle set` lines left out then are there from the reading that led to the menu.
  Nothing is said after a failure, which may leave a toggle half written and the rest of a file not run.

Only model-checked: the liveness properties (outside the prover's reach),
everything in `Partitions` and the drivers, and `BootVolumeIsKnown` of `MiniFsd`, which is about the chains of extended
partitions and the letters counted along them.  These compute with recursive functions and folds over disks and directories, and say what such a function yields.  The library's
principles of induction cannot be used with the installed provers, so each such function needs its
existence and its induction proved on its own, as `TogglesProofs`, `MenuProofs`, `PreLoaderProofs` and `MiniFsdProofs` do for the loops they meet; for the drivers and the partition
tables that would also take a theory of well-formed disks (chains without cycles, tables that agree with one another), which the runs have as examples.

## 5. Plan

Done are the modules of section 2, in the order of what goes wrong most expensively.  What
could still be added:

1. `LoopDevice`: `rawread_loop()`, `loop` and `map`, over the state of `DeviceMount` and
   `TrackCache`: the globals switched during the nested read, and left switched on an
   error.
2. `Preprocessor`: `subst_include()`, `subst_if()`, against the text they should yield.
3. `LineEditor`: the list of lines of `edit.c` under all keys.
4. `MemoryMap`: the memory map of `init_bios_info()` and `mmap_avail_at()`, against the set
   of addresses it describes.

Proofs that could be added: those named above.

## 6. Where the code disagrees with itself

Shown by a run:

- `trackcache_edge`.  A read that begins inside a track and goes on to one that the drive does not have
  fails (`dskaccess.c` 118), but leaves `buf_track` with a buffer of which only the start was read, shifted;
  a later read of that track returns what the buffer holds, without an error.
- `mount_blocks`.  Opening a block list marks the driver to be remounted; when the driver
  in the buffer mounts the next device at once, the mark stays and the open fails
  (`func.c` 496, 538).

Met while modelling, followed by the models and excepted by properties as said above:

- `rawread()` takes any sector of track 0 that looks like an EZ-Drive partition table, if a
  read starts there and goes beyond the track, for sector 0, and returns the sector after
  it (`dskaccess.c` 181-187).  A write to a drive whose BIOS track is longer than the buffer, as
  every hard disk's of today is, leaves the old sector in it unless it lies in the first virtual track of its
  BIOS track (301); the next read of it delivers the old contents.
- A last line of a configuration file without a line feed, or one that is continued, is not handed on
  and is put in front of the next file's first line (`cfgparse.c` 198).
- `rawread_loop()` that fails leaves drive, partition and slice of the file behind the loop
  (`dskaccess.c` 242).
- `print_root_device()` makes the root current without mounting it (`func.c` 153); `dir()`
  does not clear the error number (`func.c` 699).
- `open_partition_hiddensecs()` does not end for the last logical partition (`part.c` 563),
  does not ask whether the tables could be read, and takes the type of a table's first
  entry for the partition's (589).
- A read error leaves pieces of a line in `cfgparse.c`'s static arrays (163).
- A line of exactly BUFSIZE characters in a configuration file passes the checks, which count no zero, and has its
  zero written behind `linebuf`, `s` or `str` (`cfgparse.c` 127, 193-195, 218-220, 230-232).
- `ImageLoader`: the zero behind a command line is not counted in `cur_addr`
  (`boot.c` 558, 616): the next module is put over the zero of one that ends where a page does, so that the command line
  goes on with the module's text; a kernel that fails places its command line all the same, unless `--type` was given (555); ELF symbols that cannot be read set `cur_addr` to 0 (517); an ELF
  segment that is read short ends the loading without an error (425-440);
  `load_image()` looks at no memory bound; the list of modules has 256 places and no
  check (608); the editor sets `cur_addr` to 4 MiB (`loader.c` 946); the VBE flag is not
  cleared by the next kernel.
- `Toggles`: the comment "process only 'trigger' lines" (`loader.c` 353) is true of
  arguments that begin with "set" only: `set` commands run again with every key, overwrite
  a toggle's text in place or take new room each time until the store is full; the reading
  then fails, `process_what` stays, and the menu does not come back.  `toggle set` empties
  five of 24 blocks (`commands.c` 1066).  A value whose allocation failed is set through
  address 0 (373).  When `process_var()` has no room for a variable it stores -1 for
  the one the entry had (952); the entry counts if a block beyond the fifth is set again, or if its text is
  wanted again, and then `toggle_do_block()` and `toggle_print_status()` use `variable_list[-1]` (874, 826).
  `process_var()` looks whether the text at a place of a block is the one to be
  put there, and that its variable is listed, not that the text was that variable's (940-944): it is then
  not set, and keeps what it had when another line names the block's variables in another order.  The key that is left out by selects is the last one pressed in any
  menu (1117).
- `Menu`: `init_vars()` keeps `st_prev` (`loader.c` 301, 1087); `exec_cfg()`'s item is not
  initialised, so that `default` is not honoured at the first menu (1146); `configfile` is
  looked for by comparing `curr_cfg` with itself (1196), and a script that only names a file
  boots a kernel typed before; only one level of files is remembered, while
  `menu_nest_lvl` counts more, and a second `configfile` before the menu comes up
  takes its place.
- Pre-loader (`stage0_fs.c`): the name `default` is resolved in `set_addr()` only, so that
  `set_ftable(0)` before it halts; a letter is "not floppy" from the tenth on (1153); `set_ftable(0)`
  and `(1)` both read their files without looking at room; without extloader no file is read for
  os2ldr; lengths are what the stack held when an open failed, and whether it failed is not
  looked at in `set_addr()`; a large os2ldr makes the move overwrite the code that moves (1552); the
  moved copy keeps its own tag of the track buffer while the old one reads on (1616; the comment
  at `dskaccess.c` 103-106 says the buffer is read anew), which can make it take another track
  for the directory's; a micro-FSD of its own that is not found is not noticed (1996).
- Drivers.  `fsys_fat.c` marks its FAT buffer before reading and keeps the mark (505); the root directory of a FAT12 or
  FAT16 disk is told by cluster -1 when mounted and by MAXINT when read (256, 435; the comment at 443 means it to be read by its
  place), so that it is read three clusters before the data and along whatever the FAT says of -1.
  Holes: minix, ffs, ufs2 and reiserfs read them from block 0 (`fsys_minix.c` 242, `fsys_ffs.c` 147, `fsys_ufs2.c` 172,
  `fsys_reiserfs.c` 987), ext2 too where the table of their numbers is a hole itself (`fsys_ext2fs.c` 554) or they are between extents,
  whose ends are taken one block late (727); jfs goes too far when a read begins inside one
  (`fsys_jfs.c` 263), xfs skips the extent behind one (`fsys_xfs.c` 562), and both fail at the beginning and the end of a file.
  `fsys_ext2fs.c` refuses files that have the flag of huge ones and are not (1062).  hpfs goes
  up from an anode to the fnode as if that were one, so that a read over its edge delivers nothing (164), and opens
  directories (310).  jfs and xfs do not look at what `devread()` returns.  `fsys_reiserfs.c` keeps
  a node's number after its reading failed (731), against the comment of `journal_init`.
  `fsys_ntfs.c` tells the block it keeps by its cluster alone, without `vcn_offset` (888, 940), and
  delivers zeros for a chunk that cannot be read.  After an error `dir()` and reads give
  nothing until the next open clears it (`func.c` 699).  Not on the disks of the run: iso9660 counts a partition's
  end in its own blocks; ufs2's directories of 16 KiB fall on the superblock.
- Preloading: whether a file of CONFIG.SYS is a module already is asked with its parameters still behind the name (`cfgsys.c`
  120; they are cut off at 126), against the comment at 117: a file that is there is loaded a second time and takes room, and
  it is the first that is opened.  Whether CONFIG.SYS has a line COUNTRY, DEVINFO=KBD, DEVINFO=SCR, IFS or PROTSHELL is not
  asked: without it the text at address 0 is taken for its value (295-328, 358, 368), and whether the boot fails depends on what is
  there: the empty text counts as loaded already, since it occurs in every name, and any other is a file
  that is looked for.  Without an IFS line no DEVICE line is before the first one (377), and none is preloaded.
- OS/2: the mini-FSD's letter is that of the first of `--drv` and `--drv2`, because `--drv` is also found
  in `--drv2`; `drv.c` walks a chain that leads back for ever, takes the last of two extended
  partitions for counting and the first for places, and reads a primary partition's boot sector
  as a table for its place (262).  A name within another module's command line is not preloaded,
  one of the root directory is loaded as `//name` and not found again.  `FS_OPENCREATE()` takes one
  place more than there is (`fs_all.c` 447: "if too many open files -- panic"); every open takes
  two selectors that are not given back; `MFS_CLOSE()` gives back two by numbers it keeps.
  `MFS_TERM()` reopens, from a ramdisk, the first handle of a file only, and no drive (`mfs.c` 952:
  "reopen by an IFS all files open by minifsd").

## 7. What is not modelled

- Loop drives, the preprocessor, the line editor's keys and the memory map: possible, and
  left for later (section 5).
- `fsys_vstafs.c`, whose listing fails on every disk, `fsys_ntfs1.c`, another NTFS driver, and embedding
  of boot code by the drivers.
- The micro-FSD's own sector reader, zip and PXE readers: protocols of other programs.
- Kernel loaders for chain loading and Linux (`loader/kernels/chainc.c`, `linuxc.c`): they prepare one
  jump from formats that other systems define.
- Terminals, the command line, the layout of menus: nothing that is decided there is kept.
- Boot sectors: assembly that loads what follows, without state.
- `freeinst` and `util/fat`: programs of their own on another system.
- Inside the modelled parts: bytes within a sector, texts beyond what properties tell apart,
  the parsing of device names, ELF and multiboot headers (which only succeed or fail), VBE
  modes, the LVM tables outside `DriveLetters`, printing.
- Of `cfgsys.c` and its parser: what `preload_module()` writes when it turns the text at address 0 to lower case; COUNTRY and
  DEVINFO lines without their commas, a VIDEO list without its parenthesis (401-417 then never ends), "." as a path's last directory,
  a CONFIG.SYS without LIBPATH, more lines of a type than its array has places (`cfgparsr.c` 58-65), and lines that end in a line
  feed only, which become one (617).
- Of the drivers: ext4 disks of 64 bits, "grub not supported" (`fsys_ext2fs.c` 249), on which no file is opened (918).
- Hardware: a BIOS call is atomic and either does what it should or fails.
