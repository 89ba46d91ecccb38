----------------------------- MODULE PreLoader -----------------------------
(***************************************************************************)
(* preldr/stage0_fs.c: how the pre-loader starts.  init() reads            *)
(* preldr.ini, moves the boot drive's file-system driver (uFSD) up, loads a *)
(* terminal, loads the loader and calls it; when the loader comes back, the *)
(* pre-loader moves itself out of OS/2's way and offers os2ldr a micro-FSD. *)
(*                                                                         *)
(* Drivers and terminals are "blackboxes": code that works where it has    *)
(* been relocated for, and calls the copy of the pre-loader it was linked  *)
(* to.  `at` tells what code each buffer holds; there are two copies of the *)
(* pre-loader's variables once it has moved, "low" and "high", and one     *)
(* track buffer.  Every call of a blackbox is noted in `called`.           *)
(* Addresses and lengths are in units of 128 bytes, memory in KiB.         *)
(***************************************************************************)
EXTENDS Integers, Sequences, FiniteSets, SequencesExt

CONSTANTS
  Inis,      \* what preldr.ini may say: a set of sequences of lines
  Files,     \* [device, dir, name, rel, case] -> length, of every file
  Mountable, \* <<driver, device>>: the driver understands the device
  BootDevice, BootDriver,
  MemLower,  \* mbi.mem_lower, what init_bios_info() finds
  Starters,  \* whether a 16-bit micro-FSD has started the pre-loader: TRUE, FALSE
  Requests,  \* names the loader and os2ldr open
  Serials,   \* terminals the loader asks for
  PrefixesGiven, LdrLens,  \* what the os2ldr command may be given
  MaxRequests,
  None

VARIABLES
  pc,        \* the place in init()
  conf,      \* the structure conf, and `section` of process_cfg_line1()
  m,         \* the machine, see Init
  ft,        \* the file table of OS/2's boot protocol
  requests   \* made by the loader or os2ldr

pvars == <<pc, conf, m, ft, requests>>

PREFERRED_BASE == 2944  \* 0x5c000
LowSize == 316          \* preldr_size in set_addr()
EXT_BUF_BASE == 3708    \* 0x73e00, the end of the copy that runs first
PAGE == 32
Room(len) == len + 37 + 32   \* os2ldr, its stack and the arena info

\* UFSD_BASE is EXT1HIBUF_BASE, TERM_BASE is EXT2HIBUF_BASE.
Buffers == {"EXT_BUF", "UFSD", "TERM", "EXT3HI"}

---------------------------------------------------------------------------
(* process_cfg_line1()                                                     *)

Name(dir, n) == [dev |-> None, rooted |-> TRUE, dir |-> dir, name |-> n, rel |-> FALSE, case |-> "low"]
Preldr == <<"boot", "loader">>

Defaults ==
  [driveletter |-> 128, multiboot |-> 2, root |-> 0, microfsd |-> 0, ignorecase |-> 0, fsys_list |-> <<>>,
   term_list |-> <<>>, default |-> 0, section |-> "none",
   loader |-> [name |-> Name(Preldr, "freeldr.mdl"), base |-> 1024],
   extloader |-> [name |-> Name(<<>>, "os2ldr"), base |-> 512],
   mini |-> [name |-> Name(<<>>, "os2boot"), base |-> 15]]

YesOrOn(v) == IF v \in {"yes", "on"} THEN 1 ELSE 0

\* Letters are counted from a; "not floppy" is said of those from j on.
DriveNumber(letter) == IF letter > 8 THEN letter - 2 + 128 ELSE letter

\* What sections say of files; no mini-FSD is named "none".
FileSetting(c, key, v) ==
  IF c.section \in {"loader", "extloader", "minifsd"} /\ key \in {"name", "base"}
  THEN [c EXCEPT ![IF c.section = "minifsd" THEN "mini" ELSE c.section][key] = v] ELSE c

\* A key's line: it counts in its own section only.
Setting(c, key, v) ==
  CASE c.section = "global" /\ key = "driveletter" -> [c EXCEPT !.driveletter = DriveNumber(v)]
    [] c.section = "global" /\ key = "multiboot" ->
         [c EXCEPT !.multiboot = IF YesOrOn(v) = 1 THEN 1 ELSE IF v = "ask" THEN 2 ELSE 0]
    [] c.section = "global" /\ key = "root" -> [c EXCEPT !.root = YesOrOn(v)]
    [] c.section = "microfsd" /\ key = "list" -> [c EXCEPT !.fsys_list = v]
    [] c.section = "microfsd" /\ key = "ignorecase" -> [c EXCEPT !.ignorecase = YesOrOn(v)]
    [] c.section = "microfsd" /\ key = "microfsd" -> [c EXCEPT !.microfsd = IF v = "own" THEN 1 ELSE 0]
    [] c.section = "term" /\ key = "list" -> [c EXCEPT !.term_list = v]
    [] c.section = "term" /\ key = "default" -> [c EXCEPT !.default = v]
    [] OTHER -> FileSetting(c, key, v)

process_cfg_line1(c, line) ==
  IF line.key = "section" THEN [c EXCEPT !.section = line.value] ELSE Setting(c, line.key, line.value)

---------------------------------------------------------------------------
(* What is assumed of the disk and of preldr.ini.                          *)

Configurations == {FoldLeft(process_cfg_line1, Defaults, ini) : ini \in Inis}

IsName(f) == DOMAIN f = {"dev", "rooted", "dir", "name", "rel", "case"} /\ Len(f.dir) \in Nat

IsConfiguration(c) ==
  /\ DOMAIN c = DOMAIN Defaults
  /\ \A part \in {"loader", "extloader", "mini"} :
       DOMAIN c[part] = {"name", "base"} /\ (c[part].name = None \/ IsName(c[part].name))
  /\ c.fsys_list \in Seq(STRING) /\ c.term_list \in Seq(STRING)

Codes == [code : STRING, base : Buffers, lip : {"low", "high", None}]

ASSUME ConstantsAssumption ==
  /\ \A c \in Configurations : IsConfiguration(c) /\ c.default + 1 \in DOMAIN c.term_list
  /\ \A f \in Requests : IsName(f)
  /\ Serials \subseteq Nat /\ Starters \subseteq BOOLEAN
  /\ BootDriver \in STRING
  /\ PrefixesGiven \subseteq STRING /\ LdrLens \subseteq Nat
  /\ None \notin Codes \cup {Name(<<>>, "preldr.ini"), Name(Preldr, "preldr.ini")}
  /\ \A f \in DOMAIN Files : Files[f] \in Nat
  /\ MemLower \in Nat /\ MaxRequests \in Nat

---------------------------------------------------------------------------
(* Calling blackboxes and reading files.  The operators from here on take  *)
(* the machine k and give the machine after it.                            *)

\* The variables of the copy that runs.
Of(k) == k.v[k.me]

\* A call of the code in a buffer: what the buffer holds and who calls.
Call(k, buffer, why) ==
  [k EXCEPT !.called = @ \cup {[buffer |-> buffer, holds |-> k.at[buffer], by |-> k.me, why |-> why]}]

Say(k) == IF Of(k).use_term THEN Call(k, "TERM", "putchar") ELSE k

\* A blackbox's init function notes where the pre-loader's functions are.
Linked(k, buffer) == IF k.at[buffer] = None THEN k ELSE [k EXCEPT !.at[buffer].lip = k.me]
fsd_init(k, buffer) == [Linked(Call(k, buffer, "init"), buffer) EXCEPT !.v[k.me].fs = buffer]

Copied(k, to, from) == [k EXCEPT !.at[to] = k.at[from]]

\* rawread() through the track buffer, whose track the running copy notes.
Disk(k, track) ==
  IF Of(k).tag = track THEN [k EXCEPT !.misread = @ \/ k.buffer # track]
  ELSE [k EXCEPT !.v[k.me].tag = track, !.buffer = track]

\* open_device(): the driver in use looks at the device.
OpenDevice(k) ==
  LET code == k.at[Of(k).fs] IN
  [Disk(Call(k, Of(k).fs, "mount"), <<k.cur>>) EXCEPT
     !.mounted = code # None /\ <<code.code, k.cur>> \in Mountable]

\* The saved uFSD is called where it has been saved.
set_boot_fsysInPlace(k) == fsd_init([k EXCEPT !.at["EXT3HI"] = k.at["UFSD"], !.v[k.me].fs = "UFSD"], "UFSD")

set_boot_fsys(k) == fsd_init(Copied(k, "EXT3HI", "UFSD"), "EXT3HI")

\* The driver's dir function goes through the directories.
Walked(k, dir) == FoldLeft(LAMBDA a, i : Disk(a, <<k.cur, SubSeq(dir, 1, i - 1)>>), Call(k, Of(k).fs, "dir"),
                           [i \in 1 .. Len(dir) + 1 |-> i])

Key(dev, f) == [dev |-> dev, dir |-> f.dir, name |-> f.name, rel |-> f.rel, case |-> f.case]

\* The length stays what the driver made it when the file is not found.
Noted(k, f) == IF f \in DOMAIN Files THEN [k EXCEPT !.ok = TRUE, !.filemax = Files[f], !.open = f] ELSE [k EXCEPT !.ok = FALSE, !.filemax = None]
Dir(k, f) == Noted(Walked(k, f.dir), Key(k.cur, f))

\* A micro-FSD of 16 bits has the boot device's files and does not look at case.
MuFiles(f) == {g \in DOMAIN Files : [g EXCEPT !.case = f.case] = Key(BootDevice, f)}
MuOpen(k, f) ==
  IF MuFiles(f) = {} THEN [k EXCEPT !.ok = FALSE, !.filemax = 0]
  ELSE LET g == CHOOSE g \in MuFiles(f) : TRUE IN [k EXCEPT !.ok = TRUE, !.filemax = Files[g], !.open = g]

freeldr_read(k) ==
  IF k.filetab \/ k.open = None THEN k ELSE Disk(Call(k, Of(k).fs, "read"), <<k.open.dev, k.open.dir, k.open.name, k.open.rel>>)

\* A file of the pre-loader's own, on the root device.
OpenOwn(k, f) ==
  LET there == IF k.cur = k.saved THEN [k EXCEPT !.mounted = TRUE] ELSE OpenDevice([k EXCEPT !.cur = k.saved])
  IN IF k.filetab THEN MuOpen(k, f)
     ELSE IF there.mounted THEN Dir(there, f) ELSE [there EXCEPT !.ok = FALSE]

RelOf(f) == [f EXCEPT !.rel = TRUE]

\* reloc(): without the .rel file the code stays as it is; panic() halts.
RelocatedFor(k, buffer) ==
  IF k.ok THEN [freeldr_read(k) EXCEPT !.at[buffer].base = buffer] ELSE [k EXCEPT !.panic = TRUE]
reloc(k, buffer, f) == RelocatedFor(OpenOwn(k, RelOf(f)), buffer)

\* set_fsys(): the boot driver fetches another one.  It is read to EXT4HIBUF
\* and relocated there for EXT3HIBUF.
Fetched(k, f) ==
  IF ~k.ok THEN k
  ELSE LET r == OpenOwn(freeldr_read(k), RelOf(f))
       IN IF ~r.ok THEN [r EXCEPT !.panic = TRUE]
          ELSE Say(fsd_init([freeldr_read(r) EXCEPT !.at["EXT3HI"] = [code |-> f.name, base |-> "EXT3HI", lip |-> None]], "EXT3HI"))

FsysFile(driver) == Name(Preldr \o <<"fsd">>, driver)

\* The boot driver understands its disk.  Where one of our own is asked for in
\* place of a micro-FSD of 16 bits, there is one (init() does not look).
ASSUME BootAssumption ==
  /\ <<BootDriver, BootDevice>> \in Mountable
  /\ TRUE \in Starters => \A c \in Configurations :
       c.microfsd = 1 => \E i \in DOMAIN c.fsys_list : MuFiles(FsysFile(c.fsys_list[i])) # {}

set_fsys(k, driver) == Fetched(OpenOwn(IF k.filetab THEN k ELSE set_boot_fsys(k), FsysFile(driver)), FsysFile(driver))

\* open_device2(): the driver in use, the boot one, then those listed.
Tried(k, dev) == IF k.ok THEN OpenDevice([k EXCEPT !.cur = dev]) ELSE [k EXCEPT !.mounted = FALSE]
ListedTried(k, dev) ==
  FoldLeft(LAMBDA a, driver : IF a.mounted \/ a.panic THEN a ELSE Tried(set_fsys(a, driver), dev), k, conf.fsys_list)
BootTried(k) == IF k.mounted THEN k ELSE OpenDevice(set_boot_fsys(k))
open_device2(k) == ListedTried(IF k.filetab THEN [k EXCEPT !.mounted = FALSE] ELSE BootTried(OpenDevice(k)), k.cur)

\* setup_part(): a device that is named is mounted, another than the root never
\* stays.
Setup(k, dev) ==
  IF dev # None THEN open_device2([k EXCEPT !.cur = dev])
  ELSE IF k.saved # k.cur \/ Of(k).tag = None THEN open_device2([k EXCEPT !.cur = k.saved])
  ELSE [k EXCEPT !.mounted = TRUE]

InDir(k, f) == IF k.mounted THEN Dir(k, f) ELSE [k EXCEPT !.ok = FALSE, !.filemax = 0]
grub_open(k, f) == InDir(Setup(k, f.dev), f)

\* redir_file(): names without a directory, of the list.
Redirected(k, f) ==
  IF k.prefix # None /\ ~f.rooted /\ f.dir = <<>> /\ f.name \in {"os2ldr", "os2krnl"}
  THEN [f EXCEPT !.dir = <<k.prefix>>, !.rooted = TRUE] ELSE f

Retried(k, f, case) == IF k.ok \/ conf.ignorecase = 0 THEN k ELSE grub_open(k, [f EXCEPT !.case = case])
Spelled(k, f) == Retried(Retried(grub_open(k, f), f, "up"), f, "low")

\* The empty name asks for the root device, which succeeds.
freeldr_open(k, f) ==
  IF f = None THEN [k EXCEPT !.ok = TRUE, !.filemax = 0, !.open = None]
  ELSE IF k.filetab THEN MuOpen(k, f)
  ELSE Spelled(k, Redirected(k, f))

---------------------------------------------------------------------------
(* blackbox_load() and u_termctl()                                         *)

TermFile(c, n) == Name(Preldr \o <<"term">>, c.term_list[n + 1])

\* Only those of serial ports and graphics ask to be started.
Started(k, name) == IF name \in {"serial", "graphics"} THEN Call(k, "TERM", "startup") ELSE k

blackbox_load(k, f) ==
  IF ~k.ok THEN [k EXCEPT !.panic = TRUE]
  ELSE LET r == reloc([freeldr_read(k) EXCEPT !.at["TERM"] = [code |-> f.name, base |-> "EXT_BUF", lip |-> None]], "TERM", f)
       IN IF r.panic THEN r ELSE Linked(Call(r, "TERM", "init"), "TERM")

u_termctl(k, n) ==
  LET f == TermFile(conf, n)
      r == blackbox_load(freeldr_open(k, f), f)
  IN IF r.panic THEN r ELSE Started(Say(r), f.name)

---------------------------------------------------------------------------
(* set_ftable()                                                            *)

\* A file is read to its base, or the machine halts.
ReadTo(k, what, base) ==
  IF k.ok THEN [freeldr_read(k) EXCEPT !.loaded[what] = [file |-> k.open, base |-> base, len |-> k.filemax]]
  ELSE [k EXCEPT !.panic = TRUE]

MiniTo(k) == IF k.panic \/ conf.mini.name = None THEN k ELSE ReadTo(freeldr_open(k, conf.mini.name), "mini", conf.mini.base)

\* Both files are read; which is 0 for `loader`, else for `extloader`.
Read(k, which) ==
  LET l == IF which = 0 THEN conf.loader ELSE conf.extloader
  IN MiniTo(ReadTo(freeldr_open(k, l.name), "loader", l.base))

\* The table tells where the parts of the pre-loader ran first.
TableOfTheFirst(k, which) ==
  [files |-> IF conf.mini.name = None THEN 2 ELSE 3, minifsd |-> conf.mini.name # None,
   ldrseg |-> IF which = 0 THEN conf.loader.base ELSE conf.extloader.base, ldrlen |-> k.loaded["loader"].len,
   mfsseg |-> conf.mini.base, mfslen |-> IF conf.mini.name = None THEN None ELSE k.loaded["mini"].len,
   museg |-> PREFERRED_BASE, mulen |-> LowSize, entries |-> Of(k).stage0, log_drive |-> conf.driveletter]

\* Without a mini-FSD its length is what the stack held.
Table(k, which) ==
  [files |-> IF conf.mini.name = None THEN 2 ELSE 3, minifsd |-> conf.mini.name # None,
   ldrseg |-> IF which = 0 THEN conf.loader.base ELSE conf.extloader.base, ldrlen |-> k.loaded["loader"].len,
   mfsseg |-> conf.mini.base, mfslen |-> IF conf.mini.name = None THEN None ELSE k.loaded["mini"].len,
   museg |-> Of(k).scratch, mulen |-> LowSize, entries |-> Of(k).stage0, log_drive |-> conf.driveletter]

---------------------------------------------------------------------------
(* init() and set_addr()                                                   *)

STAGE0_BASE == 3196   \* 0x63e00

Init ==
  /\ pc = "begin" /\ conf = Defaults /\ ft = None /\ requests = 0
  /\ \E micro \in Starters :
       m = [me |-> "low", micro |-> micro, filetab |-> micro,
            at |-> [b \in Buffers |-> IF b = "EXT_BUF" /\ ~micro THEN [code |-> BootDriver, base |-> "EXT_BUF", lip |-> None] ELSE None],
            v |-> [c \in {"low", "high"} |->
                     [fs |-> "EXT_BUF", use_term |-> FALSE, tag |-> None, scratch |-> PREFERRED_BASE, stage0 |-> STAGE0_BASE]],
            cur |-> None, saved |-> BootDevice, mounted |-> FALSE, ok |-> FALSE, filemax |-> 0, open |-> None,
            buffer |-> None, misread |-> FALSE, panic |-> FALSE, called |-> {}, prefix |-> None, ldrlen |-> 0, given |-> FALSE,
            loaded |-> [f \in {"loader", "mini"} |-> None]]

\* One step of init(): k is the machine after it, and panic() ends it all.
Goes(from, to, k) == pc = from /\ m' = k /\ pc' = IF k.panic THEN "panic" ELSE to

Fresh == [m EXCEPT !.called = {}]

Begin ==
  /\ Goes("begin", "configure", IF m.filetab THEN m ELSE fsd_init(m, "EXT_BUF"))
  /\ UNCHANGED <<conf, ft, requests>>

CfgFile == Name(IF m.filetab THEN <<>> ELSE Preldr, "preldr.ini")

Configure ==
  /\ LET o == freeldr_open(Fresh, CfgFile) IN Goes("configure", "backup", IF o.ok THEN freeldr_read(o) ELSE [o EXCEPT !.panic = TRUE])
  /\ conf' \in {FoldLeft(process_cfg_line1, conf, ini) : ini \in Inis}
  /\ UNCHANGED <<ft, requests>>

\* Our own micro-FSD in place of the one of 16 bits is looked for among those
\* listed; whether one is found is not looked at.
Own(k) == IF k.filetab /\ conf.microfsd = 1 THEN Copied(open_device2([k EXCEPT !.cur = BootDevice]), "UFSD", "EXT3HI")
          ELSE Copied(k, "UFSD", "EXT_BUF")

Backup ==
  /\ LET k == Own(Fresh) IN Goes("backup", "place", [k EXCEPT !.saved = k.cur])
  /\ UNCHANGED <<conf, ft, requests>>

DriverRel == Name(IF conf.root = 1 THEN <<>> ELSE Preldr \o <<"fsd">>, BootDriver)

\* The uFSD is saved before it is relocated and not again.
PlaceSavedOnce(k) == fsd_init(reloc(Copied(k, "EXT3HI", "EXT_BUF"), "EXT3HI", DriverRel), "EXT3HI")

\* The uFSD moves up; the copy that was saved is replaced by the relocated one.
Place(k) ==
  LET r == reloc(Copied(k, "EXT3HI", "EXT_BUF"), "EXT3HI", DriverRel)
  IN IF r.panic THEN r ELSE Copied(fsd_init(r, "EXT3HI"), "UFSD", "EXT3HI")

MoveDriver ==
  /\ Goes("place", "terminal", IF ~m.filetab THEN Place(Fresh)
                               ELSE IF conf.microfsd = 1 THEN [Fresh EXCEPT !.filetab = FALSE] ELSE Fresh)
  /\ UNCHANGED <<conf, ft, requests>>

WithTerm(k) == IF k.panic THEN k ELSE [k EXCEPT !.v[k.me].use_term = TRUE]

init_term ==
  /\ Goes("terminal", IF m.me = "low" THEN "table" ELSE "os2table", WithTerm(u_termctl(Fresh, conf.default)))
  /\ UNCHANGED <<conf, ft, requests>>

\* The loader is called with multiboot = yes only.
LoaderTable ==
  /\ LET k == Read(Fresh, 0) IN
       /\ Goes("table", IF conf.multiboot = 1 THEN "loader" ELSE "leave", Say(k))
       /\ ft' = IF k.panic THEN ft ELSE Table(k, 0)
  /\ UNCHANGED <<conf, requests>>

Asked == requests < MaxRequests /\ requests' = requests + 1 /\ UNCHANGED <<conf, ft>>

\* u_open() and u_read() for the loader, and then for os2ldr.
u_open ==
  /\ Asked /\ pc \in {"loader", "os2"}
  /\ \E f \in Requests :
       (pc = "os2" => f.dev = None) /\ LET o == freeldr_open(Fresh, f) IN Goes(pc, pc, IF o.ok THEN freeldr_read(o) ELSE o)

u_term == Asked /\ \E n \in Serials : n < Len(conf.term_list) /\ Goes("loader", "loader", u_termctl(Fresh, n))

\* u_parm(): the parameters the loader sets and init() uses later.
u_parm ==
  /\ Asked
  /\ \/ \E prefix \in PrefixesGiven : Goes("loader", "loader", [Fresh EXCEPT !.prefix = prefix])
     \/ \E n \in LdrLens : Goes("loader", "loader", [Fresh EXCEPT !.ldrlen = n, !.given = TRUE])
     \/ Goes("loader", "loader", [Fresh EXCEPT !.v[m.me].tag = None])   \* PARM_BUF_DRIVE

LoaderReturns == Goes("loader", "leave", Fresh) /\ UNCHANGED <<conf, ft, requests>>

\* A micro-FSD of 16 bits serves os2ldr itself.
Leave16 ==
  /\ m.micro /\ Goes("leave", "os2micro", [Read(Fresh, 2) EXCEPT !.filetab = TRUE])
  /\ UNCHANGED <<conf, ft, requests>>

Default == Name(<<>>, "default")
LoaderName == IF conf.loader.name # Default THEN conf.loader.name
              ELSE Name(IF conf.multiboot # 0 THEN Preldr ELSE <<>>, IF conf.multiboot # 0 THEN "freeldr.mdl" ELSE "os2ldr")

\* What lies below os2ldr when it has moved to the top of low memory.
Pages(k) == IF k.ldrlen # 0 THEN k.ldrlen ELSE (Room(k.filemax) + PAGE - 1) \div PAGE
LdrBase(k) == IF conf.multiboot = 0 \/ conf.extloader.name # None
              THEN ((MemLower \div 4) - Pages(k)) * PAGE ELSE MemLower * 8

\* The lower part moves there and the upper part to PRELDR_BASE, with what the
\* variables are then.  The old copy reads the .rel file of the new one.
Moved(k, shift) ==
  LET low == [Of(k) EXCEPT !.scratch = @ + shift]
      twice == Say([k EXCEPT !.v["low"] = low, !.v["high"] = low])
      r == OpenOwn([twice EXCEPT !.v["low"].use_term = FALSE], Name(Preldr, "preldr0"))
  IN IF r.ok THEN [freeldr_read(r) EXCEPT !.me = "high"] ELSE [r EXCEPT !.panic = TRUE]

Arrived(k, shift) == fsd_init([k EXCEPT !.v["high"].use_term = FALSE, !.v["high"].stage0 = @ + shift], "EXT3HI")

\* Where the code that does this would be overwritten.
Overwrites(base) == base - LowSize < EXT_BUF_BASE /\ base > STAGE0_BASE

\* Whether the file was found is not looked at.
set_addr ==
  LET o == freeldr_open(Fresh, IF conf.extloader.name # None THEN conf.extloader.name ELSE LoaderName)
      shift == LdrBase(o) - (PREFERRED_BASE + LowSize)
      k == Moved(Say([o EXCEPT !.ldrlen = Pages(o)]), shift)
  IN /\ pc = "leave" /\ ~m.micro
     /\ IF o.panic THEN Goes("leave", "panic", o)
        ELSE IF (o.ldrlen = 0 /\ o.filemax = None) \/ Overwrites(LdrBase(o)) THEN pc' = "lost" /\ m' = o
        ELSE Goes("leave", "terminal", IF k.panic THEN k ELSE Arrived(k, shift))
     /\ conf' = [conf EXCEPT !.loader.name = LoaderName]
     /\ UNCHANGED <<ft, requests>>

Os2Table ==
  /\ LET k == Read(Fresh, 1) IN Goes("os2table", "os2", k) /\ ft' = IF k.panic THEN ft ELSE Table(k, 1)
  /\ UNCHANGED <<conf, requests>>

Next ==
  \/ Begin \/ Configure \/ Backup \/ MoveDriver \/ init_term \/ LoaderTable
  \/ u_open \/ u_term \/ u_parm \/ LoaderReturns \/ Leave16 \/ set_addr \/ Os2Table

Spec == Init /\ [][Next]_pvars

---------------------------------------------------------------------------

\* What the machine can be.
TypeOK ==
  /\ pc \in {"begin", "configure", "backup", "place", "terminal", "table", "loader", "leave", "os2table",
             "os2", "os2micro", "panic", "lost"}
  /\ m.me \in {"low", "high"} /\ m.panic = (pc = "panic")
  /\ \A b \in Buffers : m.at[b] # None => m.at[b].base \in Buffers /\ m.at[b].lip \in {"low", "high", None}
  /\ \A c \in {"low", "high"} : m.v[c].fs \in {"EXT_BUF", "EXT3HI"}
  /\ requests \in 0..MaxRequests

\* Whatever code is called, a driver or a terminal, is in its buffer, lies where
\* it was relocated for and calls back the copy of the pre-loader that runs.
CalledCodeFits ==
  \A c \in m.called : /\ c.holds # None /\ c.holds.base = c.buffer
                      /\ c.why # "init" => c.holds.lip = c.by

\* os2ldr is given what has been loaded, entry points in the part of the
\* pre-loader below it, and room to move up.  (Sectors of another track may be
\* taken for the directory's after the move: what is found then is not
\* promised.)
TableIsTrue ==
  pc = "os2" /\ ~m.misread /\ conf.extloader.name # None =>
    /\ ft.ldrseg = m.loaded["loader"].base /\ ft.ldrlen = m.loaded["loader"].len
    /\ m.loaded["loader"].file.name = conf.extloader.name.name
    /\ ft.minifsd => ft.mfsseg = m.loaded["mini"].base /\ ft.mfslen = m.loaded["mini"].len
    /\ ft.museg = Of(m).scratch /\ ft.entries \in ft.museg .. ft.museg + ft.mulen - 1
    /\ m.given \/ ft.museg + ft.mulen + Room(ft.ldrlen) <= MemLower * 8
===========================================================================
