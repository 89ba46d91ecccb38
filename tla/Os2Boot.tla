------------------------------ MODULE Os2Boot ------------------------------
(***************************************************************************)
(* The OS/2 kernel loader as a multiboot kernel: bootos2.c puts the MBI    *)
(* micro-FSD in high memory, the micro-FSD (ufsd/ufsdc.c) settles the boot *)
(* volume's drive letters, has CONFIG.SYS patched, edited and the files it *)
(* names preloaded (cfgsys.c), and starts os2ldr, which opens and reads    *)
(* the modules through it (ufsd/mbifunc.c, ufsd/filesys.asm).              *)
(*                                                                         *)
(* A name is <<directory, base>>; a module's command line is a sequence of *)
(* names.  Memory is a sequence of pages, each with what was last written  *)
(* to it and which page of that it is; a module takes one page per unit of *)
(* length, and the string that follows it fits into its last page.         *)
(***************************************************************************)
EXTENDS DriveLetters

CONSTANTS
  Boots,       \* what may be booted, and how many selectors can be had (see MC_Os2)
  TablePages,  \* MAX_LINES * sizeof(struct line)
  MbiPages,    \* what mbi_reloc() writes
  MaxMu        \* bound of what os2ldr asks the micro-FSD

VARIABLES
  at,        \* the place reached
  boot,      \* what is booted
  mods,      \* the list of modules: words, first page and length
  mem,       \* page -> what it holds
  cur_addr,  \* the next page, in the loader and in cfgsys.c
  letters,   \* drvletter, drvletter2
  config,    \* the lines of CONFIG.SYS
  table,     \* the file table and the BPB os2ldr is given
  mu         \* the micro-FSD's file, its position, and what was last read

bvars == <<at, boot, mods, mem, cur_addr, letters, config, table, mu>>

Lowest(S) == CHOOSE i \in S : \A j \in S : i <= j

ConfigSys == <<"", "config.sys">>
Star == 0 - 23  \* '*'

Page(p) == IF p \in DOMAIN mem THEN mem[p] ELSE None
Pages(first, n) == first..(first + n - 1)
Written(memory, first, n, what) ==
  [p \in Pages(first, n) \cup DOMAIN memory |-> IF p \in Pages(first, n) THEN <<what, p - first>> ELSE memory[p]]
Mbi == <<"loader", "mbi">>
Tables == <<"loader", "tables">>
ModEnd(mod) == mod.start + mod.pages

\* Modules are loaded one behind another, and there is one; each has a name.  The text of config.sys takes a
\* page, and what mbi_reloc() writes fits into the room of the editor's tables.  What is read at
\* address 0 has no parameters.
ASSUME BootsAssumption ==
  \A b \in Boots :
    /\ b.modules \in Seq(ToSet(b.modules)) \ {<<>>} /\ b.config \in Seq(ToSet(b.config))
    /\ b.libpath \in Seq(ToSet(b.libpath)) /\ b.dpath \in Seq(ToSet(b.dpath)) /\ b.codepages \in Seq(ToSet(b.codepages))
    /\ \A type \in {"COUNTRY", "KBD", "SCR", "PROTSHELL", "IFS"} : ~b.zero[type].args
    /\ \A i \in DOMAIN b.modules :
         LET mod == b.modules[i] IN
         /\ mod = [words |-> mod.words, pages |-> mod.pages, start |-> mod.start]
         /\ mod.start \in Nat /\ mod.pages \in Nat /\ mod.words \in Seq(ToSet(mod.words)) \ {<<>>}
         /\ ConfigSys \in ToSet(mod.words) => Last(mod.words) = ConfigSys /\ mod.pages = 1
         /\ \A j \in 1..(i - 1) : ModEnd(b.modules[j]) <= mod.start
ASSUME PagesAssumption == TablePages \in Nat /\ MbiPages \in Nat /\ MbiPages <= TablePages

---------------------------------------------------------------------------
(* bootos2.c: options, and the micro-FSD's place.                          *)

\* The modules where they were loaded.
ModuleAt(list, p) == CHOOSE mod \in ToSet(list) : p \in Pages(mod.start, mod.pages)
MemoryOf(list) ==
  [p \in UNION {Pages(mod.start, mod.pages) : mod \in ToSet(list)} |->
     <<Last(ModuleAt(list, p).words), p - ModuleAt(list, p).start>>]

Init ==
  /\ boot \in Boots
  /\ at = "start"
  /\ mods = boot.modules
  /\ mem = MemoryOf(boot.modules)
  /\ cur_addr = ModEnd(Last(mods))
  /\ letters = [drv |-> 0 - 65, drv2 |-> 0 - 65]
  /\ config = boot.config
  /\ table = None
  /\ mu = [open |-> None, pos |-> 0, got |-> None, asked |-> 0]

bootos2_cmain ==
  /\ at = "start"
  /\ at' = "letters"
  /\ UNCHANGED <<boot, mods, mem, cur_addr, letters, config, table, mu>>

---------------------------------------------------------------------------
(* ufsd/ufsdc.c: --drv and --drv2.                                         *)

ModeOf(key) ==
  IF \E i \in DOMAIN boot.modes : boot.modes[i].key = key
  THEN boot.modes[CHOOSE i \in DOMAIN boot.modes : boot.modes[i].key = key].mode
  ELSE [kind |-> "none", first |-> 0 - 65]

\* The letter --drv gives is kept when the other one is found out.
LettersUnshifted(mode, mode2, auto) ==
  IF mode2.kind = "auto" THEN [drv |-> mode.first, drv2 |-> auto]
  ELSE [drv |-> assign_drvletter(mode, boot), drv2 |-> letters.drv2]

Letters(mode, mode2, auto) ==
  IF mode2.kind = "auto"
  THEN IF mode.kind = "auto" THEN [drv |-> auto + 1, drv2 |-> auto]
       ELSE [drv |-> mode.first, drv2 |-> IF mode.first <= auto THEN auto + 1 ELSE auto]
  ELSE [drv |-> assign_drvletter(mode, boot),
        drv2 |-> IF mode2.kind = "none" THEN letters.drv2 ELSE assign_drvletter(mode2, boot)]

AssignLetters ==
  /\ at = "letters"
  /\ letters' = Letters(ModeOf("drv"), ModeOf("drv2"), assign_auto(boot.disks, boot.boot.number, boot.types))
  /\ at' = "patch"
  /\ UNCHANGED <<boot, mods, mem, cur_addr, config, table, mu>>

\* The command line is given the letters in place of the words; the mini-FSD
\* takes the first of the two options for the drive letter.
FirstOption ==
  CASE boot.modes = <<>> -> 0 - 65
    [] boot.modes # <<>> -> IF boot.modes[1].key = "drv" THEN letters.drv ELSE letters.drv2

---------------------------------------------------------------------------
(* ufsd/mbifunc.c                                                          *)

Matches(name) == {i \in DOMAIN mods : Last(mods[i].words) = name}
ufs_open(name) ==
  IF Matches(name) = {} THEN None ELSE mods[CHOOSE i \in Matches(name) : \A j \in Matches(name) : i <= j]

ufs_read(file, pos, len) ==
  IF pos > file.pages THEN <<>>
  ELSE LET count == IF file.pages - pos < len THEN file.pages - pos ELSE len
       IN [i \in 1..count |-> Page(file.start + pos + i - 1)]

---------------------------------------------------------------------------
(* cfgsys.c: callback()                                                    *)

PatchedLine(line) ==
  CASE line.drive = "@" -> [line EXCEPT !.drive = letters.drv]
    [] line.drive = "!" /\ letters.drv2 = Star -> [line EXCEPT !.drive = IF line.type = "SET" THEN "@" ELSE None]
    [] line.drive = "!" /\ letters.drv2 # Star -> [line EXCEPT !.drive = letters.drv2]
    [] OTHER -> line

PatchConfig ==
  /\ at = "patch"
  /\ IF Matches(ConfigSys) = {}
     THEN at' = "load" /\ UNCHANGED <<config, cur_addr>>
     ELSE /\ at' = "editor"
          /\ config' = [i \in DOMAIN config |-> PatchedLine(config[i])]
          /\ cur_addr' = ModEnd(Last(mods))
  /\ UNCHANGED <<boot, mods, mem, letters, table, mu>>

\* The editor's tables are put where the next module would be, the edited
\* text behind them.  It starts when asked to, or when Alt-E was pressed.
EditedAtOnce(addr) == addr
EditedPlace(addr) == addr + TablePages

\* The module whose command line names config.sys is the new text from now on.
ToTheCopy(place) ==
  [i \in DOMAIN mods |-> IF ConfigSys \in ToSet(mods[i].words)
                            /\ \A j \in 1..(i - 1) : ConfigSys \notin ToSet(mods[j].words)
                         THEN [mods[i] EXCEPT !.start = place] ELSE mods[i]]
editor ==
  /\ at = "editor"
  /\ \E apply \in boot.edits :
       IF apply
       THEN /\ mods' = ToTheCopy(EditedPlace(cur_addr))
            /\ cur_addr' = EditedPlace(cur_addr) + 1
            /\ mem' = Written(Written(mem, cur_addr, TablePages, Tables), EditedPlace(cur_addr), 1, ConfigSys)
       ELSE /\ cur_addr' = cur_addr + TablePages
            /\ mem' = Written(mem, cur_addr, TablePages, Tables)
            /\ UNCHANGED mods
  /\ at' = IF boot.autopreload THEN "preload" ELSE "reloc"
  /\ UNCHANGED <<boot, letters, config, table, mu>>

---------------------------------------------------------------------------
(* cfgsys.c: load_modules()                                                *)

\* strstr(): a name without a directory also occurs within longer ones, and the empty text in all.
NoText == <<"", "">>
Occurs(name, word) ==
  name \in {word, NoText} \/ (name[1] = "" /\ (name[2] = word[2] \/ <<name[2], word[2]>> \in boot.within))

\* What a step of loading has: the list, where the next module goes, memory,
\* and whether a file that is needed was not found.
NoStep == [mods |-> mods, next |-> cur_addr, mem |-> mem, failed |-> FALSE]

\* exec_cmd("module ..."): a file is loaded behind the last one.  // is the root.
OnDisk(name) == (IF name[1] = "/" THEN <<"", name[2]>> ELSE name) \in boot.onDisk
Loaded(st, name) ==
  [mods |-> Append(st.mods, [words |-> <<name>>, start |-> st.next, pages |-> 1]),
   next |-> st.next + 1, mem |-> Written(st.mem, st.next, 1, name), failed |-> st.failed]

\* preload_module(): the file of the first place that has it.  A command line is searched
\* for the name with the parameters behind it, if there are any, and has none.
Ask(name, args) == [asked |-> name, args |-> args, places |-> <<name>>]
AskInThree(base, args) ==
  [asked |-> <<"", base>>, args |-> args, places |-> << <<"os2/boot", base>>, <<"os2", base>>, <<"/", base>> >>]
HasName(list, name) == \E i \in DOMAIN list : \E w \in ToSet(list[i].words) : Occurs(name, w)
IsThere(st, ask) == ~ask.args /\ HasName(st.mods, ask.asked)
Found(ask) == {i \in DOMAIN ask.places : OnDisk(ask.places[i])}
Succeeds(st, ask) == IsThere(st, ask) \/ Found(ask) # {}
preload_module(st, ask) == IF IsThere(st, ask) THEN st ELSE Loaded(st, ask.places[Lowest(Found(ask))])

\* A step names the places tried one after another and whether one must succeed.
\* preload_library() and the DPATH loop try the directories of a path.
Must(ask) == [asks |-> <<ask>>, needed |-> TRUE]
May(ask) == [asks |-> <<ask>>, needed |-> FALSE]
Along(path, base, needed) == [asks |-> [i \in 1..Len(path) |-> Ask(<<path[i], base>>, FALSE)], needed |-> needed]
Good(st, step) == {i \in DOMAIN step.asks : Succeeds(st, step.asks[i])}
StepGoingOn(st, step) == IF ~st.failed /\ Good(st, step) # {} THEN preload_module(st, step.asks[Lowest(Good(st, step))]) ELSE st
Step(st, step) ==
  CASE st.failed -> st
    [] ~st.failed /\ Good(st, step) # {} -> preload_module(st, step.asks[Lowest(Good(st, step))])
    [] OTHER -> [st EXCEPT !.failed = step.needed]

\* Files that every boot needs, or loads if they are there.
Needed == <<"os2ldr", "os2ldr.msg", "os2krnl">>
Wanted == <<"os2dump", "os2dbcs", "os2dbcs.fnt", "os2ldr.fnt", "os2ldr.ini", "kdb.ini", "altf2on.$$$", "os2norev.$$$", "os2logo">>
Basedevs == <<"resource.sys", "clock01.sys", "screen01.sys", "kbdbase.sys", "isapnp.snp", "pnp.sys">>
Libraries == <<"doscall1.dll", "sesmgr.dll", "msg.dll", "nls.dll", "os2char.dll", "bvscalls.dll", "bmscalls.dll", "bkscalls.dll",
               "kbdcalls.dll", "moucalls.dll", "quecalls.dll", "viocalls.dll">>
LoadNeeded == [i \in DOMAIN Needed |-> Must(Ask(<<"", Needed[i]>>, FALSE))]
LoadWanted == [i \in DOMAIN Wanted |-> May(Ask(<<"", Wanted[i]>>, FALSE))]
LoadBasedevs == [i \in DOMAIN Basedevs |-> Must(AskInThree(Basedevs[i], FALSE))]
LoadLibraries == [i \in DOMAIN Libraries |-> Along(boot.libpath, Libraries[i], TRUE)]

\* load_type(), load_type_bootdrv() and the rest go through the lines of CONFIG.SYS;
\* the others ask for nothing.
Nothing == [asks |-> <<>>, needed |-> FALSE]
ForLines(lines, Asked(_)) == [i \in DOMAIN config |-> IF i \in lines THEN Asked(config[i]) ELSE Nothing]
OfType(types) == {i \in DOMAIN config : config[i].type \in types}
load_type(type) == ForLines(OfType({type}), LAMBDA line : Must(AskInThree(line.name[2], line.args)))
HasBootDrive(line) == line.drive \in {letters.drv, None}
load_type_bootdrv(type) ==
  ForLines({i \in OfType({type}) : HasBootDrive(config[i])}, LAMBDA line : Must(Ask(line.name, line.args)))

\* Of COUNTRY, DEVINFO=KBD, DEVINFO=SCR and PROTSHELL the last line counts, of IFS the first one if
\* the boot is not from a ramdisk.  Without such a line it is the text at address 0.
Value(type) == IF OfType({type}) = {} THEN boot.zero[type] ELSE config[Max(OfType({type}))]
AskValue(type) == << Must(Ask(Value(type).name, Value(type).args)) >>
ProtShell == IF HasBootDrive(Value("PROTSHELL")) THEN AskValue("PROTSHELL") ELSE <<>>
FirstIfs == IF OfType({"IFS"}) = {} THEN boot.zero["IFS"] ELSE config[Lowest(OfType({"IFS"}))]
BeforeTheIfs ==
  ForLines({i \in OfType({"DEVICE"}) : OfType({"IFS"}) # {} /\ i < Lowest(OfType({"IFS"}))},
           LAMBDA line : Must(Ask(line.name, line.args)))

\* Booting from a ramdisk, everything on the boot drive is loaded.
Drivers ==
  IF boot.ramdisk
  THEN load_type_bootdrv("IFS") \o load_type_bootdrv("DEVICE") \o load_type_bootdrv("RUN") \o load_type_bootdrv("CALL") \o ProtShell
  ELSE BeforeTheIfs \o << Must(Ask(FirstIfs.name, FirstIfs.args)) >>

\* A line VIDEO is a name in the list of the variable that VIDEO_DEVICES names.
Video == ForLines(OfType({"VIDEO"}), LAMBDA line : Along(boot.libpath, line.name[2], TRUE))

BootFiles == LoadNeeded \o LoadWanted \o load_type("PSD") \o LoadBasedevs \o load_type("BASEDEV")
SystemFiles == AskValue("COUNTRY") \o AskValue("KBD") \o AskValue("SCR") \o LoadLibraries

\* The codepages, and the messages, are looked for when the rest is there.
LoadCodepages == [i \in 1..Len(boot.codepages) |-> Must(Ask(<<"language/codepage", boot.codepages[i]>>, FALSE))]
Rest(st) ==
  (IF HasName(st.mods, <<"", "unicode.sys">>)
   THEN << Must(Ask(<<"language/codepage", "ucstbl.lst">>, FALSE)) >> \o LoadCodepages ELSE <<>>)
  \o << Along(boot.dpath, "oso001.msg", FALSE) >>

\* modaddr: modules go behind the edited text.
Steps(st, steps) == IF st.failed THEN st ELSE FoldLeft(Step, st, steps)
AfterPlan(st) == Steps(st, Rest(st))
Plan == Steps(Steps(Steps(Steps(NoStep, BootFiles), SystemFiles), Drivers), Video)
load_modules == AfterPlan(Plan)

LoadModules(st) ==
  /\ at' = IF st.failed THEN "halted" ELSE "reloc"
  /\ mods' = st.mods
  /\ mem' = st.mem
  /\ cur_addr' = st.next
Preload ==
  /\ at = "preload"
  /\ LoadModules(load_modules)
  /\ UNCHANGED <<boot, letters, config, table, mu>>

\* mbi_reloc(): what the loader told of the modules goes behind the last of
\* the list, and the mini-FSD to its place.
mbi_place == ModEnd(Last(mods))
mbi_reloc ==
  /\ at = "reloc"
  /\ mem' = Written(mem, mbi_place, MbiPages, Mbi)
  /\ cur_addr' = mbi_place + MbiPages
  /\ at' = "load"
  /\ UNCHANGED <<boot, mods, letters, config, table, mu>>

---------------------------------------------------------------------------
(* ufsd/ufsdc.c: os2ldr, and what it is told.                              *)

\* Without an os2boot of its own the boot is one from a remote drive for
\* os2ldr, the mini-FSD is the loader's, and the place of the list its data.
FileTable(os2boot) ==
  [files |-> IF os2boot = None THEN 4 ELSE 3, ripl |-> os2boot = None, os2boot |-> os2boot,
   mini |-> Matches(ConfigSys) # {},
   log_drive |-> 128 + letters.drv - LetterC, disk_num |-> boot.boot.number,
   hidden |-> offset(boot.boot, boot.part, 1)]

LoadOs2ldr ==
  /\ at = "load"
  /\ IF ufs_open(<<"", "os2ldr">>) = None
     THEN at' = "halted" /\ UNCHANGED <<table, mu>>
     ELSE /\ at' = "os2ldr"
          /\ table' = FileTable(ufs_open(<<"", "os2boot">>))
          /\ mu' = [mu EXCEPT !.got = [name |-> <<"", "os2ldr">>, pos |-> 0,
                                       data |-> ufs_read(ufs_open(<<"", "os2ldr">>), 0, ufs_open(<<"", "os2ldr">>).pages)]]
  /\ UNCHANGED <<boot, mods, mem, cur_addr, letters, config>>

\* os2ldr opens and reads; an opened file stays open until the next one is, and
\* a length of 0 asks for all of it.
MuOpen ==
  /\ at = "os2ldr" /\ mu.asked < MaxMu
  /\ \E name \in boot.names :
       mu' = [mu EXCEPT !.open = IF ufs_open(name) = None THEN @ ELSE [mod |-> ufs_open(name), name |-> name],
                        !.pos = IF ufs_open(name) = None THEN @ ELSE 0, !.asked = @ + 1]
  /\ UNCHANGED <<at, boot, mods, mem, cur_addr, letters, config, table>>
MuRead ==
  /\ at = "os2ldr" /\ mu.open # None /\ mu.asked < MaxMu
  /\ \E off \in 0..2, len \in 0..1 :
       LET data == ufs_read(mu.open.mod, off, IF len = 0 THEN mu.open.mod.pages ELSE len) IN
       mu' = [mu EXCEPT !.pos = off + Len(data), !.asked = @ + 1,
                        !.got = [name |-> mu.open.name, pos |-> off, data |-> data]]
  /\ UNCHANGED <<at, boot, mods, mem, cur_addr, letters, config, table>>

\* os2ldr starts the kernel, and the kernel the mini-FSD it was given.
StartKernel ==
  /\ at = "os2ldr"
  /\ at' = IF table.os2boot = None THEN "kernel" ELSE "os2boot"
  /\ mu' = [open |-> None, pos |-> 0, got |-> None, asked |-> 0]
  /\ UNCHANGED <<boot, mods, mem, cur_addr, letters, config, table>>

BootNext ==
  \/ bootos2_cmain \/ AssignLetters \/ PatchConfig \/ editor \/ Preload \/ mbi_reloc
  \/ LoadOs2ldr \/ MuOpen \/ MuRead \/ StartKernel
=============================================================================
