------------------------------ MODULE ImageLoader ------------------------------
(***************************************************************************)
(* Loading a kernel and its modules (loader/loader/boot.c) by the commands *)
(* kernel, module, lipmodule, bsmodule, preprocess, modaddr, vbeset and    *)
(* boot (loader/loader/commands.c), typed or in the script of a menu item, *)
(* whose failure exec_cfg() handles (loader/loader/loader.c).              *)
(*                                                                         *)
(* Everything is put where cur_addr points, which only grows, but for the  *)
(* commands that set it; nothing else says what memory is in use.  Of the  *)
(* memory's contents the model keeps whether something was put over what   *)
(* the multiboot information names (spoilt).                               *)
(***************************************************************************)
EXTENDS Integers, Sequences, FiniteSets

CONSTANTS
  PAGE,       \* a page, 4 KiB in the code
  Floor,      \* where the first megabyte ends
  Ram,        \* where memory ends (mem_upper)
  Kernels,    \* [name, format, load, file, mem, syms, arg]
  Modules,    \* [name, size, arg]
  Expanded,   \* lengths a preprocessed file may have
  LipSize, VbeSize,
  Addresses,  \* what modaddr may be given
  EditAt,     \* where the menu editor works (4 MiB)
  EditSize,
  Faults,     \* what may go wrong: "open", "short", "symbols"
  MaxMods,    \* bound of the modules loaded for one kernel
  MaxCommands,  \* bound of the commands given
  None

Named == {k.name : k \in Kernels} \cup {m.name : m \in Modules}

ASSUME ConstantsAssumption ==
  /\ PAGE \in Nat \ {0}
  /\ {Floor, Ram, LipSize, VbeSize, EditAt, EditSize, MaxMods, MaxCommands} \subseteq Nat
  /\ Kernels \subseteq [name : Named, format : {"elf", "kludge"}, load : Nat, file : Nat,
                        mem : Nat, syms : Nat, arg : Nat]
  /\ \A k \in Kernels : k.file <= k.mem
  /\ Modules \subseteq [name : Named, size : Nat \ {0}, arg : Nat]
  /\ Addresses \subseteq Nat /\ Expanded \subseteq Nat \ {0}
  /\ Faults \subseteq {"open", "short", "symbols"}

VARIABLES
  kernel_type,  \* "none", "multiboot" or "os2ldr"
  cur_addr,
  image,        \* the kernel's image: what, where and how long; None before the first
  cmdline,      \* m->cmdline
  mods,         \* mll[0..m->mods_count-1]
  vbe,          \* m->vbe_control_info, if set for this kernel
  spoilt,       \* the things named by these over which something was put
  booted,
  commands,     \* how many were given
  \* what the commands promised:
  asked,        \* the modules whose commands succeeded since the kernel's did
  broken,       \* a script failed since a kernel was loaded
  moved         \* a command set cur_addr back since a kernel was loaded

listed == <<image, cmdline, mods, vbe>>
ghosts == <<asked, broken, moved>>
vars   == <<kernel_type, cur_addr, listed, spoilt, booted, commands, ghosts>>

\* What is loaded: what it is, the file, the text that goes with it or the zero that ends
\* the text, where, how long.
Descriptions ==
  [what : Named \cup {"lip", "vbe"}, part : {"file", "text", "zero"}, at : Nat, size : Nat]
ASSUME NoneAssumption == None \notin Descriptions

Thing(what, at, size) == [what |-> what, part |-> "file", at |-> at, size |-> size]
Text(of, at, size) == [what |-> of, part |-> "text", at |-> at, size |-> size]
Zero(t) == [what |-> t.what, part |-> "zero", at |-> t.at + t.size, size |-> 1]
Ended(texts) == texts \cup {Zero(t) : t \in texts}

\* To the next page.
Up(a) == ((a + PAGE - 1) \div PAGE) * PAGE
ASSUME EditAssumption == EditAt = Up(EditAt)

\* What m->mods_addr, m->cmdline and the others name.
Texts == ({cmdline} \cup {mods[i].text : i \in DOMAIN mods}) \ {None}
Things ==
  ({image, vbe} \ {None}) \cup {mods[i].thing : i \in DOMAIN mods} \cup Ended(Texts)

\* size cells are written at a.
Over(t, a, size) == t.at < a + size /\ a < t.at + t.size
Spoilt(things, a, size) == {t \in things : t \in spoilt \/ Over(t, a, size)}
Put(a, size) == spoilt' = Spoilt(Things, a, size)

Init ==
  /\ kernel_type = "none"
  /\ cur_addr = 0
  /\ image = None /\ cmdline = None /\ mods = <<>> /\ vbe = None
  /\ spoilt = {}
  /\ booted = FALSE
  /\ commands = 0
  /\ asked = <<>> /\ broken = FALSE /\ moved = FALSE

\* A command fails: in a script, exec_cfg() makes the kernel loaded invalid.
FailedKeepsKernel(script) == UNCHANGED kernel_type /\ broken' = (broken \/ script)
Failed(script) ==
  /\ kernel_type' = IF script THEN "none" ELSE kernel_type
  /\ broken' = (broken \/ script)

-------------------------------------------------------------------------------
(* kernel: load_image(). *)

\* Refused before anything is loaded; a header was perhaps looked at.
HeaderType(k) == IF k.format = "elf" THEN "multiboot" ELSE "none"
NoType(k) == "none"

KernelRefused(k, script) ==
  /\ "open" \in Faults \/ (k.format = "kludge" /\ k.load < Floor)
  /\ kernel_type' = NoType(k)
  /\ cur_addr' \in {cur_addr} \cup (IF k.format = "kludge" THEN {k.load} ELSE {})
  /\ broken' = (broken \/ script)
  /\ UNCHANGED <<listed, spoilt, booted, asked, moved>>

\* The kernel's description in the multiboot information is begun anew.
MbiKept == mods
MbiCleared == <<>>

\* The symbols of an ELF file follow the image on a page of their own; when they
\* cannot be loaded cur_addr is zero.
AfterImage(k, bad) ==
  IF k.format = "kludge" THEN k.load + k.mem
  ELSE IF bad THEN 0 ELSE Up(k.load + k.mem) + k.syms

MayBeBad(k, bad) == bad => k.format = "elf" /\ "symbols" \in Faults

KernelLoaded(k, got, bad) ==
  /\ k.load >= Floor
  /\ got = k.file \/ (k.format = "elf" /\ "short" \in Faults)
  /\ MayBeBad(k, bad)
  /\ image' = Thing(k.name, k.load, got)
  /\ LET at == Up(AfterImage(k, bad))
     IN  /\ cmdline' = Text(k.name, at, k.arg)
         /\ cur_addr' = at + k.arg
         /\ moved' = bad
         /\ spoilt' = {t \in {image'} : Over(t, at, k.arg + 1)}
  /\ kernel_type' = "multiboot"
  /\ mods' = MbiCleared
  /\ vbe' = None
  /\ asked' = <<>>
  /\ broken' = FALSE
  /\ UNCHANGED booted

\* An error after the image, or some of it, is in memory, with cur_addr at end: its
\* command line is placed all the same, unless --type asked for a type.
LeftBroken(k, wrote, end, typed) ==
  IF typed
  THEN /\ cur_addr' = end
       /\ cmdline' = cmdline
       /\ spoilt' = Spoilt(({image, vbe} \ {None}) \cup Ended({cmdline} \ {None}), k.load, wrote)
  ELSE /\ cur_addr' = Up(end) + k.arg
       /\ cmdline' = Text(k.name, Up(end), k.arg)
       /\ spoilt' = {t \in {image, vbe} \ {None} :
                      t \in Spoilt({t}, k.load, wrote) \/ Over(t, Up(end), k.arg + 1)}

\* An ELF segment below the first megabyte is noticed after it has been loaded, a
\* kludge's text that is too short after it has been read, and that the type is not
\* the one --type asked for when all is loaded.
KernelBroken(k, typed, script) ==
  /\ \/ k.format = "elf" /\ k.load < Floor /\ LeftBroken(k, k.mem, k.load + k.mem, typed)
     \/ /\ k.format = "kludge" /\ k.load >= Floor /\ "short" \in Faults
        /\ LeftBroken(k, k.file, k.load, typed)
     \/ /\ k.load >= Floor /\ typed
        /\ \E bad \in BOOLEAN : MayBeBad(k, bad) /\ LeftBroken(k, k.mem, AfterImage(k, bad), typed)
  /\ kernel_type' = "none"
  /\ mods' = MbiCleared
  /\ broken' = (broken \/ script)
  /\ UNCHANGED <<image, vbe, booted, asked, moved>>

-------------------------------------------------------------------------------
(* Modules. *)

Entry(name, at, size, text, arg) ==
  [thing |-> Thing(name, at, size), text |-> Text(name, text, arg)]

Fits(at, size) == at + size < Ram

\* load_module(): the text of the command goes behind the file, and cur_addr behind the
\* text, where the zero is.
AfterFile(at, size, arg) == at + size
AfterText(at, size, arg) == at + size + arg

ModuleLoaded(m, got) ==
  LET at == Up(cur_addr)
  IN  /\ kernel_type = "multiboot"
      /\ Len(mods) < MaxMods
      /\ Fits(at, m.size)
      /\ got = m.size \/ "short" \in Faults
      /\ Put(at, got + m.arg + 1)
      /\ mods' = Append(mods, Entry(m.name, at, got, at + got, m.arg))
      /\ cur_addr' = AfterText(at, got, m.arg)
      /\ asked' = Append(asked, m.name)
      /\ UNCHANGED <<kernel_type, image, cmdline, vbe, booted, broken, moved>>

\* No kernel, no file or no room; bsmodule fails without a kernel too.
ModuleFails(m, script) ==
  /\ \/ kernel_type # "multiboot" /\ cur_addr' \in {cur_addr, Up(cur_addr)}
     \/ /\ kernel_type = "multiboot"
        /\ "open" \in Faults \/ ~ Fits(Up(cur_addr), m.size)
        /\ cur_addr' = Up(cur_addr)
  /\ Failed(script)
  /\ UNCHANGED <<listed, spoilt, booted, asked, moved>>

\* create_bs_module(): no kernel is asked for, and there is no text.
BsModuleLoaded(m) ==
  LET at == Up(cur_addr)
  IN  /\ Len(mods) < MaxMods
      /\ Fits(at, m.size)
      /\ Put(at, m.size)
      /\ mods' = Append(mods, [thing |-> Thing(m.name, at, m.size), text |-> None])
      /\ cur_addr' = at + m.size
      /\ asked' = Append(asked, m.name)
      /\ UNCHANGED <<kernel_type, image, cmdline, vbe, booted, broken, moved>>

\* create_lip_module(): the table copied is the one used from now on.  Of its text
\* the zero, which is counted here, stands for the whole.
LipModule ==
  LET at == Up(cur_addr)
  IN  /\ Len(mods) < MaxMods
      /\ Put(at, LipSize + 1)
      /\ mods' = Append(mods, Entry("lip", at, LipSize, at + LipSize, 0))
      /\ cur_addr' = at + LipSize + 1
      /\ asked' = Append(asked, "lip")
      /\ UNCHANGED <<kernel_type, image, cmdline, vbe, booted, broken, moved>>

\* preprocess(): the file is loaded as a module, included files and conditions are
\* expanded from one copy to the next, each on a page of its own, and the module
\* is the last copy.  The first copy may begin where the zero of the text is.
Preprocess(m, included, chosen) ==
  LET at    == Up(cur_addr)
      first == Up(at + m.size + m.arg)
      last  == Up(first + included)
      e     == Entry(m.name, last, chosen, at + m.size, m.arg)
  IN  /\ kernel_type = "multiboot"
      /\ Len(mods) < MaxMods
      /\ Fits(at, m.size)
      /\ spoilt' = Spoilt(Things, at, last + chosen - at)
                   \cup {t \in {Zero(e.text)} : Over(t, first, last + chosen - first)}
      /\ mods' = Append(mods, e)
      /\ cur_addr' = Up(last + chosen)
      /\ asked' = Append(asked, m.name)
      /\ UNCHANGED <<kernel_type, image, cmdline, vbe, booted, broken, moved>>

ModAddr(a) ==
  /\ kernel_type = "multiboot"
  /\ cur_addr' = a
  /\ moved' = (moved \/ a < cur_addr)
  /\ UNCHANGED <<kernel_type, listed, spoilt, booted, asked, broken>>

\* Any other command that fails: modaddr or vbeset without a kernel, a command
\* line that does not fit, root.
OtherFails(script) ==
  /\ Failed(script)
  /\ UNCHANGED <<cur_addr, listed, spoilt, booted, asked, moved>>

\* create_vbe_module().
VbeSet ==
  LET at == Up(cur_addr)
  IN  /\ kernel_type = "multiboot"
      /\ spoilt' = Spoilt(Things \ {vbe}, at, VbeSize)
      /\ vbe' = Thing("vbe", at, VbeSize)
      /\ cur_addr' = at + VbeSize
      /\ UNCHANGED <<kernel_type, image, cmdline, mods, booted, ghosts>>

-------------------------------------------------------------------------------
(* The loader around them. *)

\* menued(): the script of a menu item is edited in memory.
Edit ==
  /\ Put(EditAt, EditSize)
  /\ cur_addr' = EditAt + EditSize
  /\ moved' = (moved \/ EditAt < cur_addr)
  /\ UNCHANGED <<kernel_type, listed, booted, asked, broken>>

Os2ldr ==
  /\ kernel_type' = "os2ldr"
  /\ UNCHANGED <<cur_addr, listed, spoilt, booted, ghosts>>

\* boot, or the end of a script.  Control does not come back.
Boot ==
  /\ kernel_type # "none"
  /\ booted' = TRUE
  /\ UNCHANGED <<kernel_type, cur_addr, listed, spoilt, ghosts>>

Command(script) ==
  \/ \E k \in Kernels : KernelRefused(k, script)
  \/ \E k \in Kernels, typed \in BOOLEAN : KernelBroken(k, typed, script)
  \/ \E m \in Modules : ModuleFails(m, script)
  \/ OtherFails(script)

Next ==
  /\ ~ booted
  /\ commands < MaxCommands
  /\ commands' = commands + 1
  /\ \/ \E script \in BOOLEAN : Command(script)
     \/ \E k \in Kernels : \E got \in 0..k.file, bad \in BOOLEAN : KernelLoaded(k, got, bad)
     \/ \E m \in Modules : \E got \in 1..m.size : ModuleLoaded(m, got)
     \/ \E m \in Modules : BsModuleLoaded(m)
     \/ LipModule
     \/ \E m \in Modules, i, c \in Expanded : Preprocess(m, i, c)
     \/ \E a \in Addresses : ModAddr(a)
     \/ VbeSet
     \/ Edit
     \/ Os2ldr
     \/ Boot

Spec == Init /\ [][Next]_vars

-------------------------------------------------------------------------------
(* Properties. *)

\* The types of the variables.
TypeOK ==
  /\ kernel_type \in {"none", "multiboot", "os2ldr"}
  /\ cur_addr \in Nat
  /\ spoilt \subseteq Things
  /\ booted \in BOOLEAN /\ broken \in BOOLEAN /\ moved \in BOOLEAN
  /\ Len(mods) <= MaxMods
  /\ kernel_type = "multiboot" => image # None /\ cmdline # None

\* As long as a kernel may be booted, all that its multiboot information names,
\* image, the command lines, the modules and the VBE description, is in memory
\* as it was loaded: nothing was put over anything, unless a command set cur_addr
\* back (modaddr, the editor, ELF symbols that could not be loaded), but for the zero
\* behind a command line that ends where a page does: cur_addr stands on it, and what
\* is loaded next begins there.
NothingOverwritten ==
  kernel_type = "multiboot" /\ ~ moved
  => \A t \in spoilt : t.part = "zero" /\ t.at = Up(t.at)

\* The help of kernel says that modules must be reloaded after it: the kernel
\* booted is given the modules whose commands succeeded after its own, in that
\* order, whatever was loaded, and failed, before.
ModulesAsAsked ==
  kernel_type = "multiboot" => [i \in DOMAIN mods |-> mods[i].thing.what] = asked

\* No script that failed is the last thing before a multiboot kernel is booted.
NothingBrokenBooted == booted /\ kernel_type = "multiboot" => ~ broken

===============================================================================
