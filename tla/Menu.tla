---------------------------------- MODULE Menu ----------------------------------
(***************************************************************************)
(* The menu of the loader and the scripts of its items: KernelLoader(),    *)
(* exec_cfg(), exec_menu() and what they call (loader/loader/loader.c).    *)
(*                                                                         *)
(* The lines of a configuration file become a list of scripts and one list *)
(* of their commands, in an arena that is used again for the next file.    *)
(* The nodes are kept with their addresses, because a pointer into the     *)
(* arena of the file before is written through once.                       *)
(***************************************************************************)
EXTENDS Integers, FiniteSets, Sequences, SequencesExt

CONSTANTS
  Machines,     \* the files of a machine by name: [globals, items], an item [title, script]
  Typed,        \* commands the user types
  Edits,        \* scripts the user writes in the editor
  ScriptSize,   \* of a script_t; a title is in front of it
  StringSize,   \* of a string_t
  NextAt,       \* where in a string_t its next pointer is
  menu_height,
  Frame,        \* what exec_cfg()'s item may be, which is not initialised
  MaxInputs,    \* bound of what the user does
  None

\* The next pointer of a string_t is no further in it than a script_t is long.
ASSUME ConstantsAssumption ==
  /\ {ScriptSize, StringSize, menu_height} \subseteq Nat \ {0}
  /\ NextAt \in 0..StringSize - 1 /\ NextAt < ScriptSize
  /\ Frame \subseteq Int /\ MaxInputs \in Nat /\ None \notin Int

\* A command: [do, arg], do one of "kernel", "configfile", "default", "other", which
\* succeed, and "fail".  A configfile that names no file of the machine is one that fails.
IsCommand(c, names) ==
  /\ c.do # "title"
  /\ c.do = "configfile" => c.arg \in names
  /\ c.do = "default" => c.arg \in Int
IsScript(cmds, names) == cmds \in Seq(ToSet(cmds)) /\ \A c \in ToSet(cmds) : IsCommand(c, names)

ASSUME MachinesAssumption ==
  \A machine \in Machines :
    /\ "root" \in DOMAIN machine
    /\ \A f \in DOMAIN machine :
         LET items == machine[f].items IN
         /\ IsScript(machine[f].globals, DOMAIN machine)
         /\ items \in Seq(ToSet(items))
         /\ \A i \in ToSet(items) : i.title \in Nat /\ IsScript(i.script, DOMAIN machine)
    /\ \A c \in Typed : IsCommand(c, DOMAIN machine)
    /\ \A cmds \in Edits : IsScript(cmds, DOMAIN machine)

VARIABLES
  files,        \* the files of this machine
  curr_cfg, prev_cfg,  \* names of files; prev_cfg may be empty, None
  menu_nest_lvl,
  kernel_type,  \* the kernel loaded, or None
  default_item,
  arena,        \* menu_items: address -> script or string
  menu_len,
  menu_first, sc_prev, st_prev,  \* addresses in it, or None
  num_items,    \* scripts; in the menu the number of the last one
  line,         \* the line of the file that is read next
  item,         \* the item highlighted
  screen_items,
  where,        \* "reading", "menu", "cmdline", "booted", "crashed"
  inputs,       \* what the user did, counted
  \* what the menu promises:
  shown,        \* the file that is read, or was, to fill the arena
  scripts,      \* its scripts, as written there or edited since
  struck,       \* the first command's node was linked to one that is not there
  astray,       \* the item highlighted first is none of the menu's
  parent        \* the file whose menu the file shown was chosen from, by an item with one configfile

config == <<files, curr_cfg, prev_cfg, menu_nest_lvl, kernel_type, default_item>>
lists  == <<arena, menu_len, menu_first, sc_prev, st_prev, num_items, line>>
screen == <<item, screen_items, where>>
ghosts == <<shown, scripts, struck, astray, parent>>
vars   == <<config, lists, screen, inputs, ghosts>>

-------------------------------------------------------------------------------
(* The arena. *)

ScriptNode(title) ==
  [kind |-> "script", size |-> title + ScriptSize, num |-> 0, scr |-> None, next |-> None]
StringNode(c) == [kind |-> "string", size |-> StringSize, cmd |-> c, next |-> None]

\* Nodes are put into it.
With(a, nodes) == [at \in DOMAIN nodes \cup DOMAIN a |-> IF at \in DOMAIN nodes THEN nodes[at] ELSE a[at]]

\* A node's next pointer is set, if there is one at the address.
Linked(a, from, to) == IF from \in DOMAIN a THEN [a EXCEPT ![from].next = to] ELSE a

\* ... and the write goes through another node, as one behind what is in use goes
\* nowhere.
Strikes(a, from) ==
  /\ from # None
  /\ ~ (from \in DOMAIN a /\ a[from].kind = "string")
  /\ \E at \in DOMAIN a : at <= from + NextAt /\ from + NextAt < at + a[at].size

\* The n-th script, None if the list ends before.
Nth(n) ==
  LET at[k \in 0..n] == IF k = 0 THEN menu_first
                        ELSE IF at[k - 1] = None THEN None ELSE arena[at[k - 1]].next
  IN  at[n]

\* exec_script() follows next as often as the script has commands.
Commands(s) ==
  LET after(a) == IF a = None THEN None ELSE arena[a].next
      at[k \in 1..arena[s].num] == IF k = 1 THEN arena[s].scr ELSE after(at[k - 1])
  IN  [k \in 1..arena[s].num |-> IF at[k] = None THEN None ELSE arena[at[k]].cmd]

-------------------------------------------------------------------------------
(* Commands. *)

\* configfile: what prev_cfg becomes.
PreviousSwapped(curr, new) == new
Previous(curr, new) == curr

\* exec_line() in a script: the commands up to the first that fails.
Ran(cmds) ==
  LET done[k \in 0..Len(cmds)] ==
        LET r == done[k - 1]
            c == cmds[k]
        IN  IF k = 0 THEN [ok |-> TRUE, curr |-> curr_cfg, prev |-> prev_cfg, kernel |-> kernel_type,
                           default |-> default_item]
            ELSE IF ~ r.ok THEN r
            ELSE CASE c.do = "kernel"     -> [r EXCEPT !.kernel = c.arg]
                   [] c.do = "configfile" -> [r EXCEPT !.prev = Previous(r.curr, c.arg), !.curr = c.arg]
                   [] c.do = "default"    -> [r EXCEPT !.default = c.arg]
                   [] c.do = "fail"       -> [r EXCEPT !.ok = FALSE]
                   [] OTHER -> r
  IN  done[Len(cmds)]

\* What is left of it; a script that fails leaves no kernel.
Keeps(r, script) ==
  /\ curr_cfg' = r.curr /\ prev_cfg' = r.prev /\ default_item' = r.default
  /\ kernel_type' = IF script /\ ~ r.ok THEN None ELSE r.kernel

-------------------------------------------------------------------------------
(* Reading a file. *)

\* init_vars(); st_prev stays.
InitVars ==
  /\ arena' = <<>> /\ menu_len' = 0 /\ menu_first' = None /\ sc_prev' = None
  /\ num_items' = 0 /\ line' = 1
  /\ shown' = curr_cfg' /\ scripts' = <<>> /\ struck' = FALSE

\* KernelLoader() calls exec_cfg(); an emptied name stands for the first file.
Read(cfg) ==
  /\ curr_cfg' = IF cfg = None THEN "root" ELSE cfg
  /\ InitVars
  /\ where' = "reading"
  /\ UNCHANGED <<files, st_prev, item, screen_items, astray>>

Init ==
  /\ files \in Machines
  /\ curr_cfg = "root" /\ prev_cfg = None /\ menu_nest_lvl = 0 /\ kernel_type = None
  /\ default_item = -1
  /\ arena = <<>> /\ menu_len = 0 /\ menu_first = None /\ sc_prev = None /\ st_prev = None
  /\ num_items = 0 /\ line = 1
  /\ item = 0 /\ screen_items = 0 /\ where = "reading" /\ inputs = 0
  /\ shown = "root" /\ scripts = <<>> /\ struck = FALSE /\ astray = FALSE /\ parent = None

\* The lines of a file: its global commands, and each item with its script.
Line(do, arg) == [do |-> do, arg |-> arg]
ItemLines(i) == <<Line("title", i.title)>> \o i.script
Lines(f) ==
  LET upto[k \in 0..Len(f.items)] ==
        IF k = 0 THEN f.globals ELSE upto[k - 1] \o ItemLines(f.items[k])
  IN  upto[Len(f.items)]

\* process_cfg_line1(): a title begins a script,
Title(t) ==
  /\ arena' = With(Linked(arena, sc_prev, menu_len), [at \in {menu_len} |-> ScriptNode(t)])
  /\ menu_len' = menu_len + t + ScriptSize
  /\ menu_first' = IF num_items = 0 THEN menu_len ELSE menu_first
  /\ sc_prev' = menu_len
  /\ num_items' = num_items + 1
  /\ scripts' = Append(scripts, <<>>)
  /\ UNCHANGED <<st_prev, struck>>

\* The list of a script begins with its first command.
AlwaysBegins(num) == TRUE
Begins(num) == num = 0

\* a line after it is one of the script's commands,
ScriptLine(c) ==
  LET linked == Linked(arena, st_prev, menu_len)
  IN  /\ struck' = (struck \/ Strikes(arena, st_prev))
      /\ arena' = With([linked EXCEPT ![sc_prev].num = @ + 1,
                                      ![sc_prev].scr = IF Begins(arena[sc_prev].num) THEN menu_len ELSE @],
                       [at \in {menu_len} |-> StringNode(c)])
      /\ st_prev' = menu_len
      /\ menu_len' = menu_len + StringSize
      /\ scripts' = [scripts EXCEPT ![num_items] = Append(@, c)]
      /\ UNCHANGED <<menu_first, sc_prev, num_items>>

FileLines == Lines(files[shown])
Current == FileLines[line]
NextLine(title) ==
  /\ where = "reading" /\ line <= Len(FileLines)
  /\ (Current.do = "title") = title
  /\ line' = line + 1

ReadTitle ==
  /\ NextLine(TRUE)
  /\ Title(Current.arg)
  /\ UNCHANGED <<config, screen, inputs, shown, astray, parent>>
ReadCommand ==
  /\ NextLine(FALSE) /\ num_items > 0
  /\ ScriptLine(Current)
  /\ UNCHANGED <<config, screen, inputs, shown, astray, parent>>

\* and one before the first title is run; its failure ends the reading.
ReadGlobal ==
  /\ NextLine(FALSE) /\ num_items = 0
  /\ Keeps(Ran(<<Current>>), FALSE)
  /\ where' = IF Ran(<<Current>>).ok THEN "reading" ELSE "cmdline"
  /\ parent' = IF Current.do = "configfile" THEN None ELSE parent
  /\ UNCHANGED <<files, menu_nest_lvl, arena, menu_len, menu_first, sc_prev, st_prev, num_items,
                 item, screen_items, inputs, shown, scripts, struck, astray>>

\* boot_func() without a kernel returns, and the file is read again.
Booted == where' = "booted" /\ UNCHANGED <<config, lists, item, screen_items, ghosts>>

\* No items at all.
NoMenu ==
  /\ where = "reading" /\ line > Len(FileLines) /\ num_items = 0
  /\ IF kernel_type # None THEN Booted
     ELSE Read(curr_cfg) /\ UNCHANGED <<prev_cfg, menu_nest_lvl, kernel_type, default_item, parent>>
  /\ UNCHANGED inputs

\* The item highlighted first; draw_menu().
FirstItem(old) ==
  LET kept == IF old >= screen_items THEN num_items - 1 ELSE old
  IN  IF kept = 0 THEN default_item ELSE kept
Smaller(a, b) == IF a < b THEN a ELSE b
ShowMenu(old) ==
  /\ where = "reading" /\ line > Len(FileLines) /\ num_items > 0
  /\ num_items' = num_items - 1
  /\ item' = FirstItem(old)
  /\ astray' = (item' \notin 0..num_items')
  /\ screen_items' = Smaller(menu_height, num_items)
  /\ where' = "menu"
  /\ UNCHANGED <<config, arena, menu_len, menu_first, sc_prev, st_prev, line, inputs, shown,
                 scripts, struck, parent>>

-------------------------------------------------------------------------------
(* The menu: get_user_input(). *)

PastLast(i) == i > num_items + 1
AfterLast(i) == i >= num_items + 1
Down(i) == IF AfterLast(i + 1) THEN 0 ELSE i + 1
Up(i) == IF i - 1 <= -1 THEN num_items ELSE i - 1
PageDown(i) == IF AfterLast(i + screen_items - 1) THEN 0 ELSE i + screen_items - 1
PageUp(i) == IF i - (screen_items - 1) < 0 THEN num_items ELSE i - (screen_items - 1)
Moved(i) == {Down(i), Up(i), PageDown(i), PageUp(i)}

Arrow ==
  /\ where = "menu"
  /\ item' \in Moved(item)
  /\ UNCHANGED <<config, lists, screen_items, where, ghosts>>

\* No such item: the list is followed to its end and beyond.
Crash == where' = "crashed" /\ UNCHANGED <<config, lists, item, screen_items, ghosts>>
Script == IF item < 0 THEN None ELSE Nth(item)

\* Enter: the script of the item is run, and the kernel booted.  When it fails the
\* menu is shown again, and when there is no kernel the file curr_cfg names is read.
EnterFails ==
  /\ where = "menu" /\ Script # None
  /\ ~ Ran(Commands(Script)).ok
  /\ Keeps(Ran(Commands(Script)), TRUE)
  /\ menu_nest_lvl' = menu_nest_lvl + 1
  /\ parent' = None
  /\ UNCHANGED <<files, lists, screen, shown, scripts, struck, astray>>

AtMostOnce(cmds) == \A i, j \in DOMAIN cmds : cmds[i].do = "configfile" /\ cmds[j].do = "configfile" => i = j

EnterRuns ==
  LET r == IF item = -1 THEN Ran(<<>>) ELSE Ran(Commands(Script))
  IN  /\ where = "menu"
      /\ item = -1 \/ Script # None
      /\ r.ok
      /\ menu_nest_lvl' = menu_nest_lvl + 1
      /\ prev_cfg' = r.prev /\ default_item' = r.default /\ kernel_type' = r.kernel
      /\ IF r.kernel # None
         THEN /\ where' = "booted" /\ curr_cfg' = r.curr
              /\ UNCHANGED <<files, lists, item, screen_items, ghosts>>
         ELSE /\ Read(r.curr)
              /\ parent' = IF <<r.curr, r.prev>> = <<curr_cfg, prev_cfg>> THEN parent
                           ELSE IF shown = curr_cfg /\ AtMostOnce(Commands(Script)) THEN shown ELSE None

EnterCrashes ==
  /\ where = "menu"
  /\ item # -1 /\ Script = None
  /\ Crash

\* Backspace: to the file before.
Backspace ==
  /\ where = "menu" /\ menu_nest_lvl > 0
  /\ menu_nest_lvl' = menu_nest_lvl - 1
  /\ prev_cfg' = None
  /\ parent' = None
  /\ Read(prev_cfg)
  /\ UNCHANGED <<kernel_type, default_item>>

\* A toggle's key: the file is read again.
ToggleKey ==
  /\ where = "menu"
  /\ Read(curr_cfg)
  /\ UNCHANGED <<prev_cfg, menu_nest_lvl, kernel_type, default_item, parent>>

\* The editor: menued() appends the new script to the arena.
Appended(cmds) ==
  LET at == [k \in 1..Len(cmds) |-> menu_len + (k - 1) * StringSize]
      next(k) == IF k = Len(cmds) THEN None ELSE at[k + 1]
  IN  [a \in {at[k] : k \in 1..Len(cmds)} |->
         LET k == CHOOSE k \in 1..Len(cmds) : at[k] = a
         IN  [StringNode(cmds[k]) EXCEPT !.next = next(k)]]
EditCrashes ==
  /\ where = "menu"
  /\ Script = None
  /\ Crash
Edit(cmds) ==
  /\ where = "menu" /\ Script # None
  /\ arena' = With([arena EXCEPT ![Script].num = Len(cmds),
                                 ![Script].scr = IF cmds = <<>> THEN @ ELSE menu_len],
                   Appended(cmds))
  /\ menu_len' = menu_len + Len(cmds) * StringSize
  /\ scripts' = [scripts EXCEPT ![item + 1] = cmds]
  /\ UNCHANGED <<config, menu_first, sc_prev, st_prev, num_items, line, screen, shown, struck,
                 astray, parent>>

-------------------------------------------------------------------------------
(* The command line: cmdline(). *)

Escape ==
  /\ where = "menu"
  /\ where' = "cmdline"
  /\ UNCHANGED <<config, lists, item, screen_items, ghosts>>

TypedCommand(c) ==
  /\ where = "cmdline"
  /\ Keeps(Ran(<<c>>), FALSE)
  /\ parent' = IF c.do = "configfile" THEN None ELSE parent
  /\ UNCHANGED <<files, menu_nest_lvl, lists, screen, shown, scripts, struck, astray>>

Boot ==
  /\ where = "cmdline" /\ kernel_type # None
  /\ Booted

Leave ==
  /\ where = "cmdline"
  /\ Read(curr_cfg)
  /\ UNCHANGED <<prev_cfg, menu_nest_lvl, kernel_type, default_item, parent>>

Input ==
  /\ inputs < MaxInputs
  /\ inputs' = inputs + 1
  /\ \/ Arrow \/ EnterFails \/ EnterRuns \/ EnterCrashes \/ Backspace \/ ToggleKey
     \/ EditCrashes \/ \E cmds \in Edits : Edit(cmds)
     \/ Escape \/ Leave \/ Boot
     \/ \E c \in Typed : TypedCommand(c)

Next ==
  /\ ~ struck
  /\ \/ ReadTitle \/ ReadCommand \/ ReadGlobal \/ NoMenu
     \/ \E old \in Frame : ShowMenu(old)
     \/ Input

Spec == Init /\ [][Next]_vars

-------------------------------------------------------------------------------
(* Properties. *)

\* KernelLoader() says that the file is copied to memory and lists of its scripts are
\* made: the items of the menu are those of the file, in its order, and the list
\* of each holds its commands, or the ones written in the editor since.  (A file
\* whose first command is linked through the pointer that was kept from the file
\* before is excepted.)
MenuIsTheFile ==
  where = "menu" /\ ~ struck
  => /\ \A n \in 0..num_items : Nth(n) # None /\ Commands(Nth(n)) = scripts[n + 1]
     /\ Nth(num_items + 1) = None

\* The keys keep the highlighted item among those of the menu, and Enter and the
\* editor find its script, unless the menu began with an item it does not have.
ItemIsShown ==
  /\ where = "menu" /\ ~ astray => item \in 0..num_items
  /\ where = "crashed" => astray

\* Backspace leads back: in a menu that an item's configfile led to, the file before
\* is the one whose item that was, and the nesting level allows the return.
BackspaceReturns ==
  where = "menu" /\ parent # None => prev_cfg = parent /\ menu_nest_lvl > 0

===============================================================================
