-------------------------------- MODULE Toggles --------------------------------
(***************************************************************************)
(* The variables of the loader's scripts and the toggles that set them     *)
(* (loader/loader/commands.c): set, toggle set, toggle select and toggle   *)
(* trigger, run by the lines of a configuration file or typed, and the     *)
(* keys of the menu, after which the file is read again for its triggers   *)
(* alone (loader/loader/loader.c).                                         *)
(*                                                                         *)
(* All texts lie in one store that is only filled, and a variable may      *)
(* point at the text that belongs to a toggle's block.                     *)
(***************************************************************************)
EXTENDS Integers, Sequences, FiniteSets, TLC

CONSTANTS
  Names,            \* of variables
  Values,           \* texts of variables
  Length,           \* the length of a name or a value
  Refers,           \* the values that are a reference, "$(name)": the name
  NullLength,       \* the length of what a text at address 0 looks like
  VARIABLES_MAX, VARIABLE_STORE_SIZE, TOGGLES, MAX_BLOCKS, MAX_VAR_PER_BLOCK,
  Configurations,   \* of machines: the files root and other, sequences of commands,
                    \* and the commands their users type
  Keys,
  MaxInputs,        \* bound of what the user does
  None

\* A command: [do |-> "set", name, value, unset], unset for "?=", or
\* [do |-> "toggle set", key, blocks] with blocks of [name, value], or
\* [do |-> "select", picks] with picks of [key, block]; each has the conditions
\* [name, value] of the triggers in front of it, if.
ASSUME ConstantsAssumption ==
  /\ Length \in [Names \cup Values -> Nat]
  /\ Refers \in [DOMAIN Refers -> Names] /\ DOMAIN Refers \subseteq Values
  /\ {NullLength, VARIABLE_STORE_SIZE, TOGGLES, VARIABLES_MAX, MaxInputs} \subseteq Nat
  /\ {MAX_BLOCKS, MAX_VAR_PER_BLOCK} \subseteq Nat \ {0}
  /\ MAX_VAR_PER_BLOCK <= MAX_BLOCKS

\* No address.
ASSUME NoneAssumption == None \notin Nat

\* What the commands of a configuration look like, their texts from a given set.
Assignments(texts) == Seq([name : Names, value : texts])
CommandsWith(texts) ==
       [do : {"set"}, name : Names, value : texts, unset : BOOLEAN, if : Assignments(texts)]
  \cup [do : {"toggle set"}, key : Keys, blocks : Seq(Assignments(texts)), if : Assignments(texts)]
  \cup [do : {"select"}, picks : Seq([key : Keys, block : Nat]), if : Assignments(texts)]

ASSUME ConfigurationsAssumption ==
  Configurations \subseteq [root : Seq(CommandsWith(Values)), other : Seq(CommandsWith(Values)),
                            typed : SUBSET CommandsWith(Values)]

VARIABLES
  variable_list,  \* [name, value]: value is an address in the store, or None
  store,          \* address of a text -> the text
  actpos,         \* variable_store_actpos
  toggle_data,    \* [key, current_block, nr_blocks, block], the used ones
  vector,         \* a text was written at address 0
  wild,           \* variable_list[-1] was used: nothing is known of what follows
  files,          \* the configuration of this machine
  curr_cfg,       \* "root" or "other"
  position,       \* the line of it that is read next
  process_what,   \* "all" or "triggers"
  last_key_pressed,
  phase,          \* "reading", "menu" or "cmdline"
  inputs,         \* what the user did, counted
  \* what the menu promises:
  pressed,        \* the toggles before the key for which the file is read again
  assigned,       \* names given to set since the store was emptied
  failed,         \* a command failed since then
  known,          \* files read to the end since then
  begun           \* actpos when reading began

mem     == <<variable_list, store, actpos, toggle_data, vector, wild>>
reading == <<files, curr_cfg, position, process_what, last_key_pressed, phase, inputs>>
ghosts  == <<pressed, assigned, failed, known, begun>>
vars    == <<mem, reading, ghosts>>

\* An entry of a block is a variable's index and a text's address; where the code has -1
\* for the index, it is 0.
EmptyBlock == [nr_vars |-> 0, var |-> [v \in 1..MAX_VAR_PER_BLOCK |-> [var |-> 0, value |-> None]]]
EmptySlot(key) == [key |-> key, current_block |-> 0, nr_blocks |-> 0,
                   block |-> [b \in 1..MAX_BLOCKS |-> EmptyBlock]]

-------------------------------------------------------------------------------
(* The commands work on a record m of the memory and give it back, with        *)
(* whether all went well.                                                      *)

Memory == [list |-> variable_list, text |-> store, used |-> actpos, toggles |-> toggle_data,
           vector |-> vector, wild |-> wild, ok |-> TRUE]
Fail(m) == [m EXCEPT !.ok = FALSE]

\* var_get_index() and toggle_find_slot(): 0 if there is none.
Index(m, name) ==
  IF \E i \in DOMAIN m.list : m.list[i].name = name
  THEN CHOOSE i \in DOMAIN m.list : m.list[i].name = name ELSE 0
Slot(m, key) ==
  IF \E s \in DOMAIN m.toggles : m.toggles[s].key = key
  THEN CHOOSE s \in DOMAIN m.toggles : m.toggles[s].key = key ELSE 0

Value(m, name) == IF Index(m, name) = 0 THEN None ELSE m.list[Index(m, name)].value

\* var_alloc_mem(), with the terminating zero.
Room(m, t) == m.used + Length[t] + 1 <= VARIABLE_STORE_SIZE
Allocate(m, t) ==
  [m EXCEPT !.text = [a \in DOMAIN @ \cup {m.used} |-> IF a = m.used THEN t ELSE @[a]],
            !.used = @ + Length[t] + 1]

\* A new variable, without a value.
Named(m, name) ==
  IF Len(m.list) = VARIABLES_MAX \/ ~ Room(m, name) THEN Fail(m)
  ELSE [Allocate(m, name) EXCEPT !.list = Append(@, [name |-> name, value |-> None])]

PointAt(m, name, at) == [m EXCEPT !.list[Index(m, name)].value = at]

\* var_set_no_copy().
SetNoCopy(m, name, at) ==
  LET n == IF Index(m, name) = 0 THEN Named(m, name) ELSE m
  IN  IF n.ok THEN PointAt(n, name, at) ELSE n

\* A text of its own for the variable.
SetAnew(m, name, v) ==
  IF Room(m, v) THEN PointAt(Allocate(m, v), name, m.used) ELSE Fail(m)

\* var_set(): the old text is overwritten if the new one is not longer.
Fits(old, v) == Length[old] >= Length[v]
SetVar(m, name, v) ==
  LET n == IF Index(m, name) = 0 THEN Named(m, name) ELSE m
      at == Value(n, name)
  IN  IF ~ n.ok THEN n
      ELSE IF Index(m, name) = 0 THEN SetAnew(n, name, v)
      ELSE IF at = None
           THEN IF NullLength >= Length[v] THEN [n EXCEPT !.vector = TRUE] ELSE SetAnew(n, name, v)
      ELSE IF Fits(n.text[at], v) THEN [n EXCEPT !.text[at] = v]
      ELSE SetAnew(n, name, v)

\* var_sprint(): references are replaced, and those in what replaces them, until
\* nothing changes or ten times.
Sprinted(m, v) ==
  LET once(w) == IF w \in DOMAIN Refers /\ Value(m, Refers[w]) # None
                 THEN m.text[Value(m, Refers[w])] ELSE w
      times[n \in 0..10] == IF n = 0 THEN v ELSE once(times[n - 1])
  IN  times[10]

-------------------------------------------------------------------------------
(* Toggles. *)

\* toggle_do_block(): the variables are pointed at the texts of the block, for an entry
\* without a variable whatever is before the list.
DoBlock(m, s, b) ==
  LET done[v \in 0..MAX_VAR_PER_BLOCK] ==
        IF v = 0 THEN m
        ELSE LET of == m.toggles[s].block[b].var[v]
             IN  IF v > m.toggles[s].block[b].nr_vars THEN done[v - 1]
                 ELSE IF of.var = 0 THEN [done[v - 1] EXCEPT !.wild = TRUE]
                 ELSE SetNoCopy(done[v - 1], m.list[of.var].name, of.value)
  IN  done[MAX_VAR_PER_BLOCK]

\* process_var(): a text that is there already is used again.  When there is no room
\* for the variable, the entry loses the one it had and keeps its text.
AlwaysNew(m, s, b, v, pair) == FALSE
SameText(m, s, b, v, pair) ==
  LET old == m.toggles[s].block[b].var[v].value
  IN  old # None /\ Index(m, pair.name) # 0 /\ m.text[old] = pair.value

ProcessVar(m, s, b, v, pair) ==
  LET n == IF SameText(m, s, b, v, pair) THEN m
           ELSE IF ~ Room(m, pair.value) THEN Fail(m)
           ELSE LET set == SetNoCopy(Allocate(m, pair.value), pair.name, m.used)
                IN  [set EXCEPT !.toggles[s].block[b].var[v] =
                       [var |-> Index(set, pair.name), value |-> IF set.ok THEN m.used ELSE @.value]]
  IN  IF n.ok THEN [n EXCEPT !.toggles[s].block[b].nr_vars = IF v > @ THEN v ELSE @] ELSE n

\* process_block(): more variables than fit are an error once the first are set.
ProcessBlock(m, s, b, pairs) ==
  LET done[v \in 0..Len(pairs)] ==
        IF v = 0 THEN m
        ELSE IF ~ done[v - 1].ok THEN done[v - 1]
        ELSE IF v > MAX_VAR_PER_BLOCK THEN Fail(done[v - 1])
        ELSE ProcessVar(done[v - 1], s, b, v, pairs[v])
  IN  done[Len(pairs)]

\* Only as many blocks are reset as a block has variables.
KeepsCurrent(slot) ==
  [slot EXCEPT !.nr_blocks = 0,
               !.block = [b \in DOMAIN @ |-> IF b <= MAX_VAR_PER_BLOCK
                                             THEN [@[b] EXCEPT !.nr_vars = 0] ELSE @[b]]]
Reset(slot) ==
  [slot EXCEPT !.nr_blocks = 0, !.current_block = 0,
               !.block = [b \in DOMAIN @ |-> IF b <= MAX_VAR_PER_BLOCK
                                             THEN [@[b] EXCEPT !.nr_vars = 0] ELSE @[b]]]

ToggleSet(m, c) ==
  LET old == Slot(m, c.key)
      s == IF old = 0 THEN Len(m.toggles) + 1 ELSE old
      slots == IF old = 0 THEN Append(m.toggles, EmptySlot(c.key)) ELSE m.toggles
      empty == [m EXCEPT !.toggles = [slots EXCEPT ![s] = Reset(@)]]
      done[b \in 0..Len(c.blocks)] ==
        IF b = 0 THEN empty
        ELSE IF ~ done[b - 1].ok THEN done[b - 1]
        ELSE IF b > MAX_BLOCKS THEN Fail(done[b - 1])
        ELSE ProcessBlock(done[b - 1], s, b, c.blocks[b])
      all == [done[Len(c.blocks)] EXCEPT !.toggles[s].nr_blocks = Len(c.blocks)]
  IN  IF old = 0 /\ Len(m.toggles) = TOGGLES THEN Fail(m)
      ELSE IF ~ done[Len(c.blocks)].ok THEN done[Len(c.blocks)]
      ELSE IF c.blocks = <<>> THEN all
      ELSE DoBlock(all, s, 1)

\* Not the key just pressed, and nothing but triggers when only those are processed.
SelectsAlways(key, triggered) == key # last_key_pressed
Selects(key, triggered) ==
  key # last_key_pressed /\ (triggered \/ process_what = "all")

\* One after the other; the rest is left out at the first that may not be.
Select(m, c, triggered) ==
  LET done[i \in 0..Len(c.picks)] ==
        LET s == Slot(m, c.picks[i].key)
            b == c.picks[i].block
        IN  IF i = 0 THEN [stop |-> FALSE, m |-> m]
            ELSE IF done[i - 1].stop THEN done[i - 1]
            ELSE IF ~ Selects(c.picks[i].key, triggered) THEN [done[i - 1] EXCEPT !.stop = TRUE]
            ELSE IF s = 0 THEN [stop |-> TRUE, m |-> Fail(done[i - 1].m)]
            ELSE IF b >= m.toggles[s].nr_blocks THEN [stop |-> TRUE, m |-> Fail(done[i - 1].m)]
            ELSE [stop |-> FALSE, m |-> [DoBlock(done[i - 1].m, s, b + 1) EXCEPT
                                           !.toggles[s].current_block = b]]
  IN  done[Len(c.picks)].m

\* set, and toggle without its triggers.
Plain(m, c, triggered) ==
  IF c.do = "set" THEN IF c.unset /\ Index(m, c.name) # 0 THEN m ELSE SetVar(m, c.name, c.value)
  ELSE IF c.do = "toggle set" THEN ToggleSet(m, c)
  ELSE Select(m, c, triggered)

\* toggle trigger VAR==VAL ...: what comes of the command behind it, another
\* trigger perhaps, is not looked at.
Holds(m, cond) == m.text[Value(m, cond.name)] = cond.value
Trigger(m, c) ==
  LET known_(i) == Value(m, c.if[i].name) # None /\ Length[c.if[i].value] > 0
  IN  IF ~ known_(1) THEN Fail(m)
      ELSE IF \A i \in DOMAIN c.if : known_(i) /\ Holds(m, c.if[i])
           THEN [Plain(m, c, TRUE) EXCEPT !.ok = TRUE] ELSE m

\* exec_line(): references in the arguments are replaced first.
Substituted(m, c) ==
  LET sub(pairs) == [i \in DOMAIN pairs |-> [pairs[i] EXCEPT !.value = Sprinted(m, @)]]
      d == [c EXCEPT !.if = sub(@)]
  IN  IF c.do = "set" THEN [d EXCEPT !.value = Sprinted(m, @)]
      ELSE IF c.do = "toggle set" THEN [d EXCEPT !.blocks = [b \in DOMAIN @ |-> sub(@[b])]]
      ELSE d

\* Arguments that begin with "set" are left out when a key was pressed.
LeftOut(c) == process_what = "triggers" /\ c.do = "toggle set" /\ c.if = <<>>

Result(c) ==
  LET d == Substituted(Memory, c)
  IN  IF LeftOut(c) THEN Memory
      ELSE IF d.if = <<>> THEN Plain(Memory, d, FALSE) ELSE Trigger(Memory, d)

Store(m) ==
  /\ variable_list' = m.list /\ store' = m.text /\ actpos' = m.used
  /\ toggle_data' = m.toggles /\ vector' = m.vector /\ wild' = m.wild

\* A command is run.
Run(c) ==
  LET r == Result(c)
  IN  /\ Store(r)
      /\ failed' = (failed \/ ~ r.ok)
      /\ assigned' = assigned \cup (IF c.do = "set" THEN {c.name} ELSE {})

-------------------------------------------------------------------------------
(* The loader around them. *)

Init ==
  /\ variable_list = <<>> /\ store = <<>> /\ actpos = 0 /\ toggle_data = <<>>
  /\ vector = FALSE /\ wild = FALSE
  /\ files \in Configurations
  /\ curr_cfg = "root" /\ position = 1 /\ phase = "reading"
  /\ process_what = "all" /\ last_key_pressed = None
  /\ inputs = 0
  /\ pressed = None /\ assigned = {} /\ failed = FALSE /\ known = {} /\ begun = 0

File == files[curr_cfg]

\* process_cfg(): the next line; an error ends the reading and the user is given a
\* command line.
Line ==
  /\ phase = "reading" /\ position <= Len(File)
  /\ Run(File[position])
  /\ phase' = IF Result(File[position]).ok THEN "reading" ELSE "cmdline"
  /\ position' = position + 1
  /\ UNCHANGED <<files, curr_cfg, process_what, last_key_pressed, inputs, pressed, known, begun>>

\* The menu is shown, with the variables of the toggles, and get_user_input() waits.
\* For an entry without a variable what is before the list is printed.
Strayed ==
  \E s \in DOMAIN toggle_data : \E b \in 1..toggle_data[s].nr_blocks :
    \E v \in 1..toggle_data[s].block[b].nr_vars : toggle_data[s].block[b].var[v].var = 0
ShowMenu ==
  /\ phase = "reading" /\ position > Len(File)
  /\ phase' = "menu"
  /\ process_what' = "all"
  /\ known' = known \cup {curr_cfg}
  /\ wild' = Strayed
  /\ UNCHANGED <<variable_list, store, actpos, toggle_data, vector, files, curr_cfg, position,
                 last_key_pressed, inputs, pressed, assigned, failed, begun>>

\* KernelLoader(): a file is read; the memory is emptied for the first one, unless
\* only its triggers are wanted.
Emptied(cfg, what) == cfg = "root" /\ what = "all"
EmptyStoreKeepsToggles ==
  /\ variable_list' = <<>> /\ store' = <<>> /\ actpos' = 0 /\ UNCHANGED toggle_data
EmptyStore ==
  /\ variable_list' = <<>> /\ store' = <<>> /\ actpos' = 0 /\ toggle_data' = <<>>
Read(cfg, what) ==
  /\ curr_cfg' = cfg /\ position' = 1 /\ phase' = "reading" /\ process_what' = what
  /\ IF Emptied(cfg, what)
     THEN EmptyStore /\ assigned' = {} /\ failed' = FALSE /\ known' = {} /\ UNCHANGED <<vector, wild>>
     ELSE UNCHANGED <<mem, assigned, failed, known>>
  /\ begun' = actpos'

\* toggle_do_key() proceeds to the next block.
NextBlock(slot) ==
  IF slot.current_block + 1 = slot.nr_blocks THEN 0 ELSE slot.current_block + 1
AfterKeyShowsOld(key) ==
  LET s == Slot(Memory, key)
      m == IF toggle_data[s].current_block < toggle_data[s].nr_blocks
           THEN DoBlock(Memory, s, toggle_data[s].current_block + 1) ELSE Memory
  IN  [m EXCEPT !.toggles[s].current_block = NextBlock(toggle_data[s])]
AfterKey(key) ==
  LET s == Slot(Memory, key)
      m == [Memory EXCEPT !.toggles[s].current_block = NextBlock(toggle_data[s])]
      b == NextBlock(toggle_data[s])
  IN  IF b < toggle_data[s].nr_blocks THEN DoBlock(m, s, b + 1) ELSE m

\* toggle_print_status() finds a variable to print.
Printed ==
  \E s \in DOMAIN toggle_data : \E b \in 1..toggle_data[s].nr_blocks :
    toggle_data[s].block[b].nr_vars > 0

\* A key that is no toggle's; a toggle's key, after which the file's triggers are
\* processed.
OtherKey(key) ==
  /\ phase = "menu" /\ Slot(Memory, key) = 0
  /\ last_key_pressed' = key
  /\ pressed' = None
  /\ UNCHANGED <<mem, files, curr_cfg, position, process_what, phase, assigned, failed, known, begun>>

ToggleKey(key) ==
  /\ phase = "menu" /\ Slot(Memory, key) # 0
  /\ Store(AfterKey(key))
  /\ last_key_pressed' = key
  /\ IF Printed
     THEN /\ pressed' = [key |-> key, toggles |-> toggle_data]
          /\ position' = 1 /\ phase' = "reading" /\ process_what' = "triggers"
          /\ begun' = actpos
     ELSE pressed' = None /\ UNCHANGED <<position, phase, process_what, begun>>
  /\ UNCHANGED <<files, curr_cfg, assigned, failed, known>>

\* Another file is read: the script of a menu item names it, or backspace returns.
Configfile(cfg) ==
  /\ phase = "menu"
  /\ Read(cfg, "all")
  /\ pressed' = None
  /\ UNCHANGED <<files, last_key_pressed>>

\* Escape opens the command line and leaves it, when the file is read again; a
\* configfile typed there may have named another.
Escape ==
  /\ phase = "menu"
  /\ phase' = "cmdline"
  /\ pressed' = None
  /\ UNCHANGED <<mem, files, curr_cfg, position, process_what, last_key_pressed, assigned,
                 failed, known, begun>>
Leave(cfg) ==
  /\ phase = "cmdline"
  /\ Read(cfg, process_what)
  /\ pressed' = None
  /\ UNCHANGED <<files, last_key_pressed>>
Typed(c) ==
  /\ phase = "cmdline"
  /\ Run(c)
  /\ pressed' = None
  /\ UNCHANGED <<files, curr_cfg, position, process_what, last_key_pressed, phase, known, begun>>

Input ==
  /\ inputs < MaxInputs
  /\ inputs' = inputs + 1
  /\ \/ \E key \in Keys : OtherKey(key) \/ ToggleKey(key)
     \/ \E cfg \in {"root", "other"} : Configfile(cfg) \/ Leave(cfg)
     \/ Escape
     \/ \E c \in files.typed : Typed(c)

Next == ~ wild /\ (Line \/ ShowMenu \/ Input)

Spec == Init /\ [][Next]_vars

-------------------------------------------------------------------------------
(* Properties. *)

\* A text never runs into the next one, or out of what was allocated of the store,
\* however often and with whatever lengths the variables that point at it are set;
\* and every variable and every variable of a toggle's block points at a text that
\* has not been given up with an emptied store.  What a block counts is such a variable,
\* unless there was no room for it (process_var() stores -1 then).
TextsFit ==
  /\ actpos <= VARIABLE_STORE_SIZE
  /\ \A a \in DOMAIN store :
       /\ a + Length[store[a]] + 1 <= actpos
       /\ \A b \in DOMAIN store : a < b => a + Length[store[a]] + 1 <= b
PointersLive ==
  /\ TextsFit
  /\ \A i \in DOMAIN variable_list :
       variable_list[i].value # None => variable_list[i].value \in DOMAIN store
  /\ \A s \in DOMAIN toggle_data : \A b \in 1..MAX_BLOCKS :
       \A v \in 1..toggle_data[s].block[b].nr_vars :
         /\ toggle_data[s].block[b].var[v].value \in DOMAIN store
         /\ toggle_data[s].block[b].var[v].var \in DOMAIN variable_list \cup {0}

\* A toggle that has blocks is at one of them: what toggle_do_key() counts and
\* select sets can be used as an index.
CurrentIsABlock ==
  \A s \in DOMAIN toggle_data :
    toggle_data[s].nr_blocks > 0 => toggle_data[s].current_block < toggle_data[s].nr_blocks

Commands(file) == {file[i] : i \in DOMAIN file}
AllCommands == Commands(files.root) \cup Commands(files.other) \cup files.typed
Triggered == {c \in Commands(File) : c.if # <<>>}
NamesOf(c) ==
  IF c.do = "set" THEN {c.name}
  ELSE IF c.do = "toggle set" THEN UNION {{c.blocks[b][v].name : v \in DOMAIN c.blocks[b]} :
                                          b \in DOMAIN c.blocks}
  ELSE {}
KeysOf(c) ==
  IF c.do = "select" THEN {c.picks[i].key : i \in DOMAIN c.picks}
  ELSE IF c.do = "toggle set" THEN {c.key} ELSE {}

\* The menu after the key of a toggle: the toggle is at the block after the one it
\* was at, the first after the last, whatever the file's selects say, unless a
\* trigger writes the toggle anew; and every other toggle is where it was, unless a
\* trigger of the file moves it.
KeyMovesItsToggle ==
  phase = "menu" /\ pressed # None =>
    \A s \in DOMAIN pressed.toggles :
      LET slot == pressed.toggles[s]
      IN  /\ \/ slot.key # pressed.key \/ slot.nr_blocks = 0
             \/ \E c \in Triggered : c.do = "toggle set" /\ c.key = pressed.key
             \/ toggle_data[s].current_block = (slot.current_block + 1) % slot.nr_blocks
          /\ \/ slot.key \in {pressed.key} \cup UNION {KeysOf(c) : c \in Triggered}
             \/ toggle_data[s] = slot

\* No two toggles have a variable in common, nor set one a toggle has.
Apart ==
  \A c, d \in {c \in AllCommands : c.do \in {"set", "toggle set"}} :
    NamesOf(c) \cap NamesOf(d) # {} => c.do = d.do /\ (c.do = "set" \/ c.key = d.key)

\* All that write a block of a toggle have a variable at the same place of it:
\* process_var() takes a text that is there for the variable that was there.
OnePlace ==
  \A c, d \in {c \in AllCommands : c.do = "toggle set"} : c.key = d.key =>
    \A b \in DOMAIN c.blocks \cap DOMAIN d.blocks :
      \A v \in DOMAIN c.blocks[b], w \in DOMAIN d.blocks[b] :
        c.blocks[b][v].name = d.blocks[b][w].name => v = w

\* The variables shown at the menu are those of the blocks the toggles are at: the
\* reloads, triggers and selects between, and commands that fail, leave none behind,
\* unless one left an entry without its variable (wild).
ShownIsCurrent ==
  phase = "menu" /\ ~ wild /\ Apart /\ OnePlace
  => \A s \in DOMAIN toggle_data :
       LET block == toggle_data[s].block[toggle_data[s].current_block + 1]
       IN  toggle_data[s].nr_blocks > 0 =>
             \A v \in 1..block.nr_vars : variable_list[block.var[v].var].value = block.var[v].value

\* Nothing is written to a toggle or a variable twice but the same.
Fixed ==
  /\ Apart
  /\ \A c \in AllCommands : c.do # "select" => c.if = <<>>
  /\ \A c, d \in {c \in AllCommands : c.do \in {"set", "toggle set"}} :
       NamesOf(c) \cap NamesOf(d) # {} \/ KeysOf(c) \cap KeysOf(d) # {} => c = d
  /\ \A c \in AllCommands : c.do = "set" => c.value \notin DOMAIN Refers
  /\ \A c \in AllCommands : c.do = "toggle set" =>
       \A b \in DOMAIN c.blocks : \A v \in DOMAIN c.blocks[b] : c.blocks[b][v].value \notin DOMAIN Refers

\* A comment of process_var() says why it looks for the value a toggle has already:
\* "in case we're entering a menu multiple time we would allocate memory multiple
\* time".  A file that was read to its end costs nothing when it is read again,
\* after a key or because its menu is entered again.
AgainCostsNothing ==
  phase = "reading" /\ curr_cfg \in known /\ Fixed /\ ~ failed => actpos = begun

===============================================================================
