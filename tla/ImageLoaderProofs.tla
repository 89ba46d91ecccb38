-------------------------- MODULE ImageLoaderProofs --------------------------
(***************************************************************************)
(* Proofs about ImageLoader: what is loaded is neither overwritten nor     *)
(* given to the wrong kernel, for every page size, all kernels and modules *)
(* and any number of commands.                                             *)
(***************************************************************************)
EXTENDS ImageLoader, TLAPS, SequenceTheorems

Entries == [thing : Descriptions, text : Descriptions \cup {None}]

\* The types that the steps rely on.
Typed ==
  /\ kernel_type \in {"none", "multiboot", "os2ldr"}
  /\ cur_addr \in Nat
  /\ {image, cmdline, vbe} \subseteq Descriptions \cup {None}
  /\ mods \in Seq(Entries) /\ Len(mods) <= MaxMods
  /\ asked \in Seq(Named \cup {"lip"})
  /\ spoilt \subseteq Things
  /\ booted \in BOOLEAN /\ broken \in BOOLEAN /\ moved \in BOOLEAN
  /\ kernel_type = "multiboot" => image \in Descriptions /\ cmdline \in Descriptions

\* A thing ends where cur_addr points, or before; the zero behind a text begins there,
\* or before.
Under(t, a) == IF t.part = "zero" THEN t.size = 1 /\ t.at <= a ELSE t.at + t.size <= a

\* What may be lost: a zero where a page begins.
Minor(t) == t.part = "zero" /\ t.at = Up(t.at)

\* Everything named is under cur_addr, and nothing but zeros of that kind is lost.
Below ==
  kernel_type = "multiboot" /\ ~ moved
  => (\A t \in spoilt : Minor(t)) /\ \A t \in Things : Under(t, cur_addr)

\* A kernel is valid only if no script failed after it was loaded.
Unbroken == kernel_type = "multiboot" => ~ broken

Inv == Typed /\ Below /\ ModulesAsAsked /\ Unbroken

-------------------------------------------------------------------------------
(* Pages and lists. *)

\* A page's beginning that is not below an address is a natural number.
LEMMA UpType == ASSUME NEW a \in Nat PROVE Up(a) \in Nat /\ a <= Up(a)
<1> DEFINE n == a + PAGE - 1
<1>1. PAGE \in Nat /\ PAGE > 0 /\ n \in Nat
  BY ConstantsAssumption
<1>2. n \div PAGE \in Nat /\ n % PAGE \in 0..PAGE-1 /\ n = PAGE * (n \div PAGE) + (n % PAGE)
  <2> HIDE DEF n
  <2> QED BY <1>1
<1>3. Up(a) = PAGE * (n \div PAGE)
  <2>1. (n \div PAGE) * PAGE = PAGE * (n \div PAGE)
    <3> HIDE DEF n
    <3> QED BY <1>1, <1>2
  <2> QED BY <2>1 DEF Up
<1>4. Up(a) \in Nat
  <2> HIDE DEF n
  <2> QED BY <1>1, <1>2, <1>3
<1>5. Up(a) = n - (n % PAGE)
  <2> DEFINE up == Up(a)
  <2>1. n = up + (n % PAGE)
    BY <1>2, <1>3
  <2> HIDE DEF n, up
  <2>2. up \in Nat
    BY <1>4 DEF up
  <2>3. up = n - (n % PAGE)
    BY <1>1, <1>2, <2>1, <2>2
  <2> QED BY <2>3 DEF up
<1>6. n - (n % PAGE) >= a
  <2> DEFINE r == n % PAGE
  <2>1. r \in 0..PAGE-1
    BY <1>2
  <2> HIDE DEF r
  <2> QED BY <1>1, <2>1 DEF r
<1> QED BY <1>4, <1>5, <1>6

\* What is named after one more module: what was named, the module, its text, if it has
\* one, and the zero behind it.
LEMMA ThingsAppended ==
  ASSUME mods \in Seq(Entries), NEW e \in Entries, mods' = Append(mods, e),
         UNCHANGED <<image, cmdline, vbe>>
  PROVE  Things' = Things \cup {e.thing} \cup Ended({e.text} \ {None})
<1>1. DOMAIN mods = 1..Len(mods) /\ Len(mods) \in Nat
  OBVIOUS
<1>2. DOMAIN mods' = 1..(Len(mods) + 1) /\ mods'[Len(mods) + 1] = e
      /\ \A i \in DOMAIN mods : mods'[i] = mods[i]
  OBVIOUS
<1>3. \A i : i \in DOMAIN mods' <=> i \in DOMAIN mods \/ i = Len(mods) + 1
  BY <1>1, <1>2
<1>4. {mods'[i].thing : i \in DOMAIN mods'} = {mods[i].thing : i \in DOMAIN mods} \cup {e.thing}
  BY <1>2, <1>3
<1>5. {mods'[i].text : i \in DOMAIN mods'} = {mods[i].text : i \in DOMAIN mods} \cup {e.text}
  BY <1>2, <1>3
<1>6. Texts' = Texts \cup ({e.text} \ {None})
  BY <1>5 DEF Texts
<1>7. Ended(Texts') = Ended(Texts) \cup Ended({e.text} \ {None})
  BY <1>6 DEF Ended
<1>8. Things' = (({image, vbe} \ {None})') \cup {mods'[i].thing : i \in DOMAIN mods'} \cup Ended(Texts')
  BY DEF Things, Ended, Zero
<1> QED BY <1>4, <1>7, <1>8 DEF Things

\* The zero behind a text.
LEMMA ZeroType ==
  ASSUME NEW t \in Descriptions
  PROVE  /\ Zero(t) \in Descriptions /\ Zero(t).part = "zero"
         /\ Zero(t).at = t.at + t.size /\ Zero(t).size = 1
  BY DEF Descriptions, Zero

\* What is named is described.
LEMMA ThingsType ==
  ASSUME mods \in Seq(Entries), {image, cmdline, vbe} \subseteq Descriptions \cup {None}
  PROVE  Things \subseteq Descriptions
<1>1. \A i \in DOMAIN mods : mods[i] \in Entries
  OBVIOUS
<1>2. \A i \in DOMAIN mods :
        mods[i].thing \in Descriptions /\ mods[i].text \in Descriptions \cup {None}
  BY <1>1 DEF Entries
<1>3. Texts \subseteq Descriptions
  BY <1>2 DEF Texts
<1>4. Ended(Texts) \subseteq Descriptions
  BY <1>3, ZeroType DEF Ended
<1> QED BY <1>2, <1>4 DEF Things

\* Of what is under cur_addr nothing but a zero is overwritten by what is put at the
\* next page, and only if that page begins there.
LEMMA OnlyMinor ==
  ASSUME NEW t \in Descriptions, NEW c \in Nat, NEW n \in Nat, Under(t, c),
         Over(t, Up(c), n)
  PROVE  Minor(t)
<1>1. Up(c) \in Nat /\ c <= Up(c)
  BY UpType
<1>2. t.at \in Nat /\ t.size \in Nat
  BY DEF Descriptions
<1>3. Up(c) < t.at + t.size
  BY DEF Over
<1> DEFINE up == Up(c)
<1>4. up \in Nat /\ c <= up /\ up < t.at + t.size
  BY <1>1, <1>3
<1>5. t.part = "zero"
  <2> HIDE DEF up
  <2> QED BY <1>2, <1>4 DEF Under
<1>6. t.at = c /\ up = c
  <2>1. t.size = 1 /\ t.at <= c
    BY <1>5 DEF Under
  <2> HIDE DEF up
  <2> QED BY <1>2, <1>4, <2>1
<1>7. t.at = Up(t.at)
  BY <1>6
<1> QED BY <1>5, <1>7 DEF Minor

\* So what was lost before and what is lost now is of that kind.
LEMMA SpoiltMinor ==
  ASSUME NEW things \in SUBSET Descriptions, NEW c \in Nat, NEW n \in Nat,
         \A t \in spoilt : Minor(t), \A t \in things : Under(t, c)
  PROVE  \A t \in Spoilt(things, Up(c), n) : Minor(t)
  BY OnlyMinor DEF Spoilt

\* What is under an address is under those behind it.
LEMMA UnderGrows ==
  ASSUME NEW things \in SUBSET Descriptions, NEW a \in Nat, NEW b \in Nat, a <= b,
         \A t \in things : Under(t, a)
  PROVE  \A t \in things : Under(t, b)
<1>1. \A t \in things : t.at \in Nat /\ t.size \in Nat
  BY DEF Descriptions
<1> QED BY <1>1 DEF Under

\* Where a text is under an address, so is its zero.
LEMMA EndedUnder ==
  ASSUME NEW t \in Descriptions, NEW a \in Nat, t.part # "zero", t.at + t.size <= a
  PROVE  \A u \in Ended({t}) : u \in Descriptions /\ Under(u, a)
<1>1. Ended({t}) = {t, Zero(t)}
  BY DEF Ended
<1>2. Under(t, a)
  BY DEF Under
<1>3. Under(Zero(t), a)
  BY ZeroType DEF Under
<1> QED BY <1>1, <1>2, <1>3, ZeroType

-------------------------------------------------------------------------------
(* The steps. *)

\* Nothing is loaded to begin with.
LEMMA InvInit == Init => Inv
<1> SUFFICES ASSUME Init PROVE Inv
  OBVIOUS
<1>1. Things = {}
  BY DEF Init, Things, Texts, Ended
<1>2. MaxMods \in Nat
  BY ConstantsAssumption
<1>3. mods \in Seq(Entries) /\ Len(mods) <= MaxMods /\ asked \in Seq(Named \cup {"lip"})
  <2>1. Len(mods) = 0 /\ mods \in Seq(Entries)
    BY DEF Init
  <2>2. asked \in Seq(Named \cup {"lip"})
    BY DEF Init
  <2> QED BY <1>2, <2>1, <2>2
<1>4. Typed
  BY <1>1, <1>3 DEF Init, Typed
<1> QED BY <1>1, <1>4 DEF Init, Inv, Below, ModulesAsAsked, Unbroken

\* A module of any kind is put at a page not below cur_addr, and cur_addr is moved
\* behind it and its text.
LEMMA ModuleKeepsInv ==
  ASSUME Inv, NEW e \in Entries, NEW at \in Nat, NEW n \in Nat, NEW lost,
         e.thing.what \in Named \cup {"lip"}, e.thing.part = "file",
         at = Up(cur_addr), cur_addr <= at, at <= cur_addr', cur_addr' \in Nat,
         e.thing.at + e.thing.size <= cur_addr',
         e.text # None => e.text.part = "text" /\ e.text.at + e.text.size <= cur_addr',
         Len(mods) < MaxMods,
         spoilt' = Spoilt(Things, at, n) \cup lost,
         lost \subseteq Ended({e.text} \ {None}), \A t \in lost : Minor(t),
         mods' = Append(mods, e), asked' = Append(asked, e.thing.what),
         UNCHANGED <<kernel_type, image, cmdline, vbe, booted, broken, moved>>
  PROVE  Inv'
<1>1. Things' = Things \cup {e.thing} \cup Ended({e.text} \ {None})
  BY ThingsAppended DEF Inv, Typed
<1>2. Things \subseteq Descriptions
  BY ThingsType DEF Inv, Typed
<1>3. spoilt' \subseteq Things'
  BY <1>1 DEF Spoilt
<1>4. mods' \in Seq(Entries) /\ Len(mods') = Len(mods) + 1
  BY DEF Inv, Typed
<1>5. Len(mods') <= MaxMods
  <2>1. MaxMods \in Nat /\ Len(mods) \in Nat
    BY ConstantsAssumption DEF Inv, Typed
  <2> QED BY <1>4, <2>1
<1>6. asked' \in Seq(Named \cup {"lip"})
  BY DEF Inv, Typed
<1>7. Typed'
  BY <1>3, <1>4, <1>5, <1>6 DEF Inv, Typed
<1>8. Below'
  <2> SUFFICES ASSUME kernel_type = "multiboot", ~ moved
               PROVE  (\A t \in spoilt' : Minor(t)) /\ \A t \in Things' : Under(t, cur_addr')
    BY DEF Below, Minor, Up
  <2>1. (\A t \in spoilt : Minor(t)) /\ \A t \in Things : Under(t, cur_addr)
    BY DEF Inv, Below
  <2>2. cur_addr \in Nat
    BY DEF Inv, Typed
  <2>3. cur_addr <= cur_addr'
    BY <2>2
  <2>4. \A t \in Things : Under(t, cur_addr')
    BY <1>2, <2>1, <2>2, <2>3, UnderGrows
  <2>5. \A t \in spoilt' : Minor(t)
    <3>1. \A t \in Spoilt(Things, Up(cur_addr), n) : Minor(t)
      BY <1>2, <2>1, <2>2, SpoiltMinor
    <3> QED BY <3>1
  <2>6. Under(e.thing, cur_addr')
    BY DEF Under
  <2>7. \A t \in Ended({e.text} \ {None}) : Under(t, cur_addr')
    <3>1. CASE e.text = None
      BY <3>1 DEF Ended
    <3>2. CASE e.text # None
      <4>1. e.text \in Descriptions /\ {e.text} \ {None} = {e.text}
        BY <3>2 DEF Entries
      <4> QED BY <3>2, <4>1, EndedUnder
    <3> QED BY <3>1, <3>2
  <2> QED BY <1>1, <2>4, <2>5, <2>6, <2>7
<1>9. ModulesAsAsked'
  <2> SUFFICES ASSUME kernel_type = "multiboot"
               PROVE  [i \in DOMAIN mods' |-> mods'[i].thing.what] = asked'
    BY DEF ModulesAsAsked
  <2>1. [i \in DOMAIN mods |-> mods[i].thing.what] = asked
    BY DEF Inv, ModulesAsAsked
  <2>2. DOMAIN asked = DOMAIN mods /\ Len(asked) = Len(mods)
        /\ \A i \in DOMAIN mods : asked[i] = mods[i].thing.what
    BY <2>1 DEF Inv, Typed
  <2>3. DOMAIN mods' = 1..(Len(mods) + 1) /\ DOMAIN asked' = 1..(Len(mods) + 1)
    BY <2>2 DEF Inv, Typed
  <2>4. \A i \in 1..(Len(mods) + 1) : asked'[i] = mods'[i].thing.what
    <3>1. \A i \in 1..Len(mods) : asked'[i] = asked[i] /\ mods'[i] = mods[i]
      BY <2>2 DEF Inv, Typed
    <3>2. asked'[Len(mods) + 1] = e.thing.what /\ mods'[Len(mods) + 1] = e
      BY <2>2 DEF Inv, Typed
    <3>3. DOMAIN mods = 1..Len(mods) /\ Len(mods) \in Nat
      BY DEF Inv, Typed
    <3> QED BY <2>2, <3>1, <3>2, <3>3
  <2>5. asked' = [i \in 1..(Len(mods) + 1) |-> asked'[i]]
    BY <1>6, <2>3
  <2> QED BY <2>3, <2>4, <2>5
<1> QED BY <1>7, <1>8, <1>9 DEF Inv, Unbroken

\* Most modules lose nothing of their own.
LEMMA PlainKeepsInv ==
  ASSUME Inv, NEW e \in Entries, NEW at \in Nat, NEW n \in Nat,
         e.thing.what \in Named \cup {"lip"}, e.thing.part = "file",
         at = Up(cur_addr), cur_addr <= at, at <= cur_addr', cur_addr' \in Nat,
         e.thing.at + e.thing.size <= cur_addr',
         e.text # None => e.text.part = "text" /\ e.text.at + e.text.size <= cur_addr',
         Len(mods) < MaxMods, spoilt' = Spoilt(Things, at, n),
         mods' = Append(mods, e), asked' = Append(asked, e.thing.what),
         UNCHANGED <<kernel_type, image, cmdline, vbe, booted, broken, moved>>
  PROVE  Inv'
<1> DEFINE lost == {}
<1>1. spoilt' = Spoilt(Things, at, n) \cup lost /\ lost \subseteq Ended({e.text} \ {None})
      /\ \A t \in lost : Minor(t)
  OBVIOUS
<1> HIDE DEF lost
<1> QED BY <1>1, ModuleKeepsInv

\* Nothing is named differently, cur_addr does not go back unless moved says so, and
\* the kernel is given up if a script fails.
LEMMA OthersKeepInv ==
  ASSUME Inv, cur_addr' \in Nat, UNCHANGED <<image, cmdline, mods, vbe, asked>>,
         spoilt' \subseteq Things,
         (\A t \in spoilt' : Minor(t)) \/ ~ (kernel_type' = "multiboot") \/ moved',
         kernel_type' \in {kernel_type, "none", "os2ldr"},
         booted' \in BOOLEAN, broken' \in BOOLEAN, moved' \in BOOLEAN,
         kernel_type' = "multiboot" => ~ broken' /\ (moved' \/ (~ moved /\ cur_addr <= cur_addr'))
  PROVE  Inv'
<1>1. Things' = Things
  <2>1. Texts' = Texts
    BY DEF Texts
  <2>2. Ended(Texts)' = Ended(Texts)
    BY <2>1 DEF Ended, Zero
  <2> QED BY <2>2 DEF Things
<1>2. Typed'
  BY <1>1 DEF Inv, Typed
<1>3. Below'
  <2> SUFFICES ASSUME kernel_type' = "multiboot", ~ moved'
               PROVE  (\A t \in spoilt' : Minor(t)) /\ \A t \in Things : Under(t, cur_addr')
    BY <1>1 DEF Below, Minor, Up
  <2>1. kernel_type = "multiboot" /\ ~ moved /\ cur_addr <= cur_addr' /\ \A t \in spoilt' : Minor(t)
    OBVIOUS
  <2>2. \A t \in Things : Under(t, cur_addr)
    BY <2>1 DEF Inv, Below
  <2>3. Things \subseteq Descriptions
    BY ThingsType DEF Inv, Typed
  <2>5. cur_addr \in Nat
    BY DEF Inv, Typed
  <2> QED BY <2>1, <2>2, <2>3, <2>5, UnderGrows
<1>4. ModulesAsAsked'
  BY DEF Inv, ModulesAsAsked
<1> QED BY <1>2, <1>3, <1>4 DEF Inv, Unbroken

\* The constants of a kernel and of a module.
LEMMA KernelType ==
  ASSUME NEW k \in Kernels
  PROVE  /\ k.name \in Named /\ k.format \in {"elf", "kludge"}
         /\ k.load \in Nat /\ k.file \in Nat /\ k.mem \in Nat /\ k.syms \in Nat /\ k.arg \in Nat
         /\ k.file <= k.mem
  BY ConstantsAssumption

LEMMA ModuleType ==
  ASSUME NEW m \in Modules
  PROVE  m.name \in Named /\ m.size \in Nat /\ m.arg \in Nat
  BY ConstantsAssumption

\* Commands that fail.
LEMMA CommandKeepsInv ==
  ASSUME Inv, NEW script \in BOOLEAN, Command(script)
  PROVE  Inv'
<1> USE DEF Command
<1>1. CASE OtherFails(script)
  <2>1. cur_addr \in Nat /\ kernel_type = "multiboot" => ~ broken
    BY DEF Inv, Typed, Unbroken
  <2>2. spoilt' \subseteq Things /\ ((\A t \in spoilt' : Minor(t)) \/ ~ (kernel_type' = "multiboot") \/ moved')
    BY <1>1 DEF OtherFails, Failed, Inv, Typed, Below
  <2> QED BY <1>1, <2>1, <2>2, OthersKeepInv DEF OtherFails, Failed, Inv, Typed, Unbroken, listed
<1>2. ASSUME NEW m \in Modules, ModuleFails(m, script)
      PROVE  Inv'
  <2>1. cur_addr \in Nat /\ Up(cur_addr) \in Nat /\ cur_addr <= Up(cur_addr)
    BY UpType DEF Inv, Typed
  <2>2. cur_addr' \in Nat /\ cur_addr <= cur_addr'
    BY <1>2, <2>1 DEF ModuleFails
  <2>3. spoilt' \subseteq Things /\ ((\A t \in spoilt' : Minor(t)) \/ ~ (kernel_type' = "multiboot") \/ moved')
    BY <1>2 DEF ModuleFails, Failed, Inv, Typed, Below
  <2> QED BY <1>2, <2>2, <2>3, OthersKeepInv DEF ModuleFails, Failed, Inv, Typed, Unbroken, listed
<1>3. ASSUME NEW k \in Kernels, KernelRefused(k, script)
      PROVE  Inv'
  <2>1. cur_addr' \in Nat
    BY <1>3, KernelType DEF KernelRefused, Inv, Typed
  <2> QED BY <1>3, <2>1, OthersKeepInv DEF KernelRefused, NoType, Inv, Typed, listed
<1>4. ASSUME NEW k \in Kernels, NEW typed \in BOOLEAN, KernelBroken(k, typed, script)
      PROVE  Inv'
  <2>1. PICK wrote, end \in Nat : LeftBroken(k, wrote, end, typed)
    <3>1. k.load + k.mem \in Nat
      BY KernelType
    <3>2. \A bad \in BOOLEAN : AfterImage(k, bad) \in Nat
      BY <3>1, KernelType, UpType DEF AfterImage
    <3> QED BY <1>4, <3>1, <3>2, KernelType DEF KernelBroken
  <2>2. mods' = <<>> /\ UNCHANGED <<image, vbe, booted, asked, moved>>
        /\ kernel_type' = "none" /\ broken' = (broken \/ script)
    BY <1>4 DEF KernelBroken, MbiCleared
  <2>3. cur_addr' \in Nat /\ cmdline' \in Descriptions \cup {None}
    <3>1. CASE typed
      BY <2>1, <3>1 DEF LeftBroken, Inv, Typed
    <3>2. CASE ~ typed
      <4>1. Up(end) \in Nat /\ k.arg \in Nat /\ k.name \in Named
        BY UpType, KernelType
      <4> QED BY <2>1, <3>2, <4>1 DEF LeftBroken, Descriptions, Text
    <3> QED BY <3>1, <3>2
  <2>4. spoilt' \subseteq Things'
    <3>1. ({image, vbe} \ {None}) \cup Ended({cmdline'} \ {None}) \subseteq Things'
      BY <2>2 DEF Things, Texts, Ended, Zero
    <3>2. CASE typed
      <4>1. cmdline' = cmdline
            /\ spoilt' \subseteq ({image, vbe} \ {None}) \cup Ended({cmdline} \ {None})
        BY <2>1, <3>2 DEF LeftBroken, Spoilt
      <4> QED BY <3>1, <4>1
    <3>3. CASE ~ typed
      BY <2>1, <3>1, <3>3 DEF LeftBroken
    <3> QED BY <3>2, <3>3
  <2>5. mods' \in Seq(Entries) /\ Len(mods') <= MaxMods
    <3>1. mods' \in Seq(Entries) /\ Len(mods') = 0 /\ MaxMods \in Nat
      BY <2>2, ConstantsAssumption
    <3> QED BY <3>1
  <2>6. Typed'
    BY <2>2, <2>3, <2>4, <2>5 DEF Inv, Typed
  <2> QED BY <2>2, <2>6 DEF Inv, Below, ModulesAsAsked, Unbroken
<1> QED BY <1>1, <1>2, <1>3, <1>4

\* A kernel is loaded: its command line lies behind its image.
LEMMA KernelKeepsInv ==
  ASSUME Inv, NEW k \in Kernels, NEW got \in 0..k.file, NEW bad \in BOOLEAN,
         KernelLoaded(k, got, bad)
  PROVE  Inv'
<1> DEFINE at == Up(AfterImage(k, bad))
<1>1. k.load + k.mem \in Nat /\ Up(k.load + k.mem) \in Nat /\ k.load + k.mem <= Up(k.load + k.mem)
  BY KernelType, UpType
<1>2. AfterImage(k, bad) \in Nat
  BY <1>1, KernelType DEF AfterImage
<1>3. at \in Nat /\ AfterImage(k, bad) <= at
  BY <1>2, UpType
<1>4. /\ image' = Thing(k.name, k.load, got)
      /\ cmdline' = Text(k.name, at, k.arg)
      /\ cur_addr' = at + k.arg
      /\ moved' = bad
      /\ spoilt' = {t \in {image'} : Over(t, at, k.arg + 1)}
      /\ kernel_type' = "multiboot" /\ mods' = <<>> /\ vbe' = None /\ asked' = <<>>
      /\ broken' = FALSE /\ UNCHANGED booted
  BY DEF KernelLoaded, MbiCleared
<1> HIDE DEF at
<1>5. image' \in Descriptions /\ cmdline' \in Descriptions
  BY <1>3, <1>4, KernelType DEF Descriptions, Thing, Text
<1>6. mods' \in Seq(Entries) /\ Len(mods') <= MaxMods /\ asked' \in Seq(Named \cup {"lip"})
  <2>1. mods' \in Seq(Entries) /\ Len(mods') = 0 /\ MaxMods \in Nat
    BY <1>4, ConstantsAssumption
  <2>2. asked' \in Seq(Named \cup {"lip"})
    BY <1>4
  <2> QED BY <2>1, <2>2
<1>7. Things' = {image'} \cup Ended({cmdline'})
  <2>1. Texts' = {cmdline'}
    BY <1>4, <1>5, NoneAssumption DEF Texts
  <2>2. Ended(Texts)' = Ended({cmdline'})
    BY <2>1 DEF Ended, Zero
  <2> QED BY <1>4, <1>5, <2>2, NoneAssumption DEF Things
<1>8. cur_addr' \in Nat
  BY <1>3, <1>4, KernelType
<1>9. Typed'
  BY <1>4, <1>5, <1>6, <1>7, <1>8 DEF Inv, Typed
<1>10. ASSUME ~ bad
       PROVE  spoilt' = {} /\ \A t \in Things' : Under(t, cur_addr')
  <2>1. k.load + k.mem <= AfterImage(k, bad)
    BY <1>1, <1>10, KernelType DEF AfterImage
  <2>2. image'.at + image'.size <= at /\ image'.at \in Nat /\ image'.size \in Nat
    BY <1>1, <1>2, <1>3, <1>4, <2>1, KernelType DEF Thing
  <2>3. cmdline'.at + cmdline'.size <= cur_addr' /\ cmdline'.part = "text"
    BY <1>4, <1>8 DEF Text
  <2>4. ~ Over(image', at, k.arg + 1)
    BY <1>3, <2>2 DEF Over
  <2>5. image'.part = "file" /\ at <= cur_addr'
    BY <1>3, <1>4, KernelType DEF Thing
  <2>6. Under(image', cur_addr')
    BY <1>3, <1>8, <2>2, <2>5 DEF Under
  <2>7. \A t \in Ended({cmdline'}) : Under(t, cur_addr')
    BY <1>5, <1>8, <2>3, EndedUnder
  <2> QED BY <1>4, <1>7, <2>4, <2>6, <2>7
<1>11. Below'
  BY <1>4, <1>10 DEF Below, Minor, Up, Under
<1>12. ModulesAsAsked'
  <2>1. DOMAIN mods' = {} /\ asked' = [i \in {} |-> mods'[i].thing.what]
    BY <1>4
  <2> QED BY <2>1 DEF ModulesAsAsked
<1> QED BY <1>4, <1>9, <1>11, <1>12 DEF Inv, Unbroken

\* The four ways to load a module.
LEMMA LoadKeepsInv ==
  ASSUME Inv,
         \/ \E m \in Modules : \E got \in 1..m.size : ModuleLoaded(m, got)
         \/ \E m \in Modules : BsModuleLoaded(m)
         \/ LipModule
         \/ \E m \in Modules, i, c \in Expanded : Preprocess(m, i, c)
  PROVE  Inv'
<1> DEFINE at == Up(cur_addr)
<1>1. at \in Nat /\ cur_addr <= at /\ at = Up(cur_addr)
  BY UpType DEF Inv, Typed
<1>2. ASSUME NEW m \in Modules, NEW got \in 1..m.size, ModuleLoaded(m, got)
      PROVE  Inv'
  <2> DEFINE e == Entry(m.name, at, got, at + got, m.arg)
  <2>1. /\ Len(mods) < MaxMods /\ spoilt' = Spoilt(Things, at, got + m.arg + 1) /\ mods' = Append(mods, e)
        /\ cur_addr' = at + got + m.arg /\ asked' = Append(asked, m.name)
        /\ UNCHANGED <<kernel_type, image, cmdline, vbe, booted, broken, moved>>
    BY <1>2 DEF ModuleLoaded, AfterText, Put
  <2> HIDE DEF at
  <2>2. got \in Nat /\ m.arg \in Nat /\ m.name \in Named
    BY ModuleType
  <2>3. e \in Entries /\ e.thing.what = m.name /\ e.thing.part = "file"
    BY <1>1, <2>2 DEF Entries, Descriptions, Entry, Thing, Text
  <2>4. /\ e.thing.at + e.thing.size = at + got /\ e.text.at + e.text.size = at + got + m.arg
        /\ e.text.part = "text"
    BY DEF Entry, Thing, Text
  <2>5. at <= cur_addr' /\ cur_addr' \in Nat /\ at + got <= cur_addr' /\ got + m.arg + 1 \in Nat
    <3>1. cur_addr' = at + got + m.arg
      BY <2>1
    <3> QED BY <1>1, <2>2, <3>1
  <2> HIDE DEF e
  <2>6. e.thing.at + e.thing.size <= cur_addr' /\ e.text.at + e.text.size <= cur_addr'
    BY <2>1, <2>4, <2>5
  <2>7. e.thing.what \in Named \cup {"lip"} /\ asked' = Append(asked, e.thing.what)
    BY <2>1, <2>2, <2>3
  <2> QED BY <1>1, <2>1, <2>3, <2>5, <2>6, <2>4, <2>7, PlainKeepsInv
<1>3. ASSUME NEW m \in Modules, BsModuleLoaded(m)
      PROVE  Inv'
  <2> DEFINE e == [thing |-> Thing(m.name, at, m.size), text |-> None]
  <2>1. /\ Len(mods) < MaxMods /\ spoilt' = Spoilt(Things, at, m.size) /\ mods' = Append(mods, e)
        /\ cur_addr' = at + m.size /\ asked' = Append(asked, m.name)
        /\ UNCHANGED <<kernel_type, image, cmdline, vbe, booted, broken, moved>>
    BY <1>3 DEF BsModuleLoaded, Put
  <2> HIDE DEF at
  <2>2. m.size \in Nat /\ m.name \in Named
    BY ModuleType
  <2>3. e \in Entries /\ e.thing.what = m.name /\ e.thing.part = "file"
    BY <1>1, <2>2 DEF Entries, Descriptions, Entry, Thing, Text
  <2>4. e.thing.at + e.thing.size = at + m.size /\ e.text = None
    BY DEF Thing
  <2>5. at <= cur_addr' /\ cur_addr' \in Nat /\ at + m.size <= cur_addr'
    BY <1>1, <2>1, <2>2
  <2> HIDE DEF e
  <2> QED BY <1>1, <2>1, <2>2, <2>3, <2>4, <2>5, PlainKeepsInv
<1>4. CASE LipModule
  <2> DEFINE e == Entry("lip", at, LipSize, at + LipSize, 0)
  <2>1. /\ Len(mods) < MaxMods /\ spoilt' = Spoilt(Things, at, LipSize + 1) /\ mods' = Append(mods, e)
        /\ cur_addr' = at + LipSize + 1 /\ asked' = Append(asked, "lip")
        /\ UNCHANGED <<kernel_type, image, cmdline, vbe, booted, broken, moved>>
    BY <1>4 DEF LipModule, Put
  <2> HIDE DEF at
  <2>2. LipSize \in Nat
    BY ConstantsAssumption
  <2>3. e \in Entries /\ e.thing.what = "lip" /\ e.thing.part = "file"
    BY <1>1, <2>2 DEF Entries, Descriptions, Entry, Thing, Text
  <2>4. /\ e.thing.at + e.thing.size = at + LipSize /\ e.text.at + e.text.size = at + LipSize + 0
        /\ e.text.part = "text"
    BY DEF Entry, Thing, Text
  <2>5. /\ at <= cur_addr' /\ cur_addr' \in Nat /\ at + LipSize <= cur_addr'
        /\ at + LipSize + 0 <= cur_addr' /\ LipSize + 1 \in Nat
    BY <1>1, <2>1, <2>2
  <2> HIDE DEF e
  <2> QED BY <1>1, <2>1, <2>3, <2>4, <2>5, PlainKeepsInv
<1>5. ASSUME NEW m \in Modules, NEW i \in Expanded, NEW c \in Expanded, Preprocess(m, i, c)
      PROVE  Inv'
  <2> DEFINE first == Up(at + m.size + m.arg)
             last  == Up(first + i)
             e     == Entry(m.name, last, c, at + m.size, m.arg)
  <2> DEFINE lost == {t \in {Zero(e.text)} : Over(t, first, last + c - first)}
  <2>1. /\ Len(mods) < MaxMods /\ mods' = Append(mods, e)
        /\ spoilt' = Spoilt(Things, at, last + c - at) \cup lost
        /\ cur_addr' = Up(last + c) /\ asked' = Append(asked, m.name)
        /\ UNCHANGED <<kernel_type, image, cmdline, vbe, booted, broken, moved>>
    BY <1>5 DEF Preprocess
  <2>2. m.size \in Nat /\ m.arg \in Nat /\ m.name \in Named /\ i \in Nat /\ c \in Nat
    BY ModuleType, ConstantsAssumption
  <2> HIDE DEF at
  <2>a. at + m.size + m.arg \in Nat
    BY <1>1, <2>2
  <2>3. /\ first \in Nat /\ at + m.size + m.arg <= first
        /\ first = Up(at + m.size + m.arg)
    BY <2>a, UpType
  <2> HIDE DEF first
  <2>4. last \in Nat /\ first + i <= last
    BY <2>2, <2>3, UpType
  <2> HIDE DEF last
  <2>5. cur_addr' \in Nat /\ last + c <= cur_addr'
    <3>1. last + c \in Nat
      BY <2>2, <2>4
    <3>2. Up(last + c) \in Nat /\ last + c <= Up(last + c)
      BY <3>1, UpType
    <3> QED BY <2>1, <3>2
  <2>6. e \in Entries /\ e.thing.what = m.name /\ e.thing.part = "file"
    BY <1>1, <2>2, <2>4 DEF Entries, Descriptions, Entry, Thing, Text
  <2>7. /\ e.thing.at + e.thing.size = last + c /\ e.text.at + e.text.size = at + m.size + m.arg
        /\ e.text.part = "text" /\ e.text # None
    <3>1. e.text = Text(m.name, at + m.size, m.arg) /\ e.thing = Thing(m.name, last, c)
      BY DEF Entry
    <3>2. Text(m.name, at + m.size, m.arg) \in Descriptions
      BY <1>1, <2>2 DEF Text, Descriptions
    <3> QED BY <3>1, <3>2, NoneAssumption DEF Thing, Text
  <2>8. at <= cur_addr' /\ at + m.size + m.arg <= cur_addr' /\ last + c - at \in Nat
    BY <1>1, <2>2, <2>3, <2>4, <2>5
  <2>9. e.text \in Descriptions
    BY <2>6, <2>7 DEF Entries
  <2> HIDE DEF e
  <2>10. lost \subseteq Ended({e.text} \ {None})
    BY <2>7 DEF Ended
  <2>11. ASSUME NEW t \in lost PROVE Minor(t)
    <3>1. t = Zero(e.text) /\ Over(t, first, last + c - first)
      BY <2>11
    <3>2. t \in Descriptions /\ t.part = "zero" /\ t.size = 1 /\ t.at = at + m.size + m.arg
      BY <2>7, <2>9, <3>1, ZeroType
    <3>3. first <= t.at
      BY <2>3, <2>a, <3>1, <3>2 DEF Over
    <3>4. t.at = first
      BY <2>3, <2>a, <3>2, <3>3
    <3> QED BY <2>3, <3>2, <3>4 DEF Minor
  <2> HIDE DEF lost
  <2>12. at + m.size + m.arg <= cur_addr'
    BY <2>8
  <2> QED BY <1>1, <2>1, <2>2, <2>5, <2>6, <2>7, <2>8, <2>10, <2>11, <2>12, ModuleKeepsInv
<1> QED BY <1>2, <1>3, <1>4, <1>5

\* What moves cur_addr, and what loads nothing.
LEMMA RestKeepsInv ==
  ASSUME Inv, (\E a \in Addresses : ModAddr(a)) \/ Edit \/ Os2ldr \/ Boot \/ UNCHANGED vars
  PROVE  Inv'
<1>1. cur_addr \in Nat /\ moved \in BOOLEAN /\ broken \in BOOLEAN /\ booted \in BOOLEAN
  BY DEF Inv, Typed
<1>2. spoilt \subseteq Things /\ ((\A t \in spoilt : Minor(t)) \/ ~ (kernel_type = "multiboot") \/ moved)
  BY DEF Inv, Typed, Below
<1>3. kernel_type = "multiboot" => ~ broken
  BY DEF Inv, Unbroken
<1>4. ASSUME NEW a \in Addresses, ModAddr(a)
      PROVE  Inv'
  <2>1. a \in Nat
    BY ConstantsAssumption
  <2>2. cur_addr' = a /\ moved' = (moved \/ a < cur_addr)
        /\ UNCHANGED <<kernel_type, image, cmdline, mods, vbe, spoilt, booted, asked, broken>>
    BY <1>4 DEF ModAddr, listed
  <2>3. moved' \in BOOLEAN
    BY <2>2
  <2>4. ASSUME ~ moved' PROVE ~ moved /\ cur_addr <= cur_addr'
    <3>1. ~ moved /\ ~ (a < cur_addr)
      BY <2>2, <2>4
    <3> QED BY <1>1, <2>1, <2>2, <3>1
  <2>5. (\A t \in spoilt' : Minor(t)) \/ ~ (kernel_type' = "multiboot") \/ moved'
    BY <1>2, <2>2
  <2> QED BY <1>1, <1>2, <1>3, <2>1, <2>2, <2>3, <2>4, <2>5, OthersKeepInv
<1>5. CASE Edit
  <2>1. EditAt \in Nat /\ EditSize \in Nat
    BY ConstantsAssumption
  <2>2. cur_addr' \in Nat /\ moved' \in BOOLEAN
    BY <1>1, <1>5, <2>1 DEF Edit
  <2>3. spoilt' \subseteq Things
    BY <1>5 DEF Edit, Put, Spoilt
  <2>4. ASSUME ~ moved' PROVE ~ moved /\ cur_addr <= EditAt
    <3>1. ~ moved /\ ~ (EditAt < cur_addr)
      BY <1>5, <2>4 DEF Edit
    <3> QED BY <1>1, <2>1, <3>1
  <2>5. (\A t \in spoilt' : Minor(t)) \/ ~ (kernel_type' = "multiboot") \/ moved'
    <3> SUFFICES ASSUME kernel_type = "multiboot", ~ moved' PROVE \A t \in spoilt' : Minor(t)
      BY <1>5 DEF Edit
    <3>1. Things \subseteq Descriptions
      BY ThingsType DEF Inv, Typed
    <3>2. (\A t \in spoilt : Minor(t)) /\ \A t \in Things : Under(t, cur_addr)
      BY <2>4 DEF Inv, Below
    <3>3. \A t \in Things : Under(t, EditAt)
      BY <1>1, <2>1, <2>4, <3>1, <3>2, UnderGrows
    <3>4. spoilt' = Spoilt(Things, Up(EditAt), EditSize)
      BY <1>5, EditAssumption DEF Edit, Put
    <3> QED BY <2>1, <3>1, <3>2, <3>3, <3>4, SpoiltMinor
  <2>6. ~ moved' => ~ moved /\ cur_addr <= cur_addr'
    BY <1>1, <1>5, <2>1, <2>4 DEF Edit
  <2> QED BY <1>1, <1>3, <1>5, <2>2, <2>3, <2>5, <2>6, OthersKeepInv DEF Edit, listed
<1>6. CASE Os2ldr
  BY <1>1, <1>2, <1>6, OthersKeepInv DEF Os2ldr, listed, ghosts
<1>7. CASE Boot
  BY <1>1, <1>2, <1>3, <1>7, OthersKeepInv DEF Boot, listed, ghosts
<1>8. CASE UNCHANGED vars
  BY <1>1, <1>2, <1>3, <1>8, OthersKeepInv DEF vars, listed, ghosts
<1> QED BY <1>4, <1>5, <1>6, <1>7, <1>8

\* The VBE description takes the place of the one before.
LEMMA VbeKeepsInv ==
  ASSUME Inv, VbeSet
  PROVE  Inv'
<1> DEFINE at == Up(cur_addr)
<1>1. at \in Nat /\ cur_addr <= at /\ at = Up(cur_addr)
  BY UpType DEF Inv, Typed
<1>2. VbeSize \in Nat
  BY ConstantsAssumption
<1>3. /\ kernel_type = "multiboot"
      /\ spoilt' = Spoilt(Things \ {vbe}, at, VbeSize)
      /\ vbe' = Thing("vbe", at, VbeSize) /\ cur_addr' = at + VbeSize
      /\ UNCHANGED <<kernel_type, image, cmdline, mods, booted, broken, moved, asked>>
  BY DEF VbeSet, ghosts
<1> HIDE DEF at
<1>4. vbe' \in Descriptions
  BY <1>1, <1>2, <1>3 DEF Descriptions, Thing
<1>5. Things \ {vbe} \subseteq Things' /\ Things' \subseteq Things \cup {vbe'}
  <2>1. Ended(Texts)' = Ended(Texts)
    BY <1>3 DEF Texts, Ended, Zero
  <2> QED BY <1>3, <1>4, <2>1, NoneAssumption DEF Things
<1>6. Things \subseteq Descriptions
  BY ThingsType DEF Inv, Typed
<1>7. spoilt' \subseteq Things'
  BY <1>3, <1>5 DEF Spoilt
<1>8. cur_addr' \in Nat /\ at <= cur_addr'
  BY <1>1, <1>2, <1>3
<1>9. Typed'
  BY <1>3, <1>4, <1>7, <1>8 DEF Inv, Typed
<1>10. ASSUME ~ moved
       PROVE  (\A t \in spoilt' : Minor(t)) /\ \A t \in Things' : Under(t, cur_addr')
  <2>1. (\A t \in spoilt : Minor(t)) /\ \A t \in Things : Under(t, cur_addr)
    BY <1>3, <1>10 DEF Inv, Below
  <2>2. cur_addr \in Nat /\ cur_addr <= cur_addr'
    BY <1>1, <1>8 DEF Inv, Typed
  <2>3. \A t \in Things : Under(t, cur_addr')
    BY <1>6, <1>8, <2>1, <2>2, UnderGrows
  <2>4. \A t \in spoilt' : Minor(t)
    <3>1. Things \ {vbe} \in SUBSET Descriptions /\ \A t \in Things \ {vbe} : Under(t, cur_addr)
      BY <1>6, <2>1
    <3>2. \A t \in Spoilt(Things \ {vbe}, Up(cur_addr), VbeSize) : Minor(t)
      BY <1>2, <2>1, <2>2, <3>1, SpoiltMinor
    <3> QED BY <1>1, <1>3, <3>2
  <2>5. vbe'.at + vbe'.size <= cur_addr' /\ vbe'.part = "file"
    BY <1>3, <1>8 DEF Thing
  <2>6. Under(vbe', cur_addr')
    BY <2>5 DEF Under
  <2> QED BY <1>5, <2>3, <2>4, <2>6
<1>11. Below'
  BY <1>3, <1>10 DEF Below, Minor, Up, Under
<1> QED BY <1>3, <1>9, <1>11 DEF Inv, ModulesAsAsked, Unbroken

\* What all steps preserve holds in every reachable state.
LEMMA Invariance == Spec => []Inv
<1>1. Inv /\ [Next]_vars => Inv'
  <2> SUFFICES ASSUME Inv, [Next]_vars PROVE Inv'
    OBVIOUS
  <2>1. ASSUME NEW script \in BOOLEAN, Command(script) PROVE Inv'
    BY <2>1, CommandKeepsInv
  <2>2. ASSUME NEW k \in Kernels, NEW got \in 0..k.file, NEW bad \in BOOLEAN, KernelLoaded(k, got, bad)
        PROVE  Inv'
    BY <2>2, KernelKeepsInv
  <2>3. CASE \/ \E m \in Modules : \E got \in 1..m.size : ModuleLoaded(m, got)
             \/ \E m \in Modules : BsModuleLoaded(m)
             \/ LipModule
             \/ \E m \in Modules, i, c \in Expanded : Preprocess(m, i, c)
    BY <2>3, LoadKeepsInv
  <2>4. CASE VbeSet
    BY <2>4, VbeKeepsInv
  <2>5. CASE (\E a \in Addresses : ModAddr(a)) \/ Edit \/ Os2ldr \/ Boot \/ UNCHANGED vars
    BY <2>5, RestKeepsInv
  <2> QED BY <2>1, <2>2, <2>3, <2>4, <2>5 DEF Next
<1> QED BY <1>1, InvInit, PTL DEF Spec

-------------------------------------------------------------------------------
(* The theorems. *)

\* The types of ImageLoader's variables, in every reachable state.
THEOREM ImageTypeCorrect == Spec => []TypeOK
<1>1. Inv => TypeOK
  BY NoneAssumption DEF Inv, Typed, TypeOK
<1> QED BY <1>1, Invariance, PTL

\* Nothing that a valid kernel's multiboot information names is ever overwritten by
\* what is loaded later, as long as no command sets cur_addr back.
THEOREM NeverOverwritten == Spec => []NothingOverwritten
<1>1. Inv => NothingOverwritten
  BY DEF Inv, Below, NothingOverwritten, Minor
<1> QED BY <1>1, Invariance, PTL

\* A valid kernel is given the modules asked for since it was loaded, in their order.
THEOREM ModulesAlwaysAsAsked == Spec => []ModulesAsAsked
<1>1. Inv => ModulesAsAsked
  BY DEF Inv
<1> QED BY <1>1, Invariance, PTL

\* No kernel is booted that a script failed after.
THEOREM BrokenNeverBooted == Spec => []NothingBrokenBooted
<1>1. Inv => NothingBrokenBooted
  BY DEF Inv, Unbroken, NothingBrokenBooted
<1> QED BY <1>1, Invariance, PTL
===============================================================================
