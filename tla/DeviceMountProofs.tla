--------------------------- MODULE DeviceMountProofs ---------------------------
(***************************************************************************)
(* Proofs about DeviceMount, for every set of devices, drives, drivers,    *)
(* files and calls that ConstantsAssumption allows, and whatever fails.    *)
(***************************************************************************)
EXTENDS DeviceMount, SequenceTheorems, TLAPS

-------------------------------------------------------------------------------
(* The invariant. *)

Activation == [cd : Dev, fst : Int, try : Int]

Types ==
  /\ saved \in [dev : Dev, fsys : Int] /\ fsys \in Int
  /\ stack \in Seq(Activation)
  /\ call.kind \in {"none", "open", "dir", "root", "print", "block"} /\ call.dev \in Dev \cup {Root}
  /\ call.kind = "root" => call.dev # Root
  /\ ret \in {"idle", "ok", "failed"}
  /\ careful \in BOOLEAN

\* Which calls are at which place, with activations of open_device2() or without.
Control ==
  /\ pc \in {"idle", "print", "root", "block", "rooted", "unrooted"} => stack = <<>>
  /\ pc \in {"loaded", "boot", "bootdriver", "each", "fetch", "found", "driver",
             "opened", "unopened"} => stack # <<>>
  /\ pc \in {"print", "block"} => ~ careful
  /\ pc \in {"root", "rooted", "unrooted"} => call.kind = "root" /\ call.dev # Root
  /\ pc = "enter" \/ stack # <<>> => call.kind \in {"open", "dir", "root"}
  /\ pc \in {"setup", "look", "notfound"} /\ stack = <<>> => call.kind \in {"open", "dir"}
  /\ filetab => /\ call.kind # "open" /\ pc # "fetch"
                /\ pc \in {"setup", "look", "notfound", "enter"} => stack = <<>>
                /\ Len(stack) <= 1

\* The first activation is for the call's device, those it leads to for the root.
For(n) == IF n = 1 THEN Target ELSE saved.dev

Activations == \A n \in 1..Len(stack) : stack[n].cd = For(n)

\* open_device2() tries its own device; what it returns to looks there too.
Place ==
  /\ pc \in {"loaded", "boot", "bootdriver", "driver", "opened"} => cur = Top.cd
  /\ pc = "enter" => cur = For(Len(stack) + 1)
  /\ pc = "rooted" => cur = Target
  /\ pc = "unopened" => errnum # "none"
  /\ pc = "look" /\ stack = <<>> /\ ~ Blocked => cur = Target

Synced == mounted \in {None, cur}

\* Once the boot driver was tried, what is mounted is the current device: a 16-bit
\* micro-FSD does not let it be tried, so a failure may leave the one before.
Superblock ==
  careful =>
    /\ pc \notin {"root", "enter", "loaded", "boot", "bootdriver", "driver", "each", "found",
                  "overflow", "stopped"}
         => Synced \/ (filetab /\ errnum # "none")
    /\ pc \in {"each", "found"} => Synced \/ filetab
    /\ pc \in {"opened", "rooted"} => mounted = cur
    /\ pc \in {"setup"} => Synced

\* A search for a driver within a search for a driver finds the root mounted.
Depth ==
  DriveOf[saved.dev] \notin Removable =>
    /\ Len(stack) <= 2
    /\ pc = "enter" => Len(stack) <= 1
    /\ pc # "overflow"
    /\ Len(stack) = 2 =>
         /\ cur = saved.dev
         /\ pc # "loaded" => buf_drive # None
         /\ pc \in {"setup", "look", "notfound"} => fsys # NumFsys

Inv == Types /\ Control /\ Activations /\ Place /\ Superblock

-------------------------------------------------------------------------------
(* The stack. *)

LEMMA TopIs ==
  ASSUME Types, Activations, stack # <<>>
  PROVE  /\ Len(stack) \in Nat \ {0}
         /\ Top \in Activation
         /\ Top.cd = For(Len(stack))
<1>1. Len(stack) \in Nat \ {0}
  BY EmptySeq DEF Types
<1>2. Len(stack) \in 1..Len(stack)
  BY <1>1
<1>3. Top \in Activation
  BY <1>2, ElementOfSeq DEF Types, Top
<1>4. Top.cd = For(Len(stack))
  BY <1>2 DEF Activations, Top
<1> QED BY <1>1, <1>3, <1>4

LEMMA Pushed ==
  ASSUME Types, NEW a \in Activation
  PROVE  /\ Append(stack, a) \in Seq(Activation)
         /\ Append(stack, a) # <<>>
         /\ Len(Append(stack, a)) = Len(stack) + 1
         /\ \A n \in 1..Len(stack) : Append(stack, a)[n] = stack[n]
         /\ Append(stack, a)[Len(stack) + 1] = a
  BY DEF Types

LEMMA Popped ==
  ASSUME Types, stack # <<>>
  PROVE  /\ Pop \in Seq(Activation)
         /\ Len(Pop) = Len(stack) - 1
         /\ \A n \in 1..Len(Pop) : Pop[n] = stack[n]
         /\ Pop = <<>> <=> Len(stack) = 1
<1>1. stack \in Seq(Activation) /\ Len(stack) \in Nat \ {0}
  BY EmptySeq DEF Types
<1> DEFINE n == Len(stack) - 1
<1>2. n \in Nat /\ \A i \in 1..n : stack[i] \in Activation
  <2>1. \A i \in 1..n : i \in 1..Len(stack)
    BY <1>1
  <2> QED BY <1>1, <2>1, ElementOfSeq
<1> HIDE DEF n
<1>3. /\ SubSeq(stack, 1, n) \in Seq(Activation)
      /\ Len(SubSeq(stack, 1, n)) = IF 1 <= n THEN n - 1 + 1 ELSE 0
      /\ \A i \in 1..n - 1 + 1 : SubSeq(stack, 1, n)[i] = stack[1 + i - 1]
  BY <1>2, SubSeqProperties
<1>4. Len(SubSeq(stack, 1, n)) = n /\ \A i \in 1..n : SubSeq(stack, 1, n)[i] = stack[i]
  BY <1>2, <1>3
<1>5. SubSeq(stack, 1, n) = <<>> <=> n = 0
  BY <1>2, <1>3, <1>4, EmptySeq
<1>6. Pop = SubSeq(stack, 1, n)
  BY DEF Pop, n
<1>7. n = Len(stack) - 1 /\ (n = 0 <=> Len(stack) = 1)
  BY <1>1 DEF n
<1> QED BY <1>3, <1>4, <1>5, <1>6, <1>7

LEMMA TopSet ==
  ASSUME Types, stack # <<>>, NEW a \in Activation
  PROVE  /\ SetTop(a) \in Seq(Activation)
         /\ SetTop(a) # <<>>
         /\ Len(SetTop(a)) = Len(stack)
         /\ \A n \in 1..Len(stack) : SetTop(a)[n] = IF n = Len(stack) THEN a ELSE stack[n]
  BY DEF Types, SetTop

\* What opening a device leaves behind.
LEMMA Tried ==
  ASSUME NEW next, TryDevice(next)
  PROVE  /\ mounted' \in {None, cur, mounted}
         /\ pc' \in {"opened", next}
         /\ next # "opened" /\ pc' = "opened" => mounted' = cur /\ errnum' = "none"
         /\ buf_drive' \in {buf_drive, DriveOf[cur]}
         /\ DriveOf[cur] \notin Removable => buf_drive' = DriveOf[cur]
<1>1. PICK o \in OpenDevice(cur, driver) :
        /\ mounted' = o.mnt
        /\ errnum' = o.err
        /\ buf_drive' = o.buf
        /\ pc' = IF Opened(o, cur) THEN "opened" ELSE next
  BY DEF TryDevice
<1>2. /\ o.mnt \in {None, cur, mounted}
      /\ o.buf \in {buf_drive, DriveOf[cur]}
      /\ DriveOf[cur] \notin Removable => o.buf = DriveOf[cur]
  BY DEF OpenDevice
<1> QED BY <1>1, <1>2 DEF Opened

-------------------------------------------------------------------------------
(* The invariant is one. *)

LEMMA InvInit == Init => Inv
<1> SUFFICES ASSUME Init PROVE Inv
  OBVIOUS
<1> USE ConstantsAssumption DEF Init
<1>1. Types
  BY EmptySeq DEF Types
<1>2. Control
  BY DEF Control
<1>3. Activations
  BY DEF Activations
<1>4. Place
  BY DEF Place
<1>5. Superblock
  BY DEF Superblock, Synced
<1> QED BY <1>1, <1>2, <1>3, <1>4, <1>5 DEF Inv

\* A call begins.
LEMMA InvAsk ==
  ASSUME Inv, NEW c \in Calls, Ask(c), UNCHANGED filetab
  PROVE  Inv'
<1> USE DEF Inv, Ask, Idle, where, disk, ext
<1>0. c.kind \in {"open", "dir", "root", "print", "block"} /\ c.dev \in Dev \cup {Root}
      /\ (c.kind = "root" => c.dev # Root)
  BY ConstantsAssumption DEF CallType
<1>1. Types'
  BY <1>0 DEF Types
<1>2. Control'
  BY <1>0 DEF Control, Careful, Types
<1>3. Activations'
  BY DEF Activations, Control
<1>4. Place'
  BY <1>0 DEF Place, Control
<1>5. Superblock'
  BY <1>0 DEF Superblock, Synced, Careful, Types
<1> QED BY <1>1, <1>2, <1>3, <1>4, <1>5

\* The steps that leave the stack as it is and try no device.
LEMMA InvQuiet ==
  ASSUME Inv, UNCHANGED filetab, careful' \in BOOLEAN, careful' => careful,
         \/ PrintRoot \/ StartRoot \/ OpenBlocks \/ SetupNamed \/ SetupRoot \/ SetupMounted
         \/ UseBootDriver \/ OpenDriverFile \/ UseDriver \/ NoDriverLeft
         \/ LookFinds \/ LookFails \/ LookUnset \/ GiveUp \/ SetRoot \/ KeepRoot
  PROVE  Inv'
<1> USE DEF Inv, where, disk, ext, Finish
<1>1. CASE PrintRoot
  BY <1>1 DEF PrintRoot, Types, Control, Activations, Place, Superblock, Synced, For
<1>2. CASE StartRoot
  BY <1>2 DEF StartRoot, Types, Control, Activations, Place, Superblock, Synced, For, Target
<1>3. CASE OpenBlocks
  BY <1>3, ConstantsAssumption DEF OpenBlocks, Types, Control, Activations, Place, Superblock, Synced, For
<1>4. CASE SetupNamed
  BY <1>4 DEF SetupNamed, Named, Nested, Types, Control, Activations, Place, Superblock, Synced, For, Target
<1>5. CASE SetupRoot
  BY <1>5 DEF SetupRoot, Named, Nested, Types, Control, Activations, Place, Superblock, Synced, For, Target
<1>6. CASE SetupMounted
  BY <1>6 DEF SetupMounted, Remount, Named, Nested, Types, Control, Activations, Place, Superblock, Synced, For, Target
<1>7. CASE UseBootDriver
  <2>1. saved' \in [dev : Dev, fsys : Int] /\ saved'.dev = saved.dev
    BY <1>7 DEF UseBootDriver, set_boot_fsys, Types
  <2> QED BY <1>7, <2>1 DEF UseBootDriver, set_boot_fsys, Put, Types, Control, Activations, Place, Superblock, Synced, For, Target, Top
<1>8. CASE OpenDriverFile
  <2>1. saved' \in [dev : Dev, fsys : Int] /\ saved'.dev = saved.dev
    BY <1>8 DEF OpenDriverFile, set_boot_fsys, Types
  <2> QED BY <1>8, <2>1 DEF OpenDriverFile, set_boot_fsys, Put, Types, Control, Activations, Place, Superblock, Synced, For, Target, Top
<1>9. CASE UseDriver
  <2>1. Top.fst \in Int
    BY <1>9, TopIs DEF UseDriver, Control, Activation
  <2> QED BY <1>9, <2>1 DEF UseDriver, Put, Types, Control, Activations, Place, Superblock, Synced, For, Target, Top
<1>10. CASE NoDriverLeft
  BY <1>10 DEF NoDriverLeft, Types, Control, Activations, Place, Superblock, Synced, For, Target, Top
<1>11. CASE LookFinds
  BY <1>11 DEF LookFinds, Blocked, Nested, Types, Control, Activations, Place, Superblock, Synced, For, Target, Top
<1>12. CASE LookFails
  BY <1>12 DEF LookFails, Blocked, Types, Control, Activations, Place, Superblock, Synced, For, Target, Top
<1>13. CASE LookUnset
  BY <1>13 DEF LookUnset, Types, Control, Activations, Place, Superblock, Synced, For, Target, Top
<1>14. CASE GiveUp
  BY <1>14 DEF GiveUp, Nested, Types, Control, Activations, Place, Superblock, Synced, For, Target, Top
<1>15. CASE SetRoot
  <2>1. cur \in Dev /\ stack = <<>>
    BY <1>15 DEF SetRoot, Types, Control, Place, Target
  <2>2. saved' \in [dev : Dev, fsys : Int] /\ fsys' \in Int
    BY <1>15, <2>1 DEF SetRoot, RootFsys, Types
  <2> QED BY <1>15, <2>1, <2>2 DEF SetRoot, Types, Control, Activations, Place, Superblock, Synced, For, Target, Top
<1>16. CASE KeepRoot
  BY <1>16 DEF KeepRoot, Types, Control, Activations, Place, Superblock, Synced, For, Target, Top
<1> QED BY <1>1, <1>2, <1>3, <1>4, <1>5, <1>6, <1>7, <1>8, <1>9, <1>10, <1>11, <1>12, <1>13, <1>14, <1>15, <1>16

\* A device is tried.
LEMMA InvTry ==
  ASSUME Inv, UNCHANGED filetab, careful' = (careful /\ ~ Strays), TryLoaded \/ TryBoot \/ TryDriver
  PROVE  Inv'
<1> USE DEF Inv, where, disk, ext
<1>1. CASE TryLoaded
  <2>1. TryDevice("boot")
    BY <1>1 DEF TryLoaded
  <2>2. pc' \in {"opened", "boot"} /\ (pc' = "opened" => mounted' = cur)
    BY <2>1, Tried, "boot" # "opened"
  <2> QED BY <1>1, <2>2 DEF Strays, TryLoaded, Types, Control, Activations, Place, Superblock, Synced, For, Target, Top
<1>2. CASE TryBoot
  <2>1. TryDevice("each")
    BY <1>2 DEF TryBoot
  <2>2. /\ pc' \in {"opened", "each"} /\ (pc' = "opened" => mounted' = cur)
        /\ mounted' \in {None, cur, mounted}
    BY <2>1, Tried, "each" # "opened"
  <2> QED BY <1>2, <2>2 DEF Strays, TryBoot, Types, Control, Activations, Place, Superblock, Synced, For, Target, Top
<1>3. CASE TryDriver
  <2>1. TryDevice("each")
    BY <1>3 DEF TryDriver
  <2>2. /\ pc' \in {"opened", "each"} /\ (pc' = "opened" => mounted' = cur)
        /\ mounted' \in {None, cur, mounted}
    BY <2>1, Tried, "each" # "opened"
  <2> QED BY <1>3, <2>2 DEF Strays, TryDriver, Types, Control, Activations, Place, Superblock, Synced, For, Target, Top
<1> QED BY <1>1, <1>2, <1>3

\* open_device2() notes in its activation how far it is.
LEMMA Noted ==
  ASSUME Inv, FetchDriver \/ Retry
  PROVE  /\ stack' \in Seq(Activation)
         /\ Len(stack') = Len(stack)
         /\ stack' = <<>> <=> stack = <<>>
         /\ Activations'
<1> USE DEF Inv, where, ext
<1>1. ASSUME NEW a \in Activation, stack # <<>>, a.cd = Top.cd, stack' = SetTop(a)
      PROVE  /\ stack' \in Seq(Activation) /\ stack' # <<>> /\ Len(stack') = Len(stack)
             /\ UNCHANGED <<saved, call>> => Activations'
  <2>1. /\ stack' \in Seq(Activation) /\ stack' # <<>> /\ Len(stack') = Len(stack)
        /\ \A n \in 1..Len(stack) : stack'[n] = IF n = Len(stack) THEN a ELSE stack[n]
    BY <1>1, TopSet
  <2>2. \A n \in 1..Len(stack) : stack'[n].cd = stack[n].cd
    BY <1>1, <2>1 DEF Top
  <2> QED BY <2>1, <2>2 DEF Activations, For, Target
<1>2. CASE FetchDriver
  <2> DEFINE b == [Top EXCEPT !.fst = @ + 1]
             a == [b EXCEPT !.try = 1]
  <2>1. stack # <<>> /\ Top \in Activation
    BY <1>2, TopIs DEF FetchDriver, Control
  <2>2. b \in Activation /\ b.cd = Top.cd
    BY <2>1 DEF Activation
  <2>3. [Top EXCEPT !.fst = @ + 1, !.try = 1] = a
    BY <2>1 DEF Activation
  <2> HIDE DEF b
  <2>4. a \in Activation /\ a.cd = Top.cd
    BY <2>2 DEF Activation
  <2> HIDE DEF a
  <2>5. stack' = SetTop(a)
    BY <1>2, <2>3 DEF FetchDriver
  <2> QED BY <1>1, <1>2, <2>1, <2>4, <2>5 DEF FetchDriver
<1>3. CASE Retry /\ Nested
  <2> DEFINE a == [Top EXCEPT !.try = @ + 1]
  <2>1. Top \in Activation
    BY <1>3, TopIs DEF Nested
  <2>2. a \in Activation /\ a.cd = Top.cd
    BY <2>1 DEF Activation
  <2> HIDE DEF a
  <2>3. stack' = SetTop(a)
    BY <1>3 DEF Retry, a
  <2> QED BY <1>1, <1>3, <2>2, <2>3 DEF Retry, Nested
<1>4. CASE Retry /\ ~ Nested
  BY <1>4 DEF Retry, Nested, Types, Activations, For, Target
<1> QED BY <1>2, <1>3, <1>4

\* open_device2() is called and returns, or notes in its activation how far it is.
LEMMA InvStack ==
  ASSUME Inv, UNCHANGED filetab, careful' \in BOOLEAN, careful' => careful, Enter \/ FetchDriver \/ Retry \/ Leave
  PROVE  Inv'
<1> USE DEF Inv, where, disk, ext
<1>1. CASE Enter
  <2>1. CASE UNCHANGED stack
    BY <1>1, <2>1, ConstantsAssumption DEF Enter, Types, Control, Activations, Place, Superblock, Synced, For, Target, Top
  <2>2. CASE stack' = Append(stack, [cd |-> cur, fst |-> -1, try |-> 0])
    <3> DEFINE a == [cd |-> cur, fst |-> -1, try |-> 0]
    <3>1. cur = For(Len(stack) + 1) /\ cur \in Dev
      BY <1>1 DEF Enter, Place, For, Target, Types
    <3>2. a \in Activation /\ a.cd = cur
      BY <3>1 DEF Activation
    <3> HIDE DEF a
    <3>3. /\ stack' \in Seq(Activation) /\ stack' # <<>> /\ Len(stack') = Len(stack) + 1
          /\ \A n \in 1..Len(stack) : stack'[n] = stack[n]
          /\ stack'[Len(stack) + 1] = a
      BY <2>2, <3>2, Pushed DEF a
    <3>4. Len(stack) \in Nat
      BY LenProperties DEF Types
    <3>5. Types' /\ Control' /\ Superblock'
      BY <1>1, <3>3 DEF Enter, Types, Control, Superblock, Synced
    <3>6. UNCHANGED <<saved, call, cur, mounted, errnum>>
      BY <1>1 DEF Enter
    <3>7. Activations'
      BY <3>1, <3>2, <3>3, <3>4, <3>6 DEF Activations, For, Target
    <3>8. Place'
      BY <1>1, <3>2, <3>3, <3>4, <3>6 DEF Enter, Place, Top
    <3> QED BY <3>5, <3>7, <3>8
  <2> QED BY <1>1, <2>1, <2>2 DEF Enter
<1>3. CASE FetchDriver
  <2>1. Top.fst + 1 \in Int
    BY <1>3, TopIs DEF FetchDriver, Control, Activation
  <2> QED BY <1>3, <2>1, Noted DEF FetchDriver, Types, Control, Place, Superblock, Synced
<1>4. CASE Retry
  <2>1. UNCHANGED <<saved, fsys, cur, mounted, call, ret>> /\ pc = "notfound" /\ pc' = "setup" /\ errnum' = "none"
    BY <1>4 DEF Retry
  <2>2. Types'
    BY <1>4, <2>1, Noted DEF Types
  <2>3. Control' /\ Place'
    BY <1>4, <2>1, Noted DEF Control, Place
  <2>4. Superblock'
    <3>1. filetab => stack = <<>> /\ call.kind = "dir"
      BY <2>1 DEF Control
    <3>2. filetab => FALSE
      BY <1>4, <3>1 DEF Retry, Nested
    <3> QED BY <2>1, <3>2 DEF Superblock, Synced
  <2> QED BY <1>4, <2>2, <2>3, <2>4, Noted
<1>5. CASE Leave
  <2>1. stack # <<>> /\ stack' = Pop
    BY <1>5 DEF Leave, Control
  <2>2. /\ stack' \in Seq(Activation) /\ Len(stack') = Len(stack) - 1
        /\ \A n \in 1..Len(stack') : stack'[n] = stack[n]
        /\ stack' = <<>> <=> Len(stack) = 1
    BY <2>1, Popped
  <2>3. Len(stack) \in Nat \ {0} /\ Top.cd = For(Len(stack))
    BY <2>1, TopIs
  <2>4. Activations'
    BY <1>5, <2>2, <2>3 DEF Leave, Activations, For, Target
  <2>5. stack' = <<>> => Len(stack) = 1
    BY <2>2
  <2>8. pc' \in {"rooted", "unrooted", "look"} /\ (pc' = "look" \/ (call.kind = "root" /\ stack' = <<>>))
    BY <1>5 DEF Leave
  <2>9. Types'
    BY <1>5, <2>2 DEF Leave, Types
  <2>10. Control'
    <3>1. pc' = "look" /\ stack' = <<>> => call.kind \in {"open", "dir"}
      BY <1>5, <2>1 DEF Leave, Control
    <3>2. filetab => stack' = <<>>
      BY <2>1, <2>2, <2>3 DEF Control
    <3> QED BY <1>5, <2>1, <2>8, <3>1, <3>2 DEF Leave, Control, Types
  <2>6. Superblock'
    BY <1>5 DEF Leave, Superblock, Synced
  <2>7. Place'
    BY <1>5, <2>2, <2>3 DEF Leave, Place, For, Blocked, Target, Superblock
  <2> QED BY <2>4, <2>6, <2>7, <2>9, <2>10
<1> QED BY <1>1, <1>3, <1>4, <1>5

LEMMA InvNext == Inv /\ [Next]_vars => Inv'
<1> SUFFICES ASSUME Inv, [Next]_vars PROVE Inv'
  OBVIOUS
<1>1. ASSUME UNCHANGED filetab, NEW c \in Calls, Ask(c) PROVE Inv'
  BY <1>1, InvAsk
<1>2. CASE UNCHANGED <<filetab, careful>> /\ Loop
  <2> USE <1>2 DEF Inv, Loop, Idle, where, ext
  <2>1. Types' /\ Control' /\ Activations' /\ Place'
    BY DEF Types, Control, Activations, Place, For, Target, Blocked
  <2>2. Superblock'
    BY DEF Superblock, Synced
  <2> QED BY <2>1, <2>2
<1>3. CASE Step
  <2>1. careful \in BOOLEAN
    BY DEF Inv, Types
  <2> QED BY <1>3, <2>1, InvQuiet, InvTry, InvStack DEF Step
<1>4. CASE UNCHANGED vars
  <2> USE <1>4 DEF Inv, vars, where, disk, ext
  <2>1. Types' /\ Control' /\ Activations' /\ Place'
    BY DEF Types, Control, Activations, Place, For, Target, Blocked, Top
  <2>2. Superblock'
    BY DEF Superblock, Synced
  <2> QED BY <2>1, <2>2
<1> QED BY <1>1, <1>2, <1>3, <1>4 DEF Next

LEMMA SpecInv == Spec => []Inv
BY InvInit, InvNext, PTL DEF Spec

-------------------------------------------------------------------------------
(* The theorems. *)

\* grub_open() and dir() hand a name to the driver in the buffer, and the driver
\* reads what it last mounted: with any devices, drivers and failures, that is the
\* device now current, until a call is made after which the code loses track.
THEOREM LooksWhereItShould == Spec => []LooksAtTheCurrentDevice
<1>1. Inv => LooksAtTheCurrentDevice
  BY DEF Inv, Superblock, Synced, LooksAtTheCurrentDevice, Blocked
<1> QED BY <1>1, SpecInv, PTL

Status == IF ~ Idle THEN "busy" ELSE ret

\* The steps the service does not see.
LEMMA Hidden ==
  ASSUME Inv, Step, careful',
         \/ StartRoot \/ SetupNamed \/ SetupRoot \/ SetupMounted
         \/ Enter \/ TryLoaded \/ UseBootDriver \/ TryBoot \/ FetchDriver \/ OpenDriverFile
         \/ UseDriver \/ TryDriver \/ NoDriverLeft \/ Leave
         \/ LookFails \/ LookUnset \/ Retry
  PROVE  UNCHANGED <<saved.dev, call, Status, got, careful>>
<1> USE DEF where, disk, ext, Status, Idle
<1>1. careful' = careful
  BY DEF Step, Inv, Types
<1>2. CASE StartRoot \/ SetupNamed \/ SetupRoot \/ SetupMounted
  BY <1>1, <1>2 DEF StartRoot, SetupNamed, SetupRoot, SetupMounted
<1>3. CASE Enter \/ FetchDriver \/ NoDriverLeft \/ Leave
  BY <1>1, <1>3 DEF Enter, FetchDriver, NoDriverLeft, Leave
<1>4. CASE TryLoaded \/ TryBoot \/ TryDriver
  <2>1. pc' \in {"opened", "boot", "each"}
    BY <1>4, Tried DEF TryLoaded, TryBoot, TryDriver
  <2> QED BY <1>1, <1>4, <2>1 DEF TryLoaded, TryBoot, TryDriver
<1>5. CASE UseBootDriver \/ OpenDriverFile
  <2>1. saved'.dev = saved.dev
    BY <1>5 DEF UseBootDriver, OpenDriverFile, set_boot_fsys, Inv, Types
  <2> QED BY <1>1, <1>5, <2>1 DEF UseBootDriver, OpenDriverFile
<1>6. CASE UseDriver
  BY <1>1, <1>6 DEF UseDriver
<1>7. CASE LookFails \/ LookUnset \/ Retry
  BY <1>1, <1>7 DEF LookFails, LookUnset, Retry
<1> QED BY <1>2, <1>3, <1>4, <1>5, <1>6, <1>7

\* The steps it does, as long as the calls have been careful.
LEMMA Seen ==
  ASSUME Inv, Step, careful, careful',
         PrintRoot \/ OpenBlocks \/ LookFinds \/ GiveUp \/ SetRoot \/ KeepRoot
  PROVE  Service!Promised \/ UNCHANGED <<saved.dev, call, Status, got, careful>>
<1> USE DEF where, disk, ext, Status, Idle, Finish
<1>1. careful' = careful
  BY DEF Step, Inv, Types
<1>2. CASE PrintRoot \/ OpenBlocks
  BY <1>2 DEF PrintRoot, OpenBlocks, Inv, Control
<1>3. CASE LookFinds
  <2>1. CASE Nested
    BY <1>1, <1>3, <2>1 DEF LookFinds
  <2>2. CASE ~ Nested
    <3>1. call.kind \in {"open", "dir"}
      BY <1>3, <2>2 DEF LookFinds, Nested, Inv, Control
    <3>2. mounted = Target
      BY <1>3, <2>2 DEF LookFinds, Finds, Blocked, Nested, Inv, Place, Superblock, Synced
    <3>3. Service!Serve
      BY <1>3, <2>2, <3>1, <3>2 DEF LookFinds, Target, Service!Serve
    <3> QED BY <3>3 DEF Service!Promised
  <2> QED BY <2>1, <2>2
<1>4. CASE GiveUp
  <2>1. CASE Nested
    BY <1>1, <1>4, <2>1 DEF GiveUp
  <2>2. CASE ~ Nested
    BY <1>4, <2>2 DEF GiveUp, Service!Fail, Service!Promised
  <2> QED BY <2>1, <2>2
<1>5. CASE SetRoot
  <2>1. call.kind = "root" /\ cur = call.dev
    BY <1>5 DEF SetRoot, Inv, Control, Place, Target
  <2>2. Service!MoveRoot
    BY <1>5, <2>1 DEF SetRoot, Service!MoveRoot
  <2> QED BY <2>2 DEF Service!Promised
<1>6. CASE KeepRoot
  BY <1>6 DEF KeepRoot, Service!Fail, Service!Promised
<1> QED BY <1>2, <1>3, <1>4, <1>5, <1>6

LEMMA StepServes == Inv /\ [Next]_vars => [Service!Next]_(Service!vars)
<1> SUFFICES ASSUME Inv, [Next]_vars
             PROVE  Service!Next \/ UNCHANGED <<saved.dev, call, Status, got, careful>>
  BY DEF Service!vars, Status
<1> SUFFICES ASSUME careful' PROVE Service!Next \/ UNCHANGED <<saved.dev, call, Status, got, careful>>
  BY DEF Service!Next
<1>1. ASSUME NEW c \in Calls, Ask(c) PROVE Service!Next
  <2>1. careful
    BY <1>1 DEF Ask
  <2>2. c.kind # "idle"
    BY ConstantsAssumption DEF CallType
  <2>3. Service!Ask(c)
    BY <1>1, <2>2 DEF Ask, Idle, where, Service!Ask, Inv, Types
  <2> QED BY <2>1, <2>3 DEF Service!Next, Service!Promised
<1>2. CASE UNCHANGED <<filetab, careful>> /\ Loop
  BY <1>2 DEF Loop, where, ext, Status, Idle
<1>3. CASE Step
  <2>1. careful
    BY <1>3 DEF Step
  <2> QED BY <1>3, <2>1, Hidden, Seen DEF Step, Service!Next
<1>4. CASE UNCHANGED vars
  BY <1>4 DEF vars, where, disk, ext, Status, Idle
<1> QED BY <1>1, <1>2, <1>3, <1>4 DEF Next

\* A name is looked up on the device it names or else on the root, and only the
\* root command moves the root: behind the one working buffer, the nested fetching
\* of drivers and every failure, u_open(), u_dir() and real_mkroot() implement the
\* simple service the loader takes them for.
THEOREM NamesServed == Spec => ServesTheNamedDevice
<1>1. Init => Service!Init
  BY DEF Init, Service!Init, Idle
<1>2. Inv /\ [Next]_vars => [Service!Next]_(Service!vars)
  BY StepServes
<1> QED BY <1>1, <1>2, SpecInv, PTL DEF Spec, ServesTheNamedDevice, Service!Spec

-------------------------------------------------------------------------------
(* How deep the calls nest. *)

LEMMA DepthInit == Init => Depth
BY ConstantsAssumption DEF Init, Depth

LEMMA DepthNext == MaxDepth >= 2 /\ Inv /\ Depth /\ [Next]_vars => Depth'
<1> SUFFICES ASSUME MaxDepth >= 2, Inv, Depth, [Next]_vars, DriveOf[saved'.dev] \notin Removable
             PROVE  Depth'
  BY DEF Depth
<1> USE DEF where, disk, ext, Finish
<1>0. /\ NumFsys \in Nat /\ MaxDepth \in Nat
      /\ \A d \in Dev : DriveOf[d] \in Drive /\ DriveOf[d] # None
      /\ saved.dev \in Dev /\ Len(stack) \in Nat /\ (stack = <<>> => Len(stack) = 0)
  BY ConstantsAssumption, LenProperties DEF Inv, Types
<1>1. CASE stack = <<>> /\ stack' = <<>> /\ pc' # "overflow"
  BY <1>1 DEF Depth
<1>2. ASSUME NEW c \in Calls, Ask(c) PROVE Depth'
  <2>1. pc' # "overflow"
    BY <1>2, ConstantsAssumption DEF Ask, CallType
  <2> QED BY <1>1, <1>2, <2>1 DEF Ask, Idle, Inv, Control
<1>3. CASE Loop
  BY <1>1, <1>3 DEF Loop, Idle, Inv, Control
<1>4. CASE PrintRoot \/ StartRoot \/ OpenBlocks \/ SetRoot \/ KeepRoot
  BY <1>1, <1>4 DEF PrintRoot, StartRoot, OpenBlocks, SetRoot, KeepRoot, Inv, Control
<1>5. CASE SetupNamed \/ SetupRoot \/ SetupMounted
  <2>1. CASE Len(stack) = 2
    <3>1. ~ Named /\ ~ Remount
      BY <1>0, <1>5, <2>1 DEF SetupNamed, SetupRoot, SetupMounted, Named, Nested, Remount, Depth
    <3> QED BY <1>5, <2>1, <3>1 DEF SetupNamed, SetupRoot, SetupMounted, Depth
  <2>2. CASE Len(stack) # 2
    <3>1. UNCHANGED <<saved, stack>> /\ pc' \in {"enter", "look"}
      BY <1>5 DEF SetupNamed, SetupRoot, SetupMounted
    <3>2. Len(stack) <= 2
      BY <3>1 DEF Depth
    <3>3. \A n \in Nat : n <= 2 /\ n # 2 => n <= 1
      OBVIOUS
    <3>4. Len(stack) <= 1
      BY <1>0, <2>2, <3>2, <3>3, Zenon
    <3> QED BY <1>0, <3>1, <3>4 DEF Depth
  <2> QED BY <2>1, <2>2
<1>6. CASE Enter
  <2>1. Len(stack) <= 1 /\ cur = For(Len(stack) + 1) /\ cur \in Dev
    BY <1>6 DEF Enter, Depth, Inv, Place, Types, For, Target
  <2>2. /\ [cd |-> cur, fst |-> -1, try |-> 0] \in Activation
        /\ stack' = Append(stack, [cd |-> cur, fst |-> -1, try |-> 0])
        /\ pc' = IF filetab THEN "each" ELSE "loaded"
    BY <1>0, <1>6, <2>1 DEF Enter, Activation
  <2>3. Len(stack') = Len(stack) + 1
    BY <2>2, Pushed DEF Inv
  <2>4. Len(stack') = 2 => cur = saved.dev /\ pc' = "loaded"
    BY <1>0, <1>6, <2>1, <2>2, <2>3 DEF Enter, For, Inv, Control
  <2> QED BY <1>0, <1>6, <2>1, <2>2, <2>3, <2>4 DEF Enter, Depth
<1>7. CASE TryLoaded \/ TryBoot \/ TryDriver
  <2>1. pc' \in {"opened", "boot", "each"}
    BY <1>7, Tried DEF TryLoaded, TryBoot, TryDriver
  <2>2. DriveOf[cur] \notin Removable => buf_drive' = DriveOf[cur]
    BY <1>7, Tried DEF TryLoaded, TryBoot, TryDriver
  <2> QED BY <1>0, <1>7, <2>1, <2>2 DEF TryLoaded, TryBoot, TryDriver, Depth
<1>8. CASE UseBootDriver \/ OpenDriverFile
  <2>1. saved'.dev = saved.dev
    BY <1>8 DEF UseBootDriver, OpenDriverFile, set_boot_fsys, Inv, Types
  <2> QED BY <1>0, <1>8, <2>1 DEF UseBootDriver, OpenDriverFile, set_boot_fsys, Put, Depth
<1>9. CASE FetchDriver \/ Retry
  <2>1. Len(stack') = Len(stack)
    BY <1>9, Noted
  <2> QED BY <1>0, <1>9, <2>1 DEF FetchDriver, Retry, Depth
<1>10. CASE UseDriver
  <2>1. Len(stack) = 2 => Top.cd = saved.dev
    BY <1>0, <1>10, TopIs DEF Inv, For
  <2> QED BY <1>0, <1>10, <2>1 DEF UseDriver, Depth
<1>11. CASE Leave
  <2>1. Len(stack') = Len(stack) - 1
    BY <1>11, Popped DEF Leave, Inv, Control
  <2>2. saved' = saved /\ pc' \in {"rooted", "unrooted", "look"}
    BY <1>11 DEF Leave
  <2>3. Len(stack) <= 2
    BY <2>2 DEF Depth
  <2>4. \A n \in Nat : n <= 2 => n - 1 <= 1 /\ n - 1 <= 2 /\ n - 1 # 2
    OBVIOUS
  <2>5. Len(stack') <= 1 /\ Len(stack') <= 2 /\ Len(stack') # 2
    BY <1>0, <2>1, <2>3, <2>4
  <2> QED BY <2>2, <2>5 DEF Depth
<1>12. CASE NoDriverLeft \/ LookFinds \/ LookFails \/ LookUnset \/ GiveUp
  BY <1>0, <1>12 DEF NoDriverLeft, LookFinds, LookFails, LookUnset, GiveUp, Depth
<1>13. CASE UNCHANGED vars
  BY <1>13 DEF vars, Depth
<1> QED BY <1>2, <1>3, <1>4, <1>5, <1>6, <1>7, <1>8, <1>9, <1>10, <1>11, <1>12, <1>13 DEF Next, Step

\* Fetching a driver from a file may call for a driver, but the file of that one is
\* opened with the root mounted: as long as the root's drive can be probed, two
\* activations of open_device2() are enough, and the stack never overflows.
THEOREM TwoAtMost ==
  ASSUME MaxDepth >= 2
  PROVE  Spec => []NestingIsBounded
<1>1. Inv /\ Depth => NestingIsBounded
  <2> SUFFICES ASSUME Inv, Depth, DriveOf[saved.dev] \notin Removable
               PROVE  pc # "overflow" /\ ~ Len(stack) > 2
    BY DEF NestingIsBounded
  <2>1. Len(stack) \in Nat
    BY LenProperties DEF Inv, Types
  <2> QED BY <2>1 DEF Depth
<1>2. Inv /\ Depth /\ [Next]_vars => Depth'
  BY DepthNext
<1>3. Spec => []Depth
  BY <1>2, DepthInit, SpecInv, PTL DEF Spec
<1> QED BY <1>1, <1>3, SpecInv, PTL

-------------------------------------------------------------------------------
(* What is there is found: the invariants. *)

\* No file system is marked as missing and no error number is left behind, unless
\* the calls were not careful; a 16-bit micro-FSD's last driver, if it has had one,
\* has mounted the current device or left an error number.
Steady ==
  /\ fsys \in -1..NumFsys /\ saved.fsys \in -1..NumFsys
  /\ \A n \in 1..Len(stack) : stack[n].fst \in -1..NumFsys - 1
  /\ careful => fsys # NumFsys /\ saved.fsys # NumFsys
  /\ careful /\ pc \in {"root", "setup", "enter", "loaded"} => errnum = "none"
  /\ pc = "opened" => errnum = "none"
  /\ pc \in {"unopened", "unrooted", "notfound"} => errnum # "none"
  /\ filetab /\ careful /\ errnum = "none" /\ pc \in {"idle", "setup", "look", "rooted"}
       => mounted = cur \/ driver = -1

\* An activation has tried no listed driver, or is at one.
Counted ==
  /\ pc \in {"loaded", "boot", "bootdriver"} => Top.fst = -1
  /\ pc = "bootdriver" => driver = -1
  /\ pc = "driver" => driver = Top.fst
  /\ \A n \in 1..Len(stack) :
       \/ n < Len(stack)
       \/ pc \in {"fetch", "found", "driver", "setup", "look", "notfound", "enter", "overflow"}
       => stack[n].fst >= 0

\* The boot driver understands the root, and nothing keeps it from being read.
Home == careful /\ ~ filetab /\ Reliable(saved.dev) /\ <<-1, saved.dev>> \in Mountable

\* Then it is mounted whenever it is current, and opening it never takes another driver:
\* a driver's file is found if it is there.
AtHome ==
  Home =>
    /\ \A n \in 1..Len(stack) : stack[n].cd = saved.dev
         => n = Len(stack) /\ pc \in {"loaded", "boot", "bootdriver", "opened"}
    /\ cur = saved.dev /\ pc \notin {"enter", "loaded", "boot", "bootdriver", "overflow"}
         => mounted = saved.dev
    /\ cur = saved.dev /\ pc \in {"boot", "bootdriver"} => errnum = "none"
    /\ Nested /\ Target # saved.dev /\ (cur = saved.dev \/ pc = "setup") => driver = -1
    /\ Nested /\ pc \in {"look", "notfound"} => cur = saved.dev
    /\ Nested /\ pc = "look" => errnum = "none"
    /\ Nested /\ pc = "notfound" => <<saved.dev, Top.fst>> \notin Files

\* A driver that can be had and understands the call's device.
Good(r) == r \in Driver /\ Available(r) /\ <<r, Target>> \in Mountable

\* The drivers are tried in turn, and none of those is passed over.
Search ==
  careful /\ Findable =>
    /\ Idle => ret # "failed"
    /\ pc \notin {"unopened", "unrooted"}
    /\ pc = "notfound" => Nested
    /\ pc \in {"boot", "bootdriver", "found", "driver"} => errnum = "none"
    /\ filetab /\ pc = "each" => errnum = "none"
    /\ pc = "look" /\ ~ Nested => errnum = "none" /\ (mounted = Target \/ Unset)
    /\ Nested => \A r \in Int : Good(r) => stack[1].fst <= r /\ (pc = "each" => stack[1].fst < r)

-------------------------------------------------------------------------------
(* What a step does to the stack and to the device it tries. *)

LEMMA Fetched ==
  ASSUME Inv, FetchDriver
  PROVE  /\ Len(stack) \in Nat \ {0} /\ Len(stack') = Len(stack) /\ stack' # <<>> /\ stack # <<>>
         /\ \A n \in 1..Len(stack) :
              /\ stack[n].fst \in Int
              /\ stack'[n].cd = stack[n].cd
              /\ stack'[n].fst = IF n = Len(stack) THEN stack[n].fst + 1 ELSE stack[n].fst
<1> USE DEF Inv
<1> DEFINE b == [Top EXCEPT !.fst = @ + 1]
           a == [b EXCEPT !.try = 1]
<1>1. stack # <<>> /\ Top \in Activation /\ Len(stack) \in Nat \ {0}
  BY TopIs DEF FetchDriver, Control
<1>2. b \in Activation /\ b.cd = Top.cd /\ b.fst = Top.fst + 1
  BY <1>1 DEF Activation
<1>3. [Top EXCEPT !.fst = @ + 1, !.try = 1] = a
  BY <1>1 DEF Activation
<1> HIDE DEF b
<1>4. a \in Activation /\ a.cd = Top.cd /\ a.fst = Top.fst + 1
  BY <1>2 DEF Activation
<1> HIDE DEF a
<1>5. stack' = SetTop(a)
  BY <1>3 DEF FetchDriver
<1>6. /\ stack' # <<>> /\ Len(stack') = Len(stack)
      /\ \A n \in 1..Len(stack) : stack'[n] = IF n = Len(stack) THEN a ELSE stack[n]
  BY <1>1, <1>4, <1>5, TopSet
<1>7. \A n \in 1..Len(stack) : stack[n] \in Activation
  BY ElementOfSeq DEF Types
<1> QED BY <1>1, <1>4, <1>6, <1>7 DEF Top, Activation

LEMMA Retried ==
  ASSUME Inv, Retry
  PROVE  /\ Len(stack') = Len(stack) /\ (stack' = <<>> <=> stack = <<>>)
         /\ \A n \in 1..Len(stack) : stack'[n].cd = stack[n].cd /\ stack'[n].fst = stack[n].fst
<1> USE DEF Inv
<1>1. CASE Nested
  <2> DEFINE a == [Top EXCEPT !.try = @ + 1]
  <2>1. Top \in Activation /\ stack # <<>>
    BY <1>1, TopIs DEF Nested
  <2>2. a \in Activation /\ a.cd = Top.cd /\ a.fst = Top.fst
    BY <2>1 DEF Activation
  <2> HIDE DEF a
  <2>3. stack' = SetTop(a)
    BY <1>1 DEF Retry, a
  <2>4. /\ stack' # <<>> /\ Len(stack') = Len(stack)
        /\ \A n \in 1..Len(stack) : stack'[n] = IF n = Len(stack) THEN a ELSE stack[n]
    BY <2>1, <2>2, <2>3, TopSet
  <2> QED BY <2>1, <2>2, <2>4 DEF Top
<1>2. CASE ~ Nested
  BY <1>2 DEF Retry
<1> QED BY <1>1, <1>2

LEMMA Entered ==
  ASSUME Inv, Enter, pc' # "overflow"
  PROVE  /\ Len(stack) \in Nat /\ Len(stack') = Len(stack) + 1 /\ stack' # <<>>
         /\ \A n \in 1..Len(stack) : stack'[n] = stack[n]
         /\ stack'[Len(stack) + 1].cd = cur /\ stack'[Len(stack) + 1].fst = -1
<1> DEFINE a == [cd |-> cur, fst |-> -1, try |-> 0]
<1>1. cur \in Dev /\ stack' = Append(stack, a) /\ Len(stack) \in Nat
  BY LenProperties DEF Enter, Place, For, Target, Types, Inv
<1>2. a \in Activation /\ a.cd = cur /\ a.fst = -1
  BY <1>1 DEF Activation
<1> HIDE DEF a
<1> QED BY <1>1, <1>2, Pushed DEF Inv

LEMMA Left ==
  ASSUME Inv, Leave
  PROVE  /\ Len(stack) \in Nat \ {0} /\ Len(stack') = Len(stack) - 1
         /\ \A n \in 1..Len(stack') : stack'[n] = stack[n]
         /\ (stack' = <<>> <=> Len(stack) = 1) /\ stack # <<>>
         /\ Top.cd = For(Len(stack))
  BY TopIs, Popped DEF Leave, Inv, Control

\* A device that can be probed and read is mounted unless the driver does not know it.
LEMMA TriedReliable ==
  ASSUME NEW next, TryDevice(next), Reliable(cur), next # "opened"
  PROVE  /\ errnum = "none" => errnum' = "none"
         /\ mounted' \in {None, cur}
         /\ errnum = "none" /\ <<driver, cur>> \in Mountable => pc' = "opened"
<1>1. PICK o \in OpenDevice(cur, driver) :
        /\ mounted' = o.mnt
        /\ errnum' = o.err
        /\ buf_drive' = o.buf
        /\ pc' = IF Opened(o, cur) THEN "opened" ELSE next
  BY DEF TryDevice
<1>2. /\ o.mnt = IF <<driver, cur>> \in Mountable THEN cur ELSE None
      /\ o.err = IF cur \in WholeDisk THEN errnum ELSE "none"
  BY DEF OpenDevice, Reliable
<1> QED BY <1>1, <1>2 DEF Opened

\* Only a call and the root command change what is sought and where.
LEMMA Same ==
  ASSUME Inv, Step, pc # "rooted"
  PROVE  /\ filetab' = filetab /\ saved'.dev = saved.dev /\ call' = call
         /\ Target' = Target /\ (careful' => careful)
         /\ \A r : Good(r)' <=> Good(r)
         /\ Findable' <=> Findable
         /\ Home' => Home
         /\ saved' = saved \/ saved' = [saved EXCEPT !.fsys = fsys]
<1> USE DEF where, disk, ext
<1>1. filetab' = filetab /\ call' = call /\ (careful' => careful)
  BY DEF Step, PrintRoot, StartRoot, OpenBlocks, SetupNamed, SetupRoot, SetupMounted, Enter,
         TryLoaded, UseBootDriver, TryBoot, FetchDriver, OpenDriverFile, UseDriver, TryDriver,
         NoDriverLeft, Leave, LookFinds, LookFails, LookUnset, Retry, GiveUp, SetRoot, KeepRoot
<1>2. saved' = saved \/ saved' = [saved EXCEPT !.fsys = fsys]
  BY DEF Step, PrintRoot, StartRoot, OpenBlocks, SetupNamed, SetupRoot, SetupMounted, Enter,
         TryLoaded, UseBootDriver, TryBoot, FetchDriver, OpenDriverFile, UseDriver, TryDriver,
         NoDriverLeft, Leave, LookFinds, LookFails, LookUnset, Retry, GiveUp, SetRoot, KeepRoot,
         set_boot_fsys
<1>3. saved'.dev = saved.dev
  BY <1>2 DEF Inv, Types
<1>4. Target' = Target
  BY <1>1, <1>3 DEF Target
<1>5. \A r : Available(r)' <=> Available(r)
  BY <1>1, <1>3 DEF Available
<1>6. \A r : Good(r)' <=> Good(r)
  BY <1>4, <1>5 DEF Good
<1>7. Findable' <=> Findable
  BY <1>1, <1>3, <1>4, <1>5 DEF Findable
<1>8. Home' => Home
  BY <1>1, <1>3 DEF Home
<1> QED BY <1>1, <1>2, <1>3, <1>4, <1>6, <1>7, <1>8

-------------------------------------------------------------------------------
(* What is there is found: the invariants are kept. *)

LEMMA SteadyInit == Init => Steady
BY ConstantsAssumption DEF Init, Steady

LEMMA SteadyNext == Inv /\ Steady /\ [Next]_vars => Steady'
<1> SUFFICES ASSUME Inv, Steady, [Next]_vars PROVE Steady'
  OBVIOUS
<1> USE DEF where, disk, ext, Finish
<1>0. NumFsys \in Nat
  BY ConstantsAssumption
<1>1. ASSUME UNCHANGED filetab, NEW c \in Calls, Ask(c) PROVE Steady'
  <2>1. c.kind \in {"open", "dir", "root", "print", "block"}
    BY ConstantsAssumption DEF CallType
  <2> QED BY <1>1, <2>1 DEF Ask, Idle, Careful, Steady
<1>2. CASE UNCHANGED <<filetab, careful>> /\ Loop
  BY <1>2 DEF Loop, Idle, Steady
<1>3. CASE UNCHANGED vars
  BY <1>3 DEF vars, Steady
<1>4. CASE Step
  <2>1. filetab' = filetab /\ (careful' => careful)
    BY <1>4 DEF Step
  <2> USE <2>1
  <2>2. CASE PrintRoot \/ OpenBlocks
    BY <1>0, <2>2 DEF PrintRoot, OpenBlocks, Steady, Inv, Control
  <2>3. CASE StartRoot \/ SetupNamed \/ SetupRoot \/ SetupMounted
    BY <2>3 DEF StartRoot, SetupNamed, SetupRoot, SetupMounted, Steady
  <2>4. CASE Enter
    <3>1. CASE pc' = "overflow"
      BY <2>4, <3>1 DEF Enter, Steady
    <3>2. CASE pc' # "overflow"
      <4>1. \A n \in 1..Len(stack') : stack'[n].fst \in -1..NumFsys - 1
        BY <1>0, <2>4, <3>2, Entered DEF Steady
      <4>2. UNCHANGED <<where, disk, errnum>> /\ pc = "enter" /\ pc' \in {"each", "loaded"}
        BY <2>4, <3>2 DEF Enter
      <4> QED BY <4>1, <4>2 DEF Steady
    <3> QED BY <3>1, <3>2
  <2>5. CASE TryLoaded \/ TryBoot \/ TryDriver
    <3>1. pc' \in {"opened", "boot", "each"} /\ (pc' = "opened" => errnum' = "none")
      BY <2>5, Tried, "boot" # "opened", "each" # "opened" DEF TryLoaded, TryBoot, TryDriver
    <3>2. UNCHANGED <<where, stack>>
      BY <2>5 DEF TryLoaded, TryBoot, TryDriver
    <3> QED BY <3>1, <3>2 DEF Steady
  <2>6. CASE UseBootDriver \/ OpenDriverFile
    <3>1. fsys' = -1 /\ saved'.fsys = fsys
      BY <2>6 DEF UseBootDriver, OpenDriverFile, set_boot_fsys, Inv, Types
    <3>2. CASE UseBootDriver
      BY <1>0, <3>1, <3>2 DEF UseBootDriver, Steady
    <3>3. CASE OpenDriverFile
      BY <1>0, <3>1, <3>3 DEF OpenDriverFile, Steady, Inv, Control
    <3> QED BY <2>6, <3>2, <3>3
  <2>7. CASE FetchDriver
    <3>1. \A n \in 1..Len(stack) : stack[n].fst \in -1..NumFsys - 1
      BY DEF Steady
    <3>2. Top.fst \in -1..NumFsys - 1 /\ Top.fst + 1 < NumFsys /\ fsys' = Top.fst + 1
      BY <2>7, <3>1, Fetched DEF FetchDriver, Top
    <3>3. \A n \in 1..Len(stack') : stack'[n].fst \in -1..NumFsys - 1
      <4> SUFFICES ASSUME NEW n \in 1..Len(stack) PROVE stack'[n].fst \in -1..NumFsys - 1
        BY <2>7, Fetched
      <4>1. CASE n = Len(stack)
        BY <1>0, <2>7, <3>2, <4>1, Fetched DEF Top
      <4>2. CASE n # Len(stack)
        BY <2>7, <3>1, <4>2, Fetched
      <4> QED BY <4>1, <4>2
    <3>4. fsys' \in -1..NumFsys /\ fsys' # NumFsys
      BY <1>0, <3>2
    <3> QED BY <2>7, <3>3, <3>4 DEF FetchDriver, Steady
  <2>8. CASE UseDriver
    <3>1. Top.fst \in -1..NumFsys - 1
      BY <2>8, TopIs DEF UseDriver, Steady, Inv, Control, Top
    <3> QED BY <1>0, <2>8, <3>1 DEF UseDriver, Steady
  <2>9. CASE NoDriverLeft \/ LookUnset \/ GiveUp \/ KeepRoot
    BY <2>9 DEF NoDriverLeft, LookUnset, GiveUp, KeepRoot, Steady
  <2>10. CASE Leave
    <3>1. \A n \in 1..Len(stack') : stack'[n].fst \in -1..NumFsys - 1
      BY <2>10, Left DEF Steady
    <3>2. UNCHANGED <<where, disk, errnum>> /\ pc \in {"opened", "unopened"}
          /\ pc' \in {"rooted", "unrooted", "look"} /\ (pc = "opened" => pc' # "unrooted")
      BY <2>10 DEF Leave
    <3>3. careful /\ pc = "opened" => mounted = cur
      BY DEF Inv, Superblock
    <3>4. pc = "unopened" => errnum # "none"
      BY DEF Steady
    <3>5. pc = "unopened" => pc' \in {"unrooted", "look"}
      BY <2>10 DEF Leave
    <3> QED BY <3>1, <3>2, <3>3, <3>4, <3>5 DEF Steady
  <2>11. CASE LookFinds \/ LookFails
    BY <2>11 DEF LookFinds, LookFails, Steady
  <2>12. CASE Retry
    <3>1. \A n \in 1..Len(stack') : stack'[n].fst \in -1..NumFsys - 1
      BY <2>12, Retried DEF Steady
    <3>2. filetab => FALSE
      BY <2>12 DEF Retry, Nested, Inv, Control
    <3> QED BY <2>12, <3>1, <3>2 DEF Retry, Steady
  <2>13. CASE SetRoot
    <3>1. saved'.fsys = RootFsys /\ RootFsys \in {-1, fsys}
      BY <2>13 DEF SetRoot, RootFsys
    <3>2. careful => mounted = cur
      BY <2>13 DEF SetRoot, Inv, Superblock
    <3> QED BY <1>0, <2>13, <3>1, <3>2 DEF SetRoot, Steady
  <2> QED BY <1>4, <2>2, <2>3, <2>4, <2>5, <2>6, <2>7, <2>8, <2>9, <2>10, <2>11, <2>12, <2>13 DEF Step
<1> QED BY <1>1, <1>2, <1>3, <1>4 DEF Next

LEMMA CountedInit == Init => Counted
BY DEF Init, Counted

LEMMA CountedNext == Inv /\ Steady /\ Counted /\ [Next]_vars => Counted'
<1> SUFFICES ASSUME Inv, Steady, Counted, [Next]_vars PROVE Counted'
  OBVIOUS
<1> USE DEF where, disk, ext, Finish
<1>0. Len(stack) \in Nat /\ (stack = <<>> => Len(stack) = 0)
  BY LenProperties DEF Inv, Types
<1>1. ASSUME NEW c \in Calls, Ask(c) PROVE Counted'
  <2>1. c.kind \in {"open", "dir", "root", "print", "block"}
    BY ConstantsAssumption DEF CallType
  <2>2. stack = <<>> /\ stack' = <<>> /\ pc' \in {"setup", "root", "print", "block"}
    BY <1>1, <2>1 DEF Ask, Idle, Inv, Control
  <2> QED BY <1>0, <2>2 DEF Counted
<1>2. CASE Loop
  BY <1>2 DEF Loop, Counted, Top
<1>3. CASE UNCHANGED vars
  BY <1>3 DEF vars, Counted, Top
<1>4. CASE PrintRoot \/ OpenBlocks \/ StartRoot \/ SetRoot \/ KeepRoot
  BY <1>0, <1>4 DEF PrintRoot, OpenBlocks, StartRoot, SetRoot, KeepRoot, Counted, Inv, Control
<1>5. CASE SetupNamed \/ SetupRoot \/ SetupMounted
  BY <1>5 DEF SetupNamed, SetupRoot, SetupMounted, Counted
<1>6. CASE Enter
  <2>1. CASE pc' = "overflow"
    BY <1>6, <2>1 DEF Enter, Counted
  <2>2. CASE pc' # "overflow"
    <3>1. pc = "enter" /\ pc' \in {"each", "loaded"}
      BY <1>6, <2>2 DEF Enter
    <3>2. \A n \in 1..Len(stack) : stack[n].fst >= 0
      BY <3>1 DEF Counted
    <3>3. \A n \in 1..Len(stack') : n < Len(stack') => n \in 1..Len(stack)
      BY <1>6, <2>2, Entered
    <3>4. \A n \in 1..Len(stack') : n < Len(stack') => stack'[n].fst >= 0
      BY <1>6, <2>2, <3>2, <3>3, Entered
    <3>5. Top'.fst = -1
      BY <1>6, <2>2, Entered DEF Top
    <3> QED BY <3>1, <3>4, <3>5 DEF Counted
  <2> QED BY <2>1, <2>2
<1>7. CASE TryLoaded \/ TryBoot \/ TryDriver
  <2>1. /\ pc = "loaded" => pc' \in {"opened", "boot"}
        /\ pc # "loaded" => pc' \in {"opened", "each"}
    BY <1>7, Tried, "boot" # "opened", "each" # "opened" DEF TryLoaded, TryBoot, TryDriver
  <2>2. UNCHANGED <<driver, stack>>
    BY <1>7 DEF TryLoaded, TryBoot, TryDriver
  <2> QED BY <2>1, <2>2 DEF Counted, Top
<1>8. CASE UseBootDriver \/ OpenDriverFile
  BY <1>8 DEF UseBootDriver, OpenDriverFile, set_boot_fsys, Put, Counted, Top
<1>9. CASE FetchDriver
  <2>1. pc' \in {"fetch", "found", "each"} /\ pc = "each"
    BY <1>9 DEF FetchDriver
  <2>2. ASSUME NEW n \in 1..Len(stack), n < Len(stack) PROVE stack'[n].fst >= 0
    BY <1>9, <2>2, Fetched DEF Counted
  <2>3. stack'[Len(stack)].fst >= 0
    <3>1. stack[Len(stack)].fst \in -1..NumFsys - 1 /\ NumFsys \in Nat
      BY <1>9, Fetched, ConstantsAssumption DEF Steady
    <3> QED BY <1>9, <3>1, Fetched
  <2> QED BY <1>9, <2>1, <2>2, <2>3, Fetched DEF Counted
<1>10. CASE UseDriver
  BY <1>10 DEF UseDriver, Put, Counted, Top
<1>11. CASE NoDriverLeft \/ LookFinds \/ LookFails \/ LookUnset
  BY <1>11 DEF NoDriverLeft, LookFinds, LookFails, LookUnset, Counted, Top
<1>12. CASE Leave
  <2>1. pc' \in {"rooted", "unrooted", "look"}
    BY <1>12 DEF Leave
  <2>2. \A n \in 1..Len(stack') : n \in 1..Len(stack) /\ n < Len(stack)
    BY <1>12, Left
  <2>3. \A n \in 1..Len(stack') : stack'[n].fst >= 0
    BY <1>12, <2>2, Left DEF Counted
  <2> QED BY <2>1, <2>3 DEF Counted
<1>13. CASE Retry
  BY <1>13, Retried DEF Retry, Counted
<1>14. CASE GiveUp
  <2>1. pc' \in {"each", "idle"} /\ pc = "notfound" /\ stack' = stack
    BY <1>14 DEF GiveUp
  <2> QED BY <2>1 DEF Counted
<1> QED BY <1>1, <1>2, <1>3, <1>4, <1>5, <1>6, <1>7, <1>8, <1>9, <1>10, <1>11, <1>12, <1>13, <1>14 DEF Next, Step

LEMMA AtHomeInit == Init => AtHome
BY EmptySeq DEF Init, AtHome, Home, Nested

LEMMA AtHomeNext == Inv /\ Steady /\ Counted /\ AtHome /\ [Next]_vars => AtHome'
<1> SUFFICES ASSUME Inv, Steady, Counted, AtHome, [Next]_vars, Home' PROVE AtHome'
  BY DEF AtHome
<1> USE DEF where, disk, ext, Finish
<1>0. /\ Len(stack) \in Nat /\ (stack = <<>> => Len(stack) = 0)
      /\ saved.dev \in Dev /\ saved.dev # None
  BY LenProperties, ConstantsAssumption DEF Inv, Types
<1>1. ASSUME UNCHANGED filetab, NEW c \in Calls, Ask(c) PROVE AtHome'
  <2>1. stack = <<>> /\ stack' = <<>> /\ UNCHANGED <<saved, cur, mounted>> /\ pc = "idle"
    BY <1>1 DEF Ask, Idle, Inv, Control
  <2>2. Home
    BY <1>1, <2>1 DEF Ask, Home
  <2>3. pc' \in {"setup", "root", "print", "block"}
    BY <1>1, ConstantsAssumption DEF Ask, CallType
  <2> QED BY <1>0, <2>1, <2>2, <2>3 DEF AtHome, Nested
<1>2. CASE UNCHANGED <<filetab, careful>> /\ Loop
  <2>1. stack = <<>> /\ stack' = <<>> /\ UNCHANGED <<saved, cur, mounted, pc>> /\ pc = "idle"
    BY <1>2 DEF Loop, Idle, Inv, Control
  <2>2. Home
    BY <1>2, <2>1 DEF Home
  <2> QED BY <1>0, <2>1, <2>2 DEF AtHome, Nested
<1>3. CASE UNCHANGED vars
  BY <1>3 DEF vars, AtHome, Home, Nested, Target, Top
<1>4. CASE Step /\ SetRoot
  <2>1. stack = <<>> /\ stack' = <<>> /\ careful
    BY <1>4 DEF SetRoot, Step, Home, Inv, Control
  <2>2. mounted = cur
    BY <1>4, <2>1 DEF SetRoot, Inv, Superblock
  <2> QED BY <1>0, <1>4, <2>1, <2>2 DEF SetRoot, AtHome, Nested
<1>5. CASE Step /\ ~ SetRoot
  <2>0. /\ Home /\ filetab' = filetab /\ saved'.dev = saved.dev /\ call' = call /\ Target' = Target
    <3>1. pc # "rooted"
      BY <1>5 DEF Step, PrintRoot, StartRoot, OpenBlocks, SetupNamed, SetupRoot, SetupMounted, Enter,
         TryLoaded, UseBootDriver, TryBoot, FetchDriver, OpenDriverFile, UseDriver, TryDriver,
         NoDriverLeft, Leave, LookFinds, LookFails, LookUnset, Retry, GiveUp, KeepRoot
    <3> QED BY <1>5, <3>1, Same
  <2>h. careful /\ ~ filetab /\ Reliable(saved.dev) /\ <<-1, saved.dev>> \in Mountable
    BY <2>0 DEF Home
  <2>w. \A n \in 1..Len(stack) : stack[n].cd = saved.dev
          => n = Len(stack) /\ pc \in {"loaded", "boot", "bootdriver", "opened"}
    BY <2>0 DEF AtHome
  <2>t. ASSUME stack # <<>>
        PROVE  /\ Len(stack) \in 1..Len(stack) /\ Len(stack) \in Nat \ {0}
               /\ Top = stack[Len(stack)] /\ Top.cd = For(Len(stack))
               /\ Top.cd = saved.dev => pc \in {"loaded", "boot", "bootdriver", "opened"}
    BY <2>t, <2>w, TopIs DEF Inv, Top
  <2>2. CASE PrintRoot \/ OpenBlocks
    BY <2>2, <2>h DEF PrintRoot, OpenBlocks, Inv, Control
  <2>3. CASE StartRoot
    <3>1. stack = <<>> /\ stack' = <<>> /\ pc' = "enter"
      BY <2>3 DEF StartRoot, Inv, Control
    <3> QED BY <1>0, <3>1 DEF AtHome, Nested
  <2>4. CASE SetupNamed
    <3>1. stack = <<>> /\ stack' = <<>> /\ pc' = "enter"
      BY <2>4 DEF SetupNamed, Named, Nested
    <3> QED BY <1>0, <3>1 DEF AtHome, Nested
  <2>5. CASE SetupRoot
    BY <2>0, <2>5 DEF SetupRoot, AtHome, Nested
  <2>6. CASE SetupMounted
    <3>1. cur = saved.dev /\ errnum = "none"
      BY <2>6, <2>h DEF SetupMounted, Remount, Steady
    <3> QED BY <2>0, <2>6, <3>1 DEF SetupMounted, AtHome, Nested
  <2>7. CASE Enter
    <3>0. UNCHANGED <<cur, driver>> /\ pc = "enter" /\ pc' \in {"loaded", "overflow"}
      BY <2>7, <2>h DEF Enter
    <3>1. CASE pc' = "overflow"
      BY <2>0, <2>7, <3>0, <3>1 DEF Enter, AtHome, Nested
    <3>2. CASE pc' # "overflow"
      <4>1. \A n \in 1..Len(stack) : stack[n].cd # saved.dev
        BY <2>w, <3>0
      <4>2. \A n \in 1..Len(stack') : stack'[n].cd = saved.dev => n = Len(stack')
        BY <2>7, <3>2, <4>1, Entered
      <4>3. Target # saved.dev /\ cur = saved.dev => driver = -1
        <5> SUFFICES ASSUME Target # saved.dev, cur = saved.dev PROVE driver = -1
          OBVIOUS
        <5>1. stack # <<>>
          BY <1>0, <3>0 DEF Inv, Place, For
        <5> QED BY <2>0, <5>1 DEF AtHome, Nested
      <4> QED BY <2>0, <3>0, <3>2, <4>2, <4>3 DEF AtHome
    <3> QED BY <3>1, <3>2
  <2>8. CASE TryLoaded
    <3>1. stack # <<>> /\ cur = Top.cd /\ errnum = "none"
      BY <2>8, <2>h DEF TryLoaded, Inv, Control, Place, Steady
    <3>2. /\ pc' \in {"opened", "boot"} /\ (pc' = "opened" => mounted' = cur)
          /\ cur = saved.dev => errnum' = "none"
      BY <2>8, <2>h, <3>1, Tried, TriedReliable, "boot" # "opened" DEF TryLoaded
    <3> QED BY <2>0, <2>8, <2>w, <3>1, <3>2 DEF TryLoaded, AtHome, Nested
  <2>9. CASE UseBootDriver
    BY <2>0, <2>9 DEF UseBootDriver, set_boot_fsys, Put, AtHome, Nested
  <2>10. CASE TryBoot
    <3>1. stack # <<>> /\ cur = Top.cd /\ driver = -1
      BY <2>10 DEF TryBoot, Inv, Control, Place, Counted
    <3>2. pc' \in {"opened", "each"} /\ (pc' = "opened" => mounted' = cur)
      BY <2>10, Tried, "each" # "opened" DEF TryBoot
    <3>3. cur = saved.dev => pc' = "opened"
      <4> SUFFICES ASSUME cur = saved.dev PROVE pc' = "opened"
        OBVIOUS
      <4>1. errnum = "none"
        BY <2>0, <2>10 DEF TryBoot, AtHome
      <4> QED BY <2>10, <2>h, <3>1, <4>1, TriedReliable, "each" # "opened" DEF TryBoot
    <3>4. \A n \in 1..Len(stack) : stack[n].cd = saved.dev => n = Len(stack) /\ pc' = "opened"
      BY <2>w, <3>1, <3>3 DEF Top
    <3>5. UNCHANGED <<stack, cur, driver>>
      BY <2>10 DEF TryBoot
    <3> QED BY <2>0, <3>1, <3>2, <3>3, <3>4, <3>5 DEF AtHome, Nested
  <2>11. CASE FetchDriver
    <3>1. UNCHANGED <<cur, mounted, driver>> /\ pc = "each" /\ pc' = "fetch"
      BY <2>11, <2>h DEF FetchDriver
    <3>2. \A n \in 1..Len(stack') : stack'[n].cd # saved.dev
      BY <2>11, <2>w, <3>1, Fetched
    <3> QED BY <2>0, <2>11, <3>1, <3>2, Fetched DEF AtHome, Nested
  <2>12. CASE OpenDriverFile
    <3>1. stack # <<>> /\ pc = "fetch" /\ pc' = "setup" /\ UNCHANGED <<cur, stack>> /\ driver' = -1
      BY <2>12 DEF OpenDriverFile, set_boot_fsys, Put, Inv, Control
    <3>2. Target # saved.dev
      <4>1. 1 \in 1..Len(stack) /\ stack[1].cd = Target
        BY <2>t, <3>1 DEF Inv, Activations, For
      <4> QED BY <2>w, <3>1, <4>1
    <3>3. cur = saved.dev => mounted' = saved.dev
      BY <2>0, <2>12, <3>1, <3>2 DEF OpenDriverFile, set_boot_fsys, Put, AtHome, Nested
    <3> QED BY <2>0, <3>1, <3>3, <2>w DEF AtHome, Nested
  <2>13. CASE UseDriver
    <3>1. stack # <<>> /\ pc = "found" /\ saved.dev \notin Flaky
      BY <2>13, <2>h DEF UseDriver, Reliable, Inv, Control
    <3>2. UNCHANGED stack /\ pc' = "driver" /\ cur' = Top.cd
      BY <2>13, <3>1 DEF UseDriver
    <3>3. cur' # saved.dev
      BY <2>t, <3>1, <3>2
    <3> QED BY <2>0, <2>w, <3>1, <3>2, <3>3 DEF AtHome, Nested
  <2>14. CASE TryDriver
    <3>1. stack # <<>> /\ cur = Top.cd /\ pc = "driver"
      BY <2>14 DEF TryDriver, Inv, Control, Place
    <3>2. pc' \in {"opened", "each"} /\ (pc' = "opened" => mounted' = cur)
      BY <2>14, Tried, "each" # "opened" DEF TryDriver
    <3>3. cur # saved.dev
      BY <2>t, <3>1
    <3>4. UNCHANGED <<stack, cur, driver>>
      BY <2>14 DEF TryDriver
    <3> QED BY <2>0, <2>w, <3>1, <3>2, <3>3, <3>4 DEF AtHome, Nested
  <2>15. CASE NoDriverLeft
    BY <2>0, <2>15 DEF NoDriverLeft, AtHome, Nested
  <2>16. CASE Leave
    <3>1. /\ UNCHANGED <<cur, mounted, driver, errnum>> /\ pc \in {"opened", "unopened"}
          /\ pc' \in {"look", "rooted", "unrooted"}
      BY <2>16 DEF Leave
    <3>2. stack # <<>> /\ Len(stack') = Len(stack) - 1 /\ \A n \in 1..Len(stack') : stack'[n] = stack[n]
      BY <2>16, Left
    <3>3. \A n \in 1..Len(stack') : stack'[n].cd # saved.dev
      <4>1. \A n \in 1..Len(stack') : n \in 1..Len(stack) /\ n # Len(stack)
        BY <1>0, <3>2
      <4> QED BY <2>w, <3>2, <4>1
    <3>4. cur = saved.dev => mounted = saved.dev
      BY <2>0, <2>h, <3>1 DEF AtHome, Inv, Superblock
    <3>5. Nested' => cur = saved.dev /\ pc = "opened"
      <4> SUFFICES ASSUME stack' # <<>> PROVE cur = saved.dev /\ pc = "opened"
        BY DEF Nested
      <4>1. Len(stack) # 1 /\ Len(stack) \in Nat \ {0}
        BY <2>16, Left
      <4>2. Top.cd = saved.dev
        BY <2>t, <3>2, <4>1 DEF For
      <4> QED BY <2>t, <3>1, <3>2, <4>2 DEF Inv, Place
    <3>6. Nested' => errnum = "none"
      BY <3>5 DEF Steady
    <3>7. Nested /\ Target # saved.dev /\ cur = saved.dev => driver = -1
      BY <2>0 DEF AtHome
    <3>8. Nested
      BY <3>2 DEF Nested
    <3> QED BY <2>0, <3>1, <3>3, <3>4, <3>5, <3>6, <3>7, <3>8 DEF AtHome
  <2>17. CASE LookFinds
    <3>1. UNCHANGED <<cur, mounted, driver, stack>> /\ pc = "look" /\ pc' \in {"found", "idle"}
      BY <2>17 DEF LookFinds
    <3> QED BY <2>0, <2>w, <3>1 DEF AtHome, Nested
  <2>18. CASE LookFails
    <3>1. UNCHANGED <<cur, mounted, driver, stack>> /\ pc = "look" /\ pc' = "notfound"
      BY <2>18 DEF LookFails
    <3>2. Nested => cur = saved.dev /\ <<saved.dev, Top.fst>> \notin Files
      <4> SUFFICES ASSUME Nested PROVE cur = saved.dev /\ <<saved.dev, Top.fst>> \notin Files
        OBVIOUS
      <4>1. cur = saved.dev /\ errnum = "none" /\ mounted = saved.dev
        BY <2>0, <3>1 DEF AtHome
      <4>2. ~ Blocked /\ mounted \notin Flaky
        BY <2>h, <4>1 DEF Blocked, Steady, Reliable
      <4>3. ~ Finds
        BY <2>18, <4>2 DEF LookFails
      <4> QED BY <1>0, <4>1, <4>3 DEF Finds, Sought
    <3>3. Top' = Top
      BY <3>1 DEF Top
    <3> QED BY <2>0, <2>w, <3>1, <3>2, <3>3 DEF AtHome, Nested
  <2>19. CASE LookUnset
    BY <2>19, <2>h DEF LookUnset, Unset
  <2>20. CASE Retry
    <3>1. UNCHANGED <<cur, mounted, driver>> /\ pc = "notfound" /\ pc' = "setup"
      BY <2>20 DEF Retry
    <3>2. \A n \in 1..Len(stack') : stack'[n].cd # saved.dev
      BY <2>20, <2>w, <3>1, Retried
    <3>3. Nested' => Nested
      BY <2>20, Retried DEF Nested
    <3> QED BY <2>0, <3>1, <3>2, <3>3 DEF AtHome
  <2>21. CASE GiveUp
    <3>1. UNCHANGED <<cur, mounted, driver, stack>> /\ pc = "notfound" /\ pc' \in {"each", "idle"}
      BY <2>21 DEF GiveUp
    <3> QED BY <2>0, <2>w, <3>1 DEF AtHome, Nested
  <2>22. CASE KeepRoot
    <3>1. UNCHANGED <<cur, mounted, driver, stack>> /\ pc = "unrooted" /\ pc' = "idle"
      BY <2>22 DEF KeepRoot
    <3> QED BY <2>0, <2>w, <3>1 DEF AtHome, Nested
  <2> QED BY <1>5, <2>2, <2>3, <2>4, <2>5, <2>6, <2>7, <2>8, <2>9, <2>10, <2>11, <2>12, <2>13, <2>14,
             <2>15, <2>16, <2>17, <2>18, <2>19, <2>20, <2>21, <2>22 DEF Step
<1> QED BY <1>1, <1>2, <1>3, <1>4, <1>5 DEF Next

\* What can be had for a device from files, or for the root itself, is had through the
\* boot driver.
LEMMA Reached ==
  ASSUME careful, Findable, ~ filetab,
         Target = saved.dev \/ \E r \in Int : Good(r) /\ r >= 0
  PROVE  Home
<1>1. PICK q \in Driver : Available(q) /\ <<q, Target>> \in Mountable
  BY DEF Findable
<1>2. Reliable(saved.dev)
  BY DEF Findable
<1>3. CASE Target = saved.dev
  BY <1>1, <1>2, <1>3 DEF Home, Available
<1>4. ASSUME NEW r \in Int, Good(r), r >= 0 PROVE Home
  BY <1>2, <1>4 DEF Home, Available, Good
<1> QED BY <1>3, <1>4

\* A search within a search is for the root, which the boot driver understands.
LEMMA Inner ==
  ASSUME Inv, Counted, AtHome, Search, careful, Findable, stack # <<>>, Len(stack) # 1
  PROVE  Home /\ Top.cd = saved.dev /\ pc \in {"loaded", "boot", "bootdriver", "opened"}
<1>1. Len(stack) \in Nat \ {0} /\ Top.cd = For(Len(stack)) /\ Top = stack[Len(stack)]
  BY TopIs DEF Inv, Top
<1> DEFINE n == Len(stack)
<1>2. 1 \in 1..Len(stack) /\ Len(stack) \in 1..Len(stack) /\ 1 < Len(stack)
  <2>1. n \in Nat \ {0} /\ n # 1
    BY <1>1
  <2> HIDE DEF n
  <2>2. 1 \in 1..n /\ n \in 1..n /\ 1 < n
    BY <2>1
  <2> QED BY <2>2 DEF n
<1> HIDE DEF n
<1>3. Top.cd = saved.dev
  BY <1>1 DEF For
<1>4. ~ filetab
  BY <1>2 DEF Inv, Control
<1>5. stack[1].fst >= 0 /\ stack[1].fst \in Int
  <2>1. stack \in Seq(Activation)
    BY DEF Inv, Types
  <2>2. stack[1] \in Activation
    BY <1>2, <2>1, ElementOfSeq
  <2>3. stack[1].fst >= 0
    BY <1>2 DEF Counted
  <2> QED BY <2>2, <2>3 DEF Activation
<1>6. PICK q \in Driver : Good(q)
  BY DEF Findable, Good
<1>7. q \in Int /\ q >= 0
  BY <1>5, <1>6 DEF Search, Nested, Driver
<1>8. Home
  BY <1>4, <1>6, <1>7, Reached
<1> QED BY <1>1, <1>2, <1>3, <1>8 DEF AtHome

LEMMA SearchInit == Init => Search
BY DEF Init, Search, Nested, Idle

LEMMA SearchNext == Inv /\ Steady /\ Counted /\ AtHome /\ Search /\ [Next]_vars => Search'
<1> SUFFICES ASSUME Inv, Steady, Counted, AtHome, Search, [Next]_vars, careful', Findable'
             PROVE Search'
  BY DEF Search
<1> USE DEF where, disk, ext, Finish
<1>0. /\ Len(stack) \in Nat /\ (stack = <<>> => Len(stack) = 0) /\ (stack # <<>> => Len(stack) # 0)
      /\ NumFsys \in Nat
  BY LenProperties, EmptySeq, ConstantsAssumption DEF Inv, Types
<1>1. ASSUME NEW c \in Calls, Ask(c) PROVE Search'
  <2>1. stack' = <<>> /\ pc' \in {"setup", "root", "print", "block"}
    BY <1>1, ConstantsAssumption DEF Ask, CallType, Idle, Inv, Control
  <2> QED BY <2>1 DEF Search, Nested, Idle
<1>2. CASE UNCHANGED <<filetab, careful>> /\ Loop
  <2>1. stack' = <<>> /\ pc = "idle" /\ pc' = "idle" /\ ret' = ret
    BY <1>2 DEF Loop, Idle, Inv, Control
  <2>2. Findable
    BY <1>2 DEF Loop, Findable, Target, Available
  <2> QED BY <1>2, <2>1, <2>2 DEF Search, Nested, Idle
<1>3. CASE UNCHANGED vars
  <2>1. Findable /\ careful
    BY <1>3 DEF vars, Findable, Target, Available
  <2>2. Target' = Target /\ \A r : Good(r)' <=> Good(r)
    BY <1>3 DEF vars, Good, Target, Available
  <2> QED BY <1>3, <2>1, <2>2 DEF vars, Search, Nested, Idle, Unset
<1>4. CASE Step /\ SetRoot
  <2>1. stack' = <<>> /\ pc' = "idle" /\ (ret' = "failed" => cur \in Flaky) /\ saved'.dev = cur
    BY <1>4 DEF SetRoot, Inv, Control
  <2>2. ret' # "failed"
    BY <2>1 DEF Findable, Reliable
  <2> QED BY <2>1, <2>2 DEF Search, Nested, Idle
<1>5. CASE Step /\ ~ SetRoot
  <2>0. /\ filetab' = filetab /\ saved'.dev = saved.dev /\ call' = call /\ Target' = Target
        /\ careful /\ Findable /\ \A r : Good(r)' <=> Good(r)
    <3>1. pc # "rooted"
      BY <1>5 DEF Step, PrintRoot, StartRoot, OpenBlocks, SetupNamed, SetupRoot, SetupMounted, Enter,
         TryLoaded, UseBootDriver, TryBoot, FetchDriver, OpenDriverFile, UseDriver, TryDriver,
         NoDriverLeft, Leave, LookFinds, LookFails, LookUnset, Retry, GiveUp, KeepRoot
    <3> QED BY <1>5, <3>1, Same
  <2>r. Reliable(Target) /\ Reliable(saved.dev) /\ (cur = Top.cd /\ stack # <<>> => Reliable(cur))
    BY <2>0, TopIs DEF Findable, Inv, For
  <2>b. Nested => \A r \in Int : Good(r) => stack[1].fst <= r /\ (pc = "each" => stack[1].fst < r)
    BY <2>0 DEF Search
  <2>o. ASSUME stack # <<>>, pc \in {"each", "found", "driver", "notfound"}
        PROVE  Len(stack) = 1 /\ Top = stack[1] /\ Top.cd = Target /\ Top.fst \in Int
    BY <2>0, <2>o, Inner, TopIs DEF Top, For, Inv, Activation
  <2>g. \A r \in Int : Good(r) => r >= -1 /\ <<r, Target>> \in Mountable /\ (filetab => r # -1)
    BY <1>0 DEF Good, Driver, Available
  <2>2. CASE PrintRoot \/ OpenBlocks
    BY <2>2, <2>0 DEF PrintRoot, OpenBlocks, Inv, Control
  <2>3. CASE StartRoot
    <3>1. stack' = <<>> /\ pc' = "enter"
      BY <2>3 DEF StartRoot, Inv, Control
    <3> QED BY <3>1 DEF Search, Nested, Idle
  <2>4. CASE SetupNamed \/ SetupRoot
    <3>1. UNCHANGED stack /\ pc' = "enter"
      BY <2>4 DEF SetupNamed, SetupRoot
    <3> QED BY <2>0, <2>b, <3>1 DEF Search, Nested, Idle
  <2>5. CASE SetupMounted
    <3>1. UNCHANGED <<stack, mounted, driver, errnum, cur>> /\ pc = "setup" /\ pc' = "look"
          /\ cur = saved.dev /\ errnum = "none"
      BY <2>0, <2>5 DEF SetupMounted, Remount, Steady
    <3>2. ~ Nested => mounted = Target \/ Unset
      <4> SUFFICES ASSUME ~ Nested PROVE mounted = Target \/ Unset
        OBVIOUS
      <4>1. Target = saved.dev
        BY <2>5 DEF SetupMounted, Named, Target
      <4>2. CASE filetab
        BY <2>0, <3>1, <4>1, <4>2 DEF Steady, Unset
      <4>3. CASE ~ filetab
        BY <2>0, <3>1, <4>1, <4>3, Reached DEF AtHome
      <4> QED BY <4>2, <4>3
    <3>3. (mounted = Target \/ Unset) => (mounted = Target \/ Unset)'
      BY <2>0, <3>1 DEF Unset
    <3> QED BY <2>0, <2>b, <3>1, <3>2, <3>3 DEF Search, Nested, Idle
  <2>6. CASE Enter
    <3>1. CASE pc' = "overflow"
      BY <2>0, <2>6, <2>b, <3>1 DEF Enter, Search, Nested, Idle
    <3>2. CASE pc' # "overflow"
      <4>1. pc = "enter" /\ pc' = (IF filetab THEN "each" ELSE "loaded") /\ errnum' = "none"
        BY <2>0, <2>6, <3>2 DEF Enter, Steady
      <4>2. CASE stack = <<>>
        <5>1. stack'[1].fst = -1
          BY <1>0, <2>6, <3>2, <4>2, Entered
        <5>2. \A r \in Int : Good(r) => stack'[1].fst <= r /\ (pc' = "each" => stack'[1].fst < r)
          <6> SUFFICES ASSUME NEW r \in Int, Good(r)
                       PROVE  stack'[1].fst <= r /\ (pc' = "each" => stack'[1].fst < r)
            OBVIOUS
          <6>1. r >= -1
            BY <2>g
          <6>2. pc' = "each" => r # -1
            BY <2>g, <4>1
          <6> QED BY <5>1, <6>1, <6>2
        <5> QED BY <2>0, <4>1, <5>2 DEF Search, Idle
      <4>3. CASE stack # <<>>
        <5>1. ~ filetab /\ 1 \in 1..Len(stack)
          BY <1>0, <4>1, <4>3 DEF Inv, Control
        <5>2. stack'[1] = stack[1]
          BY <2>6, <3>2, <5>1, Entered
        <5> QED BY <2>0, <2>b, <4>1, <4>3, <5>1, <5>2 DEF Search, Nested, Idle
      <4> QED BY <4>2, <4>3
    <3> QED BY <3>1, <3>2
  <2>7. CASE TryLoaded
    <3>1. stack # <<>> /\ cur = Top.cd /\ errnum = "none" /\ pc = "loaded" /\ UNCHANGED stack
      BY <2>0, <2>7 DEF TryLoaded, Inv, Control, Place, Steady
    <3>2. pc' \in {"opened", "boot"} /\ errnum' = "none"
      BY <2>7, <2>r, <3>1, Tried, TriedReliable, "boot" # "opened" DEF TryLoaded
    <3> QED BY <2>0, <2>b, <3>1, <3>2 DEF Search, Nested, Idle
  <2>8. CASE UseBootDriver
    <3>1. UNCHANGED <<stack, errnum>> /\ pc = "boot" /\ pc' = "bootdriver"
      BY <2>8 DEF UseBootDriver
    <3> QED BY <2>0, <2>b, <3>1 DEF Search, Nested, Idle
  <2>9. CASE TryBoot
    <3>1. /\ stack # <<>> /\ cur = Top.cd /\ driver = -1 /\ Top.fst = -1 /\ errnum = "none"
          /\ UNCHANGED stack
      BY <2>0, <2>9 DEF TryBoot, Inv, Control, Place, Counted, Search
    <3>2. /\ pc' \in {"opened", "each"} /\ errnum' = "none"
          /\ <<-1, cur>> \in Mountable => pc' = "opened"
      BY <2>9, <2>r, <3>1, Tried, TriedReliable, "each" # "opened" DEF TryBoot
    <3>3. \A r \in Int : Good(r) /\ pc' = "each" => stack[1].fst < r
      <4> SUFFICES ASSUME pc' = "each", NEW r \in Int, Good(r) PROVE stack[1].fst < r
        OBVIOUS
      <4>1. Len(stack) = 1
        BY <2>0, <3>1, <3>2, Inner DEF Home
      <4>2. stack[1].fst = -1 /\ cur = Target
        BY <3>1, <4>1, TopIs DEF Top, For, Inv
      <4>3. r >= -1
        BY <2>g
      <4>4. r # -1
        BY <2>g, <3>2, <4>2
      <4> QED BY <4>2, <4>3, <4>4
    <3> QED BY <2>0, <2>b, <3>1, <3>2, <3>3 DEF Search, Nested, Idle
  <2>10. CASE FetchDriver
    <3>1. stack # <<>> /\ pc = "each" /\ UNCHANGED errnum
      BY <2>10 DEF FetchDriver, Inv, Control
    <3>2. Len(stack) = 1 /\ Top = stack[1] /\ Top.fst \in Int /\ stack' # <<>> /\ stack'[1].fst = Top.fst + 1
      BY <2>10, <2>o, <3>1, Fetched
    <3>3. /\ pc' \in {"fetch", "found", "each"}
          /\ pc' # "fetch" => filetab
          /\ pc' = "each" => <<Boot, Top.fst + 1>> \notin Files
      BY <2>10 DEF FetchDriver
    <3>4. ASSUME NEW r \in Int, Good(r)
          PROVE  stack'[1].fst <= r /\ (pc' = "each" => stack'[1].fst < r)
      <4>1. Top.fst < r
        BY <2>b, <3>1, <3>2, <3>4 DEF Nested
      <4>2. pc' = "each" => r # Top.fst + 1
        BY <3>3, <3>4 DEF Good, Available
      <4> QED BY <3>2, <4>1, <4>2
    <3>5. filetab => errnum' = "none"
      BY <2>0, <3>1 DEF Search
    <3> QED BY <2>0, <3>3, <3>4, <3>5 DEF Search, Idle
  <2>11. CASE OpenDriverFile
    <3>1. UNCHANGED stack /\ pc' = "setup"
      BY <2>11 DEF OpenDriverFile
    <3> QED BY <2>0, <2>b, <3>1 DEF Search, Nested, Idle
  <2>12. CASE UseDriver
    <3>1. UNCHANGED <<stack, errnum>> /\ pc = "found" /\ pc' \in {"driver", "stopped"}
      BY <2>12 DEF UseDriver
    <3> QED BY <2>0, <2>b, <3>1 DEF Search, Nested, Idle
  <2>13. CASE TryDriver
    <3>1. /\ stack # <<>> /\ pc = "driver" /\ cur = Top.cd /\ driver = Top.fst /\ errnum = "none"
          /\ UNCHANGED stack
      BY <2>0, <2>13 DEF TryDriver, Inv, Control, Place, Counted, Search
    <3>2. /\ pc' \in {"opened", "each"} /\ errnum' = "none"
          /\ <<driver, cur>> \in Mountable => pc' = "opened"
      BY <2>13, <2>r, <3>1, Tried, TriedReliable, "each" # "opened" DEF TryDriver
    <3>3. ASSUME pc' = "each", NEW r \in Int, Good(r) PROVE stack[1].fst < r
      <4>1. stack[1].fst \in Int /\ stack[1].fst <= r /\ stack[1].fst # r
        BY <2>b, <2>g, <2>o, <3>1, <3>2, <3>3 DEF Nested
      <4> QED BY <4>1
    <3> QED BY <2>0, <2>b, <3>1, <3>2, <3>3 DEF Search, Nested, Idle
  <2>14. CASE NoDriverLeft
    <3>1. stack # <<>> /\ pc = "each" /\ Top.fst + 1 >= NumFsys
      BY <2>14 DEF NoDriverLeft, Inv, Control
    <3>2. PICK r \in Driver : Good(r)
      BY <2>0 DEF Findable, Good
    <3>3. r \in Int /\ r <= NumFsys - 1 /\ Top.fst < r /\ Top.fst \in Int
      BY <1>0, <2>b, <2>o, <3>1, <3>2 DEF Driver, Nested
    <3> QED BY <1>0, <3>1, <3>3
  <2>15. CASE Leave
    <3>1. pc = "opened" /\ pc' \in {"rooted", "look"} /\ UNCHANGED <<cur, mounted, errnum>>
      BY <2>0, <2>15 DEF Leave, Search
    <3>2. stack' # <<>> => stack'[1] = stack[1] /\ stack # <<>>
      BY <1>0, <2>15, Left
    <3>3. stack' = <<>> => mounted' = Target
      BY <2>0, <2>15, <3>1, Left DEF For, Inv, Place, Superblock
    <3>4. errnum' = "none"
      BY <3>1 DEF Steady
    <3> QED BY <2>0, <2>b, <3>1, <3>2, <3>3, <3>4 DEF Search, Nested, Idle
  <2>16. CASE LookFinds
    <3>1. UNCHANGED <<stack, errnum>> /\ errnum = "none"
          /\ (pc' = "found" \/ (pc' = "idle" /\ ret' = "ok"))
      BY <2>16 DEF LookFinds, Blocked
    <3> QED BY <2>0, <2>b, <3>1 DEF Search, Nested, Idle
  <2>17. CASE LookFails
    <3>1. UNCHANGED stack /\ pc = "look" /\ pc' = "notfound"
      BY <2>17 DEF LookFails
    <3>2. Nested
      <4> SUFFICES ASSUME ~ Nested PROVE FALSE
        OBVIOUS
      <4>1. errnum = "none" /\ (mounted = Target \/ Unset)
        BY <2>0, <3>1 DEF Search
      <4>2. ~ Blocked
        BY <2>0, <4>1 DEF Blocked, Steady
      <4>3. mounted = Target /\ mounted \notin Flaky
        BY <2>17, <2>r, <4>1, <4>2 DEF LookFails, Reliable
      <4>4. call.kind \in {"open", "dir"} /\ Target # None
        BY <3>1, ConstantsAssumption DEF Nested, Inv, Control, Types, Target
      <4>5. Finds
        BY <2>0, <4>3, <4>4 DEF Finds, Sought, Findable
      <4> QED BY <2>17, <4>2, <4>3, <4>5 DEF LookFails
    <3> QED BY <2>0, <2>b, <3>1, <3>2 DEF Search, Nested, Idle
  <2>18. CASE LookUnset
    <3>1. UNCHANGED stack /\ pc' = "stopped"
      BY <2>18 DEF LookUnset
    <3> QED BY <2>0, <2>b, <3>1 DEF Search, Nested, Idle
  <2>19. CASE Retry
    <3>1. pc' = "setup"
      BY <2>19 DEF Retry
    <3>2. stack' # <<>> => stack # <<>> /\ stack'[1].fst = stack[1].fst
      BY <1>0, <2>19, Retried
    <3> QED BY <2>0, <2>b, <3>1, <3>2 DEF Search, Nested, Idle
  <2>20. CASE GiveUp
    <3>1. stack # <<>> /\ pc = "notfound" /\ pc' = "each" /\ UNCHANGED <<stack, errnum>> /\ ~ filetab
      BY <2>0, <2>20 DEF GiveUp, Search, Nested, Inv, Control
    <3>2. ASSUME NEW r \in Int, Good(r) PROVE stack[1].fst < r
      <4>1. Len(stack) = 1 /\ Top = stack[1] /\ Top.fst \in Int
        BY <2>o, <3>1
      <4>2. stack[1].fst >= 0 /\ stack[1].fst <= r
        BY <2>b, <3>1, <3>2, <4>1 DEF Counted, Nested
      <4>3. r >= 0 /\ r # -1
        BY <4>1, <4>2
      <4>4. Home
        BY <2>0, <3>1, <3>2, <4>3, Reached
      <4>5. r # stack[1].fst
        BY <3>1, <3>2, <4>1, <4>3, <4>4 DEF AtHome, Nested, Good, Available
      <4> QED BY <4>1, <4>2, <4>5
    <3> QED BY <2>0, <2>b, <3>1, <3>2 DEF Search, Nested, Idle
  <2>21. CASE KeepRoot
    BY <2>0, <2>21 DEF KeepRoot, Search
  <2> QED BY <1>5, <2>2, <2>3, <2>4, <2>5, <2>6, <2>7, <2>8, <2>9, <2>10, <2>11, <2>12, <2>13, <2>14,
             <2>15, <2>16, <2>17, <2>18, <2>19, <2>20, <2>21 DEF Step
<1> QED BY <1>1, <1>2, <1>3, <1>4, <1>5 DEF Next

\* u_open(), u_dir() and the root command fail only when there is a reason: whatever was
\* opened, listed or lost before, and however many drivers had to be fetched from files
\* in between, the device's own driver is reached and the file that is there is found.
THEOREM FoundIfThere == Spec => []FindsWhatIsThere
<1>1. Search => FindsWhatIsThere
  BY DEF Search, FindsWhatIsThere
<1>2. Init => Steady /\ Counted /\ AtHome /\ Search
  BY SteadyInit, CountedInit, AtHomeInit, SearchInit
<1>3. Inv /\ Steady /\ Counted /\ AtHome /\ Search /\ [Next]_vars
        => (Steady /\ Counted /\ AtHome /\ Search)'
  BY SteadyNext, CountedNext, AtHomeNext, SearchNext
<1>4. Spec => [](Steady /\ Counted /\ AtHome /\ Search)
  BY <1>2, <1>3, SpecInv, PTL DEF Spec
<1> QED BY <1>1, <1>4, PTL

===============================================================================
