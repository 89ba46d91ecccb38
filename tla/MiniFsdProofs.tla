---------------------------- MODULE MiniFsdProofs ----------------------------
(***************************************************************************)
(* Proofs about MiniFsd: the real file-system driver is handed the files   *)
(* that are open, the modules stay whole in memory, and what is read is    *)
(* the file's, whatever is booted, for any number of handles, selectors    *)
(* and places to note files in.                                            *)
(***************************************************************************)
EXTENDS MiniFsd, TLAPS, FiniteSetTheorems, WellFoundedInduction

-------------------------------------------------------------------------------
(* What memory holds while OS/2 is being loaded, for every list of modules and *)
(* every CONFIG.SYS: each module is whole at its place, wherever the editor's  *)
(* tables, its text, the files preloaded and what mbi_reloc() writes are put.  *)
(* The files CONFIG.SYS names are loaded by folding over a list; that this     *)
(* takes one after another is shown by LoadSteps.                              *)

Listed(q) == q \in Seq(ToSet(q))
IsModule(mod) == mod = [words |-> mod.words, pages |-> mod.pages, start |-> mod.start] /\ mod.start \in Nat /\ mod.pages \in Nat

\* A module is whole in memory.
Holds(mod, memory) ==
  \A p \in Pages(mod.start, mod.pages) : p \in DOMAIN memory /\ memory[p] = <<Last(mod.words), p - mod.start>>

\* Whole modules, all before the next free page.
Whole(list, memory) ==
  Listed(list) /\ list # <<>> /\ \A i \in DOMAIN list : IsModule(list[i]) /\ Holds(list[i], memory)
Below(list, next) == next \in Nat /\ \A i \in DOMAIN list : ModEnd(list[i]) <= next

\* What mbi_reloc() writes behind the last of the list meets no other.
Spared(list) ==
  \A i \in DOMAIN list : ModEnd(list[i]) <= ModEnd(Last(list)) \/ list[i].start >= ModEnd(Last(list)) + MbiPages

AsLoaded == {"start", "letters", "patch", "editor"}
BootInv ==
  /\ boot \in Boots /\ Listed(config)
  /\ Whole(mods, mem)
  /\ at \in AsLoaded \cup {"preload", "reloc"} => Below(mods, cur_addr) /\ Spared(mods)
  /\ at \in AsLoaded => mods = boot.modules /\ cur_addr = ModEnd(Last(mods))

-------------------------------------------------------------------------------
(* Numbers, lists and pages.                                                   *)

\* Of some natural numbers, one is the lowest.
LEMMA Least == ASSUME NEW S \in SUBSET Nat, S # {} PROVE \E i \in S : \A j \in S : i <= j
<1>1. PICK i \in S : \A j \in S : ~ (<<j, i>> \in OpToRel(<, Nat))
  BY NatLessThanWellFounded, WFMin
<1>2. \A j \in S : ~ (j < i)
  BY <1>1, Zenon DEF OpToRel
<1>3. \A j \in S : i <= j
  BY <1>2
<1> QED BY <1>3

\* Lowest is what its name says.
LEMMA HasLowest ==
  ASSUME NEW S \in SUBSET Nat, S # {}
  PROVE  Lowest(S) \in S /\ \A j \in S : Lowest(S) <= j
BY Least, Zenon DEF Lowest

LEMMA Induction ==
  ASSUME NEW N \in Nat, NEW T \in SUBSET Nat, 0 \in T, \A n \in T : n < N => n + 1 \in T
  PROVE  \A n \in 0..N : n \in T
<1> DEFINE out == {n \in Nat : n <= N /\ n \notin T}
<1> SUFFICES ASSUME out # {} PROVE FALSE
  OBVIOUS
<1>1. PICK x \in out : \A y \in out : x <= y
  <2>1. out \in SUBSET Nat
    OBVIOUS
  <2> HIDE DEF out
  <2> QED BY <2>1, Least
<1>2. x # 0 /\ x - 1 \in Nat /\ x - 1 <= N /\ ~ (x <= x - 1)
  OBVIOUS
<1>3. x - 1 \notin out
  BY <1>1, <1>2
<1> QED BY <1>2, <1>3

LEMMA ListIs ==
  ASSUME NEW q, Listed(q)
  PROVE  Len(q) \in Nat /\ DOMAIN q = 1..Len(q) /\ Last(q) = q[Len(q)] /\ (q # <<>> => Len(q) \in DOMAIN q)
BY DEF Listed, Last

LEMMA ListOfFunction ==
  ASSUME NEW n \in Nat, NEW q, q = [i \in 1..n |-> q[i]]
  PROVE  Listed(q) /\ Len(q) = n
<1>1. q \in [1..n -> ToSet(q)]
  BY DEF ToSet
<1> QED BY <1>1 DEF Listed

LEMMA AppendIs ==
  ASSUME NEW q, Listed(q), NEW x
  PROVE  /\ Listed(Append(q, x)) /\ Append(q, x) # <<>> /\ Last(Append(q, x)) = x
         /\ DOMAIN Append(q, x) = 1..(Len(q) + 1)
         /\ \A i \in DOMAIN Append(q, x) : Append(q, x)[i] = IF i = Len(q) + 1 THEN x ELSE q[i]
<1>1. q \in Seq(ToSet(q) \cup {x})
  BY DEF Listed
<1> DEFINE r == Append(q, x)
<1>2. /\ r \in Seq(ToSet(q) \cup {x}) /\ Len(r) = Len(q) + 1 /\ Len(q) \in Nat
      /\ \A i \in 1..(Len(q) + 1) : r[i] = IF i = Len(q) + 1 THEN x ELSE q[i]
  BY <1>1
<1> HIDE DEF r
<1>3. DOMAIN r = 1..(Len(q) + 1) /\ r = [i \in 1..(Len(q) + 1) |-> r[i]] /\ r # <<>>
  BY <1>2
<1>4. Listed(r)
  BY <1>2, <1>3, ListOfFunction
<1> QED BY <1>2, <1>3, <1>4, ListIs DEF r

LEMMA EndIs == ASSUME NEW mod, IsModule(mod) PROVE ModEnd(mod) \in Nat
BY DEF IsModule, ModEnd

\* What is written beside a module leaves it whole.
LEMMA WriteKeeps ==
  ASSUME NEW mod, IsModule(mod), NEW memory, Holds(mod, memory), NEW first \in Nat, NEW n \in Nat, NEW what,
         ModEnd(mod) <= first \/ first + n <= mod.start
  PROVE  Holds(mod, Written(memory, first, n, what))
<1>1. \A p \in Pages(mod.start, mod.pages) : p \notin Pages(first, n)
  BY DEF IsModule, ModEnd, Pages
<1> DEFINE w == Written(memory, first, n, what)
<1>2. DOMAIN memory \subseteq DOMAIN w /\ \A p \in DOMAIN memory : p \notin Pages(first, n) => w[p] = memory[p]
  BY DEF Written
<1> HIDE DEF w
<1>3. Holds(mod, w)
  BY <1>1, <1>2 DEF Holds
<1> QED BY <1>3 DEF w

\* A module that is written is whole.
LEMMA WriteHolds ==
  ASSUME NEW mod, NEW memory
  PROVE  Holds(mod, Written(memory, mod.start, mod.pages, Last(mod.words)))
<1> DEFINE w == Written(memory, mod.start, mod.pages, Last(mod.words))
<1>1. /\ Pages(mod.start, mod.pages) \subseteq DOMAIN w
      /\ \A p \in Pages(mod.start, mod.pages) : w[p] = <<Last(mod.words), p - mod.start>>
  BY DEF Written
<1> HIDE DEF w
<1>2. Holds(mod, w)
  BY <1>1 DEF Holds
<1> QED BY <1>2 DEF w

-------------------------------------------------------------------------------
(* A fold takes the elements of a list one after another.                      *)

\* The highest of numbers up to n is n, if it is one of them.
LEMMA MaxIs == ASSUME NEW n \in Nat, NEW s \in SUBSET (1..n), n \in s PROVE Max(s) = n
<1>1. \E x \in s : \A y \in s : x >= y
  OBVIOUS
<1>2. Max(s) \in s /\ \A y \in s : Max(s) >= y
  BY <1>1, Zenon DEF Max
<1>3. Max(s) \in 1..n /\ Max(s) >= n
  BY <1>2
<1> QED BY <1>3

Folded(st, q) == FoldLeft(Step, st, q)

LEMMA FoldSteps ==
  ASSUME NEW st, NEW q, Listed(q)
  PROVE  \E f : /\ f[0] = st /\ f[Len(q)] = Folded(st, q)
               /\ \A n \in 1..Len(q) : f[n] = Step(f[n - 1], q[n])
<1> DEFINE N == Len(q)
           Iter(n, it) == it = [s \in SUBSET (1..n) |-> IF s = {} THEN st ELSE Step(it[s \ {Max(s)}], q[Max(s)])]
           T == {n \in Nat : \E it : Iter(n, it)}
<1>1. N \in Nat /\ DOMAIN q = 1..N
  BY ListIs
<1>2. 0 \in T
  <2> DEFINE it == [s \in SUBSET (1..0) |-> st]
  <2>1. Iter(0, it)
    OBVIOUS
  <2> QED BY <2>1
<1>3. \A n \in T : n < N => n + 1 \in T
  <2> SUFFICES ASSUME NEW n \in Nat, \E it : Iter(n, it) PROVE \E h : Iter(n + 1, h)
    <3> HIDE DEF Iter
    <3> QED OBVIOUS
  <2> PICK it : Iter(n, it)
    OBVIOUS
  <2> DEFINE h == [s \in SUBSET (1..(n + 1)) |-> IF n + 1 \in s THEN Step(it[s \ {n + 1}], q[n + 1]) ELSE it[s]]
  <2>1. ASSUME NEW s \in SUBSET (1..(n + 1))
        PROVE  h[s] = IF s = {} THEN st ELSE Step(h[s \ {Max(s)}], q[Max(s)])
    <3>1. CASE n + 1 \in s
      <4>1. Max(s) = n + 1
        BY <3>1, MaxIs
      <4>2. h[s \ {n + 1}] = it[s \ {n + 1}]
        OBVIOUS
      <4> QED BY <3>1, <4>1, <4>2
    <3>2. CASE n + 1 \notin s
      <4>1. s \in SUBSET (1..n) /\ h[s] = it[s] /\ \A x : n + 1 \notin s \ {x}
        BY <3>2
      <4>2. \A x : h[s \ {x}] = it[s \ {x}]
        BY <4>1
      <4>3. it[s] = IF s = {} THEN st ELSE Step(it[s \ {Max(s)}], q[Max(s)])
        BY <4>1, Zenon
      <4> QED BY <4>1, <4>2, <4>3
    <3> QED BY <3>1, <3>2
  <2>2. DOMAIN h = SUBSET (1..(n + 1)) /\ h = [s \in SUBSET (1..(n + 1)) |-> h[s]]
    OBVIOUS
  <2> HIDE DEF h
  <2>3. Iter(n + 1, h)
    BY <2>1, <2>2
  <2> QED BY <2>3
<1> DEFINE c == CHOOSE it : Iter(N, it)
<1>4. Iter(N, c)
  <2>1. T \in SUBSET Nat /\ N \in 0..N
    BY <1>1
  <2>2. N \in T
    <3> HIDE DEF T, N
    <3> QED BY <1>1, <1>2, <1>3, <2>1, Induction
  <2> QED BY <2>2
<1>5. Folded(st, q) = c[1..N]
  BY <1>1, Zenon DEF Folded, FoldLeft, MapThenFoldSet
<1> HIDE DEF c
<1>6. c[{}] = st
  BY <1>4
<1>7. ASSUME NEW n \in 1..N
      PROVE  c[1..n] = Step(c[1..(n - 1)], q[n])
  <2> HIDE DEF N
  <2>1. n \in Nat /\ 1..n \in SUBSET (1..N) /\ n \in 1..n /\ (1..n) \ {n} = 1..(n - 1)
    BY <1>1
  <2>2. Max(1..n) = n
    BY <2>1, MaxIs
  <2>3. c[1..n] = Step(c[(1..n) \ {Max(1..n)}], q[Max(1..n)])
    BY <1>4, <2>1, Zenon
  <2> QED BY <2>1, <2>2, <2>3
<1> DEFINE f == [n \in 0..N |-> c[1..n]]
<1>8. f[0] = st /\ f[N] = Folded(st, q) /\ \A n \in 1..N : f[n] = Step(f[n - 1], q[n])
  <2> HIDE DEF N
  <2>1. 1..0 = {} /\ 0 \in 0..N /\ N \in 0..N /\ \A n \in 1..N : n \in 0..N /\ n - 1 \in 0..N
    BY <1>1
  <2> QED BY <1>5, <1>6, <1>7, <2>1
<1> QED BY <1>8

\* What has failed stays as it is.
LEMMA LoadSteps ==
  ASSUME NEW st, NEW q, Listed(q)
  PROVE  \E f : /\ f[0] = st /\ f[Len(q)] = Steps(st, q)
               /\ \A n \in 1..Len(q) : f[n] = Step(f[n - 1], q[n])
<1>1. CASE st.failed
  <2> DEFINE f == [n \in 0..Len(q) |-> st]
  <2>1. Len(q) \in Nat
    BY ListIs
  <2>2. /\ 0 \in 0..Len(q) /\ Len(q) \in 0..Len(q)
        /\ \A n \in 1..Len(q) : n \in 0..Len(q) /\ n - 1 \in 0..Len(q)
    BY <2>1
  <2>3. Steps(st, q) = st /\ \A step : Step(st, step) = st
    BY <1>1 DEF Steps, Step
  <2>4. f[0] = st /\ f[Len(q)] = Steps(st, q) /\ \A n \in 1..Len(q) : f[n] = Step(f[n - 1], q[n])
    BY <2>2, <2>3
  <2> QED BY <2>4
<1>2. CASE ~ st.failed
  <2>1. Steps(st, q) = Folded(st, q)
    BY <1>2 DEF Steps, Folded
  <2> QED BY <2>1, FoldSteps
<1> QED BY <1>1, <1>2

-------------------------------------------------------------------------------
(* CONFIG.SYS: the files it names are put behind what is there.                *)

Fine(st) ==
  /\ st = [mods |-> st.mods, next |-> st.next, mem |-> st.mem, failed |-> st.failed]
  /\ Whole(st.mods, st.mem) /\ Below(st.mods, st.next) /\ Spared(st.mods)

LEMMA LoadedFine ==
  ASSUME NEW st, Fine(st), NEW name
  PROVE  Fine(Loaded(st, name))
<1> DEFINE mod == [words |-> <<name>>, start |-> st.next, pages |-> 1]
           list == Append(st.mods, mod)
           memory == Written(st.mem, st.next, 1, name)
           new == [mods |-> list, next |-> st.next + 1, mem |-> memory, failed |-> st.failed]
<1>1. Loaded(st, name) = new
  BY DEF Loaded
<1>2. /\ Listed(st.mods) /\ st.next \in Nat /\ Len(st.mods) \in Nat /\ DOMAIN st.mods = 1..Len(st.mods)
      /\ \A i \in DOMAIN st.mods : IsModule(st.mods[i]) /\ Holds(st.mods[i], st.mem) /\ ModEnd(st.mods[i]) <= st.next
  BY ListIs DEF Fine, Whole, Below
<1>3. IsModule(mod) /\ ModEnd(mod) = st.next + 1 /\ Last(mod.words) = name /\ mod.start = st.next /\ mod.pages = 1
  BY <1>2 DEF IsModule, ModEnd, Last
<1>4. Holds(mod, memory)
  BY <1>3, WriteHolds
<1> HIDE DEF mod
<1>5. /\ Listed(list) /\ list # <<>> /\ Last(list) = mod
      /\ \A i \in DOMAIN list : (i \in DOMAIN st.mods /\ list[i] = st.mods[i]) \/ list[i] = mod
  BY <1>2, AppendIs
<1> HIDE DEF list
<1>6. \A i \in DOMAIN st.mods : Holds(st.mods[i], memory)
  BY <1>2, WriteKeeps
<1> HIDE DEF memory
<1>7. \A i \in DOMAIN list : IsModule(list[i]) /\ Holds(list[i], memory)
  BY <1>2, <1>3, <1>4, <1>5, <1>6
<1>8. \A i \in DOMAIN list : ModEnd(list[i]) <= st.next + 1
  <2>1. ASSUME NEW i \in DOMAIN st.mods PROVE ModEnd(st.mods[i]) <= st.next + 1
    <3>1. IsModule(st.mods[i]) /\ ModEnd(st.mods[i]) <= st.next
      BY <1>2
    <3> QED BY <1>2, <3>1, EndIs
  <2> QED BY <1>2, <1>3, <1>5, <2>1
<1>9. Whole(list, memory) /\ Below(list, st.next + 1) /\ Spared(list)
  BY <1>2, <1>3, <1>5, <1>7, <1>8 DEF Whole, Below, Spared
<1> QED BY <1>1, <1>9 DEF Fine

LEMMA StepFine ==
  ASSUME NEW st, Fine(st), NEW step
  PROVE  Fine(Step(st, step))
<1>1. Step(st, step) \in {st, preload_module(st, step.asks[Lowest(Good(st, step))]), [st EXCEPT !.failed = step.needed]}
  BY DEF Step
<1>2. \A ask : preload_module(st, ask) = st \/ preload_module(st, ask) = Loaded(st, ask.places[Lowest(Found(ask))])
  BY DEF preload_module
<1>3. Fine([st EXCEPT !.failed = step.needed])
  <2>1. [st EXCEPT !.failed = step.needed] = [mods |-> st.mods, next |-> st.next, mem |-> st.mem, failed |-> step.needed]
    BY DEF Fine
  <2> QED BY <2>1 DEF Fine
<1> QED BY <1>1, <1>2, <1>3, LoadedFine

\* The steps one after another, none of which disturbs memory.
LEMMA FineSteps ==
  ASSUME NEW st, Fine(st), NEW q, Listed(q)
  PROVE  \E f : /\ f[0] = st /\ f[Len(q)] = Steps(st, q)
               /\ \A n \in 1..Len(q) : f[n] = Step(f[n - 1], q[n]) /\ Fine(f[n - 1])
               /\ Fine(f[Len(q)])
<1>1. PICK f : /\ f[0] = st /\ f[Len(q)] = Steps(st, q)
               /\ \A n \in 1..Len(q) : f[n] = Step(f[n - 1], q[n])
  BY LoadSteps
<1> DEFINE T == {n \in Nat : Fine(f[n])}
<1>2. Len(q) \in Nat /\ T \in SUBSET Nat /\ 0 \in T
  BY <1>1, ListIs
<1>3. ASSUME NEW n \in T, n < Len(q)
      PROVE  n + 1 \in T
  <2>1. n + 1 \in 1..Len(q) /\ (n + 1) - 1 = n /\ Fine(f[n])
    BY <1>2, <1>3
  <2>2. f[n + 1] = Step(f[n], q[n + 1])
    BY <1>1, <2>1
  <2> QED BY <2>1, <2>2, StepFine
<1>4. \A n \in 0..Len(q) : n \in T
  <2> HIDE DEF T
  <2> QED BY <1>2, <1>3, Induction
<1>5. Len(q) \in 0..Len(q) /\ \A n \in 1..Len(q) : n - 1 \in 0..Len(q)
  BY <1>2
<1> QED BY <1>1, <1>4, <1>5

LEMMA FoldFine ==
  ASSUME NEW st, Fine(st), NEW q, Listed(q)
  PROVE  Fine(Steps(st, q))
<1>1. PICK f : f[Len(q)] = Steps(st, q) /\ Fine(f[Len(q)])
  BY FineSteps
<1> QED BY <1>1

LEMMA ConcatIs == ASSUME NEW a, Listed(a), NEW b, Listed(b) PROVE Listed(a \o b)
<1>1. a \in Seq(ToSet(a) \cup ToSet(b)) /\ b \in Seq(ToSet(a) \cup ToSet(b))
  BY DEF Listed
<1> DEFINE r == a \o b
<1>2. r \in Seq(ToSet(a) \cup ToSet(b))
  BY <1>1
<1> HIDE DEF r
<1>3. Len(r) \in Nat /\ r = [i \in 1..Len(r) |-> r[i]]
  BY <1>2
<1>4. Listed(r)
  BY <1>3, ListOfFunction
<1> QED BY <1>4 DEF r

LEMMA HasHighest ==
  ASSUME NEW n \in Nat, NEW S \in SUBSET (1..n), S # {}
  PROVE  Max(S) \in S /\ \A j \in S : j <= Max(S)
<1> DEFINE T == {m \in Nat : m <= n /\ n - m \in S}
<1>1. T \in SUBSET Nat /\ \A j \in S : n - j \in T /\ j \in Nat
  OBVIOUS
<1>2. T # {}
  BY <1>1
<1>3. PICK m \in T : \A k \in T : m <= k
  <2> HIDE DEF T
  <2> QED BY <1>1, <1>2, Least
<1>4. n - m \in S /\ \A j \in S : n - m >= j
  BY <1>1, <1>3
<1>5. Max(S) \in S /\ \A j \in S : Max(S) >= j
  <2> HIDE DEF T
  <2> QED BY <1>4, Zenon DEF Max
<1> QED BY <1>1, <1>5

LEMMA NamesListed == Listed(Needed) /\ Listed(Wanted) /\ Listed(Basedevs) /\ Listed(Libraries)
<1>1. Listed(Needed)
  BY DEF Needed, Listed, ToSet
<1>2. Listed(Basedevs)
  BY DEF Basedevs, Listed, ToSet
<1>3. Listed(Wanted)
  BY DEF Wanted, Listed, ToSet
<1>4. Listed(Libraries)
  BY DEF Libraries, Listed, ToSet
<1> QED BY <1>1, <1>2, <1>3, <1>4

\* For each name, and for each line of CONFIG.SYS, there is a step.
LEMMA FilesListed == Listed(LoadNeeded) /\ Listed(LoadWanted) /\ Listed(LoadBasedevs) /\ Listed(LoadLibraries)
<1>1. /\ DOMAIN Needed = 1..Len(Needed) /\ Len(Needed) \in Nat /\ DOMAIN Wanted = 1..Len(Wanted) /\ Len(Wanted) \in Nat
      /\ DOMAIN Basedevs = 1..Len(Basedevs) /\ Len(Basedevs) \in Nat
      /\ DOMAIN Libraries = 1..Len(Libraries) /\ Len(Libraries) \in Nat
  BY NamesListed, ListIs
<1>2. LoadNeeded = [i \in 1..Len(Needed) |-> LoadNeeded[i]] /\ LoadWanted = [i \in 1..Len(Wanted) |-> LoadWanted[i]]
  BY <1>1 DEF LoadNeeded, LoadWanted
<1>3. LoadBasedevs = [i \in 1..Len(Basedevs) |-> LoadBasedevs[i]] /\ LoadLibraries = [i \in 1..Len(Libraries) |-> LoadLibraries[i]]
  BY <1>1 DEF LoadBasedevs, LoadLibraries
<1> QED BY <1>1, <1>2, <1>3, ListOfFunction

LEMMA OneListed == Listed(<<>>) /\ \A x : Listed(<<x>>)
BY DEF Listed, ToSet

LEMMA LinesListed ==
  ASSUME Listed(config)
  PROVE  /\ \A type : Listed(load_type(type)) /\ Listed(load_type_bootdrv(type)) /\ Listed(AskValue(type))
         /\ Listed(BeforeTheIfs) /\ Listed(Video) /\ Listed(ProtShell)
<1>1. DOMAIN config = 1..Len(config) /\ Len(config) \in Nat
  BY ListIs
<1>2. \A type : Listed(load_type(type)) /\ Listed(load_type_bootdrv(type))
  <2> TAKE type
  <2>1. load_type(type) = [i \in 1..Len(config) |-> load_type(type)[i]]
    BY <1>1 DEF load_type, ForLines
  <2>2. load_type_bootdrv(type) = [i \in 1..Len(config) |-> load_type_bootdrv(type)[i]]
    BY <1>1 DEF load_type_bootdrv, ForLines
  <2> QED BY <1>1, <2>1, <2>2, ListOfFunction
<1>3. Listed(BeforeTheIfs) /\ Listed(Video)
  <2>1. BeforeTheIfs = [i \in 1..Len(config) |-> BeforeTheIfs[i]]
    BY <1>1 DEF BeforeTheIfs, ForLines
  <2>2. Video = [i \in 1..Len(config) |-> Video[i]]
    BY <1>1 DEF Video, ForLines
  <2> QED BY <1>1, <2>1, <2>2, ListOfFunction
<1>4. \A type : Listed(AskValue(type))
  BY OneListed DEF AskValue
<1>5. Listed(ProtShell)
  BY <1>4, OneListed DEF ProtShell
<1> QED BY <1>2, <1>3, <1>4, <1>5

LEMMA PartsListed ==
  ASSUME Listed(config)
  PROVE  Listed(BootFiles) /\ Listed(SystemFiles) /\ Listed(Drivers) /\ Listed(Video)
<1>1. Listed(BootFiles)
  BY LinesListed, FilesListed, ConcatIs DEF BootFiles
<1>2. Listed(SystemFiles)
  BY LinesListed, FilesListed, ConcatIs DEF SystemFiles
<1>3. Listed(Drivers)
  BY LinesListed, OneListed, ConcatIs DEF Drivers
<1> QED BY <1>1, <1>2, <1>3, LinesListed

LEMMA PathsAreListed == boot \in Boots => Len(boot.libpath) \in Nat /\ Len(boot.dpath) \in Nat /\ Len(boot.codepages) \in Nat
BY BootsAssumption

LEMMA RestListed == ASSUME boot \in Boots PROVE \A st : Listed(Rest(st))
<1> TAKE st
<1> DEFINE codepage == Must(Ask(<<"language/codepage", "ucstbl.lst">>, FALSE))
           messages == Along(boot.dpath, "oso001.msg", FALSE)
<1>1. Listed(LoadCodepages)
  <2>1. LoadCodepages = [i \in 1..Len(boot.codepages) |-> LoadCodepages[i]]
    BY DEF LoadCodepages
  <2> QED BY <2>1, PathsAreListed, ListOfFunction
<1>2. Rest(st) = (<<codepage>> \o LoadCodepages) \o <<messages>> \/ Rest(st) = <<>> \o <<messages>>
  BY DEF Rest
<1> HIDE DEF codepage, messages
<1>3. Listed(<<codepage>> \o LoadCodepages)
  BY <1>1, OneListed, ConcatIs
<1> QED BY <1>2, <1>3, OneListed, ConcatIs

LEMMA PlanFine == ASSUME Fine(NoStep), Listed(config) PROVE Fine(Plan)
BY PartsListed, FoldFine DEF Plan

LEMMA LoadModulesFine == ASSUME Fine(NoStep), Listed(config), boot \in Boots PROVE Fine(load_modules)
BY PlanFine, RestListed, FoldFine DEF load_modules, AfterPlan

-------------------------------------------------------------------------------
(* The steps of the boot.                                                      *)

\* As the modules were loaded, one behind another.
LEMMA LoadedModules ==
  ASSUME boot \in Boots
  PROVE  /\ Whole(boot.modules, MemoryOf(boot.modules)) /\ Spared(boot.modules)
         /\ Below(boot.modules, ModEnd(Last(boot.modules))) /\ Listed(boot.config)
<1> DEFINE list == boot.modules
           end == ModEnd(Last(list))
           memory == MemoryOf(list)
<1>1. /\ Listed(list) /\ list # <<>> /\ Listed(boot.config)
      /\ \A i \in DOMAIN list : IsModule(list[i]) /\ \A j \in 1..(i - 1) : ModEnd(list[j]) <= list[i].start
  BY BootsAssumption DEF IsModule, Listed
<1>2. DOMAIN list = 1..Len(list) /\ Len(list) \in DOMAIN list /\ Last(list) = list[Len(list)] /\ Len(list) \in Nat
  BY <1>1, ListIs
<1>3. memory = [p \in UNION {Pages(mod.start, mod.pages) : mod \in ToSet(list)} |->
                  <<Last(ModuleAt(list, p).words), p - ModuleAt(list, p).start>>]
  BY DEF MemoryOf
<1> HIDE DEF list, memory
<1>4. ASSUME NEW i \in DOMAIN list, NEW j \in DOMAIN list, i < j
      PROVE  ModEnd(list[i]) <= list[j].start
  <2>1. i \in 1..(j - 1)
    BY <1>2, <1>4
  <2> QED BY <1>1, <2>1
<1>5. ASSUME NEW i \in DOMAIN list
      PROVE  ModEnd(list[i]) \in Nat /\ list[i].start \in Nat /\ list[i].start <= ModEnd(list[i]) /\ ModEnd(list[i]) <= end
  <2>1. \A k \in DOMAIN list : ModEnd(list[k]) \in Nat /\ list[k].start \in Nat /\ list[k].start <= ModEnd(list[k])
    BY <1>1 DEF IsModule, ModEnd
  <2>2. CASE i = Len(list)
    BY <1>2, <2>1, <2>2
  <2>3. CASE i # Len(list)
    <3>1. i < Len(list)
      BY <1>2, <2>3
    <3>2. ModEnd(list[i]) <= list[Len(list)].start
      BY <1>2, <1>4, <3>1
    <3> QED BY <1>2, <2>1, <3>2
  <2> QED BY <2>2, <2>3
<1>6. ASSUME NEW i \in DOMAIN list
      PROVE  Holds(list[i], memory)
  <2> SUFFICES ASSUME NEW p \in Pages(list[i].start, list[i].pages)
               PROVE  p \in DOMAIN memory /\ memory[p] = <<Last(list[i].words), p - list[i].start>>
    BY DEF Holds
  <2>1. list[i] \in ToSet(list)
    BY DEF ToSet
  <2>2. \A j \in DOMAIN list : p \in Pages(list[j].start, list[j].pages) => j = i
    <3> TAKE j \in DOMAIN list
    <3>1. i < j => ModEnd(list[i]) <= list[j].start
      BY <1>4
    <3>2. j < i => ModEnd(list[j]) <= list[i].start
      BY <1>4
    <3>3. IsModule(list[i]) /\ IsModule(list[j]) /\ i \in Nat /\ j \in Nat
      BY <1>1, <1>2
    <3> QED BY <3>1, <3>2, <3>3 DEF IsModule, ModEnd, Pages
  <2>3. ModuleAt(list, p) = list[i]
    BY <2>1, <2>2 DEF ModuleAt, ToSet
  <2> QED BY <1>3, <2>1, <2>3
<1>7. Whole(list, memory)
  BY <1>1, <1>6 DEF Whole
<1>8. Below(list, end) /\ Spared(list)
  BY <1>2, <1>5 DEF Below, Spared
<1> QED BY <1>1, <1>7, <1>8 DEF list, memory

LEMMA BootInitHolds == Init => BootInv
BY LoadedModules DEF Init, BootInv

\* A step that leaves the list and memory alone.
LEMMA UntouchedKeeps ==
  ASSUME BootInv, UNCHANGED <<boot, mods, mem>>, Listed(config'),
         at' \in AsLoaded \cup {"preload", "reloc"} =>
           /\ at \in AsLoaded \cup {"preload", "reloc"} /\ cur_addr' = cur_addr
           /\ at' \in AsLoaded => at \in AsLoaded
  PROVE  BootInv'
<1>1. Whole(mods, mem)' /\ (Spared(mods) => Spared(mods)')
  BY DEF BootInv, Whole, Spared
<1> QED BY <1>1 DEF BootInv, Below

LEMMA PatchListed ==
  ASSUME Listed(config), config' = [i \in DOMAIN config |-> PatchedLine(config[i])]
  PROVE  Listed(config')
<1>1. DOMAIN config = 1..Len(config) /\ Len(config) \in Nat
  BY ListIs
<1>2. config' = [i \in 1..Len(config) |-> config'[i]]
  BY <1>1
<1> QED BY <1>1, <1>2, ListOfFunction

LEMMA PreloadKeeps == ASSUME BootInv, Preload PROVE BootInv'
<1>1. Fine(NoStep) /\ Listed(config) /\ boot \in Boots
  BY DEF Fine, NoStep, BootInv, Preload
<1>2. Fine(load_modules)
  BY <1>1, LoadModulesFine
<1>3. mods' = load_modules.mods /\ mem' = load_modules.mem /\ cur_addr' = load_modules.next /\ UNCHANGED <<boot, config>>
      /\ at' \in {"halted", "reloc"}
  BY DEF Preload, LoadModules
<1> QED BY <1>2, <1>3 DEF Fine, BootInv, AsLoaded

LEMMA RelocKeeps == ASSUME BootInv, mbi_reloc PROVE BootInv'
<1>1. /\ mem' = Written(mem, ModEnd(Last(mods)), MbiPages, Mbi) /\ UNCHANGED <<boot, mods, config>> /\ at' = "load"
      /\ Spared(mods)
  BY DEF mbi_reloc, mbi_place, BootInv
<1>2. Whole(mods, mem) /\ ModEnd(Last(mods)) \in Nat
  <2>1. Whole(mods, mem) /\ Last(mods) = mods[Len(mods)] /\ Len(mods) \in DOMAIN mods
    BY ListIs DEF BootInv, Whole
  <2> QED BY <2>1, EndIs DEF Whole
<1>3. ASSUME NEW i \in DOMAIN mods PROVE Holds(mods[i], mem')
  <2>1. ModEnd(mods[i]) <= ModEnd(Last(mods)) \/ ModEnd(Last(mods)) + MbiPages <= mods[i].start
    <3>1. IsModule(mods[i])
      BY <1>2 DEF Whole
    <3> QED BY <1>1, <1>2, <3>1, PagesAssumption DEF Spared, IsModule
  <2> QED BY <1>1, <1>2, <2>1, WriteKeeps, PagesAssumption DEF Whole
<1>4. Whole(mods', mem')
  BY <1>1, <1>2, <1>3 DEF Whole
<1> QED BY <1>1, <1>4 DEF BootInv, AsLoaded

\* The editor's tables and its text are put behind all modules.
LEMMA EditorKeeps == ASSUME BootInv, editor PROVE BootInv'
<1> DEFINE end == cur_addr
           place == EditedPlace(end)
           tables == Written(mem, end, TablePages, Tables)
<1>1. /\ boot \in Boots /\ mods = boot.modules /\ end = ModEnd(Last(mods)) /\ Whole(mods, mem) /\ Below(mods, end)
      /\ at' \in {"preload", "reloc"} /\ UNCHANGED <<boot, config>>
  BY DEF editor, BootInv, AsLoaded
<1>2. /\ Listed(mods) /\ mods # <<>> /\ DOMAIN mods = 1..Len(mods) /\ Len(mods) \in DOMAIN mods /\ Len(mods) \in Nat
      /\ Last(mods) = mods[Len(mods)]
  BY <1>1, ListIs DEF Whole
<1>3. end \in Nat /\ place \in Nat /\ place = end + TablePages /\ end + MbiPages <= place
  BY <1>1, PagesAssumption DEF Below, EditedPlace
<1>4. \A i \in DOMAIN mods : IsModule(mods[i]) /\ Holds(mods[i], mem) /\ ModEnd(mods[i]) \in Nat /\ ModEnd(mods[i]) <= end
  BY <1>1, EndIs DEF Whole, Below
<1>5. \A i \in DOMAIN mods : Holds(mods[i], tables)
  BY <1>3, <1>4, WriteKeeps, PagesAssumption
<1>6. CASE UNCHANGED mods /\ cur_addr' = end + TablePages /\ mem' = tables
  <2> HIDE DEF tables
  <2>1. Whole(mods, tables)
    BY <1>1, <1>5 DEF Whole
  <2>2. Below(mods, end + TablePages)
    BY <1>3, <1>4, PagesAssumption DEF Below
  <2>3. Spared(mods)
    BY <1>1, <1>4 DEF Spared
  <2> QED BY <1>1, <1>6, <2>1, <2>2, <2>3 DEF BootInv, AsLoaded, Spared
<1>7. CASE mods' = ToTheCopy(place) /\ cur_addr' = place + 1 /\ mem' = Written(tables, place, 1, ConfigSys)
  <2> HIDE DEF tables, place
  <2> DEFINE list == ToTheCopy(place)
             memory == Written(tables, place, 1, ConfigSys)
             Moved(i) == [mods[i] EXCEPT !.start = place]
  <2>1. /\ list = [i \in 1..Len(mods) |-> list[i]]
        /\ \A i \in DOMAIN mods : list[i] = mods[i] \/ (list[i] = Moved(i) /\ ConfigSys \in ToSet(mods[i].words))
    BY <1>2 DEF ToTheCopy
  <2> HIDE DEF list
  <2>2. Listed(list) /\ Len(list) = Len(mods) /\ DOMAIN list = DOMAIN mods /\ list # <<>>
    BY <1>2, <2>1, ListOfFunction
  <2>3. Last(list) = list[Len(mods)]
    BY <2>2, ListIs
  <2>4. ASSUME NEW i \in DOMAIN mods, list[i] = Moved(i), ConfigSys \in ToSet(mods[i].words)
        PROVE  /\ IsModule(list[i]) /\ Holds(list[i], memory) /\ list[i].start = place /\ ModEnd(list[i]) = place + 1
    <3>1. Last(mods[i].words) = ConfigSys /\ mods[i].pages = 1
      BY <1>1, <2>4, BootsAssumption
    <3>2. mods[i] = [words |-> mods[i].words, pages |-> mods[i].pages, start |-> mods[i].start]
      BY <1>4 DEF IsModule
    <3>3. list[i] = [words |-> mods[i].words, pages |-> 1, start |-> place]
      BY <2>4, <3>1, <3>2
    <3>4. list[i].words = mods[i].words /\ list[i].pages = 1 /\ list[i].start = place
      BY <3>3
    <3>5. IsModule(list[i]) /\ ModEnd(list[i]) = place + 1
      BY <1>3, <3>3, <3>4 DEF IsModule, ModEnd
    <3>6. Holds(list[i], memory)
      BY <3>1, <3>4, WriteHolds
    <3> QED BY <3>4, <3>5, <3>6
  <2>5. ASSUME NEW i \in DOMAIN mods, list[i] = mods[i]
        PROVE  IsModule(list[i]) /\ Holds(list[i], memory) /\ ModEnd(list[i]) \in Nat /\ ModEnd(list[i]) <= end
    <3>1. ModEnd(mods[i]) <= place
      BY <1>3, <1>4, PagesAssumption
    <3> QED BY <1>3, <1>4, <1>5, <2>5, <3>1, WriteKeeps
  <2> HIDE DEF memory, Moved
  <2>6. Whole(list, memory)
    BY <2>1, <2>2, <2>4, <2>5 DEF Whole
  <2>7. \A i \in DOMAIN mods : ModEnd(list[i]) <= place + 1
    <3> TAKE i \in DOMAIN mods
    <3>1. CASE list[i] = mods[i]
      BY <1>3, <2>5, <3>1, PagesAssumption
    <3>2. CASE ModEnd(list[i]) = place + 1
      BY <1>3, <3>2
    <3> QED BY <2>1, <2>4, <3>1, <3>2
  <2>8. Spared(list)
    <3>1. CASE list[Len(mods)] = mods[Len(mods)]
      <4>1. \A i \in DOMAIN mods : ModEnd(list[i]) <= end \/ list[i].start = place
        BY <2>1, <2>4, <2>5
      <4> QED BY <1>1, <1>2, <1>3, <2>2, <2>3, <3>1, <4>1 DEF Spared
    <3>2. CASE ModEnd(list[Len(mods)]) = place + 1
      BY <2>2, <2>3, <2>7, <3>2 DEF Spared
    <3> QED BY <1>2, <2>1, <2>4, <3>1, <3>2
  <2>9. Below(list, place + 1)
    BY <1>3, <2>2, <2>7 DEF Below
  <2> QED BY <1>1, <1>7, <2>6, <2>8, <2>9 DEF BootInv, AsLoaded, list, memory, Spared
<1> QED BY <1>6, <1>7 DEF editor

LEMMA BootStepHolds == ASSUME BootInv, BootNext PROVE BootInv'
<1>1. CASE bootos2_cmain
  BY <1>1, UntouchedKeeps DEF bootos2_cmain, BootInv, AsLoaded
<1>2. CASE AssignLetters
  BY <1>2, UntouchedKeeps DEF AssignLetters, BootInv, AsLoaded
<1>3. CASE PatchConfig
  <2>1. UNCHANGED <<boot, mods, mem>> /\ at = "patch"
    BY <1>3 DEF PatchConfig
  <2>2. CASE at' = "load" /\ UNCHANGED <<config, cur_addr>>
    BY <2>1, <2>2, UntouchedKeeps DEF BootInv, AsLoaded
  <2>3. CASE /\ at' = "editor" /\ config' = [i \in DOMAIN config |-> PatchedLine(config[i])]
             /\ cur_addr' = ModEnd(Last(mods))
    <3>1. cur_addr = ModEnd(Last(mods)) /\ Listed(config)
      BY <2>1 DEF BootInv, AsLoaded
    <3>2. Listed(config')
      BY <2>3, <3>1, PatchListed
    <3> QED BY <2>1, <2>3, <3>1, <3>2, UntouchedKeeps DEF AsLoaded
  <2> QED BY <1>3, <2>2, <2>3 DEF PatchConfig
<1>4. CASE editor
  BY <1>4, EditorKeeps
<1>5. CASE Preload
  BY <1>5, PreloadKeeps
<1>6. CASE mbi_reloc
  BY <1>6, RelocKeeps
<1>7. CASE LoadOs2ldr
  <2>1. UNCHANGED <<boot, mods, mem, config>> /\ at' \in {"halted", "os2ldr"}
    BY <1>7 DEF LoadOs2ldr
  <2> QED BY <2>1, UntouchedKeeps DEF BootInv, AsLoaded
<1>8. CASE MuOpen \/ MuRead
  <2>1. UNCHANGED <<at, boot, mods, mem, config>> /\ at = "os2ldr"
    BY <1>8 DEF MuOpen, MuRead
  <2> QED BY <2>1, UntouchedKeeps DEF BootInv, AsLoaded
<1>9. CASE StartKernel
  <2>1. UNCHANGED <<boot, mods, mem, config>> /\ at' \in {"kernel", "os2boot"}
    BY <1>9 DEF StartKernel
  <2> QED BY <2>1, UntouchedKeeps DEF BootInv, AsLoaded
<1> QED BY <1>1, <1>2, <1>3, <1>4, <1>5, <1>6, <1>7, <1>8, <1>9 DEF BootNext

LEMMA BootStutterHolds == ASSUME BootInv, UNCHANGED bvars PROVE BootInv'
BY UntouchedKeeps DEF BootInv, AsLoaded, bvars

-------------------------------------------------------------------------------
(* What is preloaded: a step that must succeed leaves what it asks for in the  *)
(* list, or the whole fails; later steps take nothing out of it.               *)

\* The loading has failed, or something the step asks for is in the list.
Met(st, step) == st.failed \/ \E a \in DOMAIN step.asks : HasName(st.mods, step.asks[a].asked)
\* What is loaded for it is found again as what was asked for.
IsAsk(ask) == DOMAIN ask.places \in SUBSET Nat /\ \A i \in DOMAIN ask.places : Occurs(ask.asked, ask.places[i])
IsNeeded(step) == step.needed /\ DOMAIN step.asks \in SUBSET Nat /\ \A a \in DOMAIN step.asks : IsAsk(step.asks[a])

\* A list has a step.
Asked(q, step) == \E k \in 1..Len(q) : q[k] = step

LEMMA LoadedThere ==
  ASSUME NEW st, Fine(st), NEW name, NEW ask
  PROVE  /\ HasName(st.mods, ask.asked) => HasName(Loaded(st, name).mods, ask.asked)
         /\ Occurs(ask.asked, name) => HasName(Loaded(st, name).mods, ask.asked)
<1> DEFINE mod == [words |-> <<name>>, start |-> st.next, pages |-> 1]
           list == Append(st.mods, mod)
<1>1. Listed(st.mods) /\ Loaded(st, name).mods = list
  BY DEF Fine, Whole, Loaded
<1>2. mod.words = <<name>> /\ name \in ToSet(mod.words)
  BY DEF ToSet
<1> HIDE DEF mod
<1>3. /\ DOMAIN st.mods = 1..Len(st.mods) /\ Len(st.mods) \in Nat
      /\ DOMAIN list = 1..(Len(st.mods) + 1)
      /\ \A i \in DOMAIN list : list[i] = IF i = Len(st.mods) + 1 THEN mod ELSE st.mods[i]
  BY <1>1, ListIs, AppendIs
<1> HIDE DEF list
<1>4. ASSUME HasName(st.mods, ask.asked) PROVE \E i \in DOMAIN list : \E w \in ToSet(list[i].words) : Occurs(ask.asked, w)
  <2>1. PICK i \in DOMAIN st.mods : \E w \in ToSet(st.mods[i].words) : Occurs(ask.asked, w)
    BY <1>4 DEF HasName
  <2>2. i \in DOMAIN list /\ list[i] = st.mods[i]
    BY <1>3
  <2> QED BY <2>1, <2>2
<1>5. ASSUME Occurs(ask.asked, name)
      PROVE  \E i \in DOMAIN list : \E w \in ToSet(list[i].words) : Occurs(ask.asked, w)
  <2>1. Len(st.mods) + 1 \in DOMAIN list /\ list[Len(st.mods) + 1] = mod
    BY <1>3
  <2> QED BY <1>2, <1>5, <2>1
<1> QED BY <1>1, <1>4, <1>5 DEF HasName

LEMMA StepMet ==
  ASSUME NEW st, Fine(st), NEW step, NEW other, Met(st, other)
  PROVE  Met(Step(st, step), other)
<1>1. CASE st.failed
  BY <1>1 DEF Step, Met
<1>2. CASE ~ st.failed
  <2>1. PICK a \in DOMAIN other.asks : HasName(st.mods, other.asks[a].asked)
    BY <1>2 DEF Met
  <2> DEFINE ask == other.asks[a]
  <2>2. \A b : preload_module(st, b) = st \/ preload_module(st, b) = Loaded(st, b.places[Lowest(Found(b))])
    BY DEF preload_module
  <2>3. \A b : HasName(preload_module(st, b).mods, ask.asked)
    BY <2>1, <2>2, LoadedThere
  <2>4. HasName([st EXCEPT !.failed = step.needed].mods, ask.asked)
    <3>1. [st EXCEPT !.failed = step.needed].mods = st.mods
      BY DEF Fine
    <3> QED BY <2>1, <3>1
  <2>5. Step(st, step) \in {preload_module(st, step.asks[Lowest(Good(st, step))]), [st EXCEPT !.failed = step.needed]}
    BY <1>2 DEF Step
  <2> QED BY <2>1, <2>3, <2>4, <2>5 DEF Met
<1> QED BY <1>1, <1>2

LEMMA StepMust ==
  ASSUME NEW st, Fine(st), NEW step, IsNeeded(step)
  PROVE  Met(Step(st, step), step)
<1>1. CASE st.failed
  BY <1>1 DEF Step, Met
<1>2. CASE ~ st.failed /\ Good(st, step) # {}
  <2> DEFINE a == Lowest(Good(st, step))
             ask == step.asks[a]
  <2>1. Good(st, step) \in SUBSET Nat /\ Good(st, step) \subseteq DOMAIN step.asks
    BY DEF Good, IsNeeded
  <2>2. a \in Good(st, step)
    BY <1>2, <2>1, HasLowest
  <2>3. a \in DOMAIN step.asks /\ Succeeds(st, ask) /\ IsAsk(ask)
    BY <2>1, <2>2 DEF Good, IsNeeded
  <2>4. Step(st, step) = preload_module(st, ask)
    BY <1>2 DEF Step
  <2> HIDE DEF a
  <2>5. CASE IsThere(st, ask)
    BY <2>3, <2>4, <2>5 DEF preload_module, Met, IsThere
  <2>6. CASE ~ IsThere(st, ask)
    <3>1. Found(ask) \in SUBSET Nat /\ Found(ask) # {} /\ Found(ask) \subseteq DOMAIN ask.places
      BY <2>3, <2>6 DEF Succeeds, Found, IsAsk
    <3>2. Lowest(Found(ask)) \in DOMAIN ask.places
      BY <3>1, HasLowest
    <3>3. Occurs(ask.asked, ask.places[Lowest(Found(ask))])
      BY <2>3, <3>2 DEF IsAsk
    <3>4. Step(st, step) = Loaded(st, ask.places[Lowest(Found(ask))])
      BY <2>4, <2>6 DEF preload_module
    <3>5. HasName(Step(st, step).mods, ask.asked)
      BY <3>3, <3>4, LoadedThere
    <3> QED BY <2>3, <3>5 DEF Met
  <2> QED BY <2>5, <2>6
<1>3. CASE ~ st.failed /\ Good(st, step) = {}
  <2>1. Step(st, step) = [st EXCEPT !.failed = step.needed]
    BY <1>3 DEF Step
  <2>2. [st EXCEPT !.failed = step.needed].failed
    BY DEF Fine, IsNeeded
  <2> QED BY <2>1, <2>2 DEF Met
<1> QED BY <1>1, <1>2, <1>3

\* It is in the list already, or asked for at place k.
Comes(st, q, k, step) == IF k = 0 THEN Met(st, step) ELSE q[k] = step /\ IsNeeded(step)

LEMMA FoldMet ==
  ASSUME NEW st, Fine(st), NEW q, Listed(q), NEW k, k \in 0..Len(q), NEW step, Comes(st, q, k, step)
  PROVE  Met(Steps(st, q), step)
<1>1. PICK f : /\ f[0] = st /\ f[Len(q)] = Steps(st, q)
               /\ \A n \in 1..Len(q) : f[n] = Step(f[n - 1], q[n]) /\ Fine(f[n - 1])
  BY FineSteps
<1> DEFINE T == {n \in Nat : n >= k => Met(f[n], step)}
<1>2. Len(q) \in Nat /\ k \in Nat /\ k <= Len(q) /\ T \in SUBSET Nat /\ 0 \in T
  BY <1>1, ListIs DEF Comes
<1>3. ASSUME NEW n \in T, n < Len(q)
      PROVE  n + 1 \in T
  <2>1. n + 1 \in 1..Len(q) /\ (n + 1) - 1 = n /\ (n >= k => Met(f[n], step)) /\ n \in Nat
    BY <1>2, <1>3
  <2>2. f[n + 1] = Step(f[n], q[n + 1]) /\ Fine(f[n])
    BY <1>1, <2>1
  <2>3. n >= k => Met(f[n + 1], step)
    BY <2>1, <2>2, StepMet
  <2>4. n + 1 = k => Met(f[n + 1], step)
    <3> SUFFICES ASSUME n + 1 = k PROVE Met(f[n + 1], step)
      OBVIOUS
    <3>1. q[n + 1] = step /\ IsNeeded(step)
      BY <2>1 DEF Comes
    <3> QED BY <2>1, <2>2, <3>1, StepMust
  <2> QED BY <1>2, <2>1, <2>3, <2>4
<1>4. Len(q) \in T
  <2> HIDE DEF T
  <2>1. \A n \in 0..Len(q) : n \in T
    BY <1>2, <1>3, Induction
  <2> QED BY <1>2, <2>1
<1> QED BY <1>1, <1>2, <1>4

LEMMA FoldMeets ==
  ASSUME NEW st, Fine(st), NEW q, Listed(q), NEW step, Met(st, step) \/ (IsNeeded(step) /\ Asked(q, step))
  PROVE  Met(Steps(st, q), step)
<1>1. CASE Met(st, step)
  <2>1. 0 \in 0..Len(q)
    BY ListIs
  <2> QED BY <1>1, <2>1, FoldMet DEF Comes
<1>2. CASE IsNeeded(step) /\ Asked(q, step)
  <2>1. PICK k \in 1..Len(q) : q[k] = step
    BY <1>2 DEF Asked
  <2>2. k \in 0..Len(q) /\ k # 0
    BY ListIs
  <2> QED BY <1>2, <2>1, <2>2, FoldMet DEF Comes
<1> QED BY <1>1, <1>2

\* What one of the parts of a list asks for is asked for.
LEMMA AskedIn ==
  ASSUME NEW a, Listed(a), NEW b, Listed(b), NEW step, Asked(a, step) \/ Asked(b, step)
  PROVE  Asked(a \o b, step)
<1>1. a \in Seq(ToSet(a) \cup ToSet(b)) /\ b \in Seq(ToSet(a) \cup ToSet(b))
  BY DEF Listed
<1> DEFINE r == a \o b
<1>2. /\ Len(r) = Len(a) + Len(b) /\ Len(a) \in Nat /\ Len(b) \in Nat
      /\ \A i \in 1..(Len(a) + Len(b)) : r[i] = IF i <= Len(a) THEN a[i] ELSE b[i - Len(a)]
  BY <1>1
<1> HIDE DEF r
<1>3. ASSUME NEW k \in 1..Len(a), a[k] = step PROVE Asked(r, step)
  <2>1. k \in 1..Len(r) /\ r[k] = a[k]
    BY <1>2
  <2> QED BY <1>3, <2>1 DEF Asked
<1>4. ASSUME NEW k \in 1..Len(b), b[k] = step PROVE Asked(r, step)
  <2>1. Len(a) + k \in 1..Len(r) /\ r[Len(a) + k] = b[k]
    BY <1>2
  <2> QED BY <1>4, <2>1 DEF Asked
<1>5. Asked(r, step)
  BY <1>3, <1>4 DEF Asked
<1> QED BY <1>5 DEF r

LEMMA AskedAt == ASSUME NEW q, Listed(q), NEW k \in DOMAIN q PROVE Asked(q, q[k])
BY ListIs DEF Asked

LEMMA AsksAre ==
  /\ \A name, args : IsAsk(Ask(name, args)) /\ Ask(name, args).asked = name /\ Ask(name, args).args = args
  /\ \A base, args : /\ IsAsk(AskInThree(base, args)) /\ AskInThree(base, args).asked = <<"", base>>
                    /\ AskInThree(base, args).args = args
<1>1. ASSUME NEW name, NEW args PROVE IsAsk(Ask(name, args)) /\ Ask(name, args).asked = name /\ Ask(name, args).args = args
  <2>1. /\ Ask(name, args).asked = name /\ Ask(name, args).args = args
        /\ DOMAIN Ask(name, args).places = {1} /\ Ask(name, args).places[1] = name
    BY DEF Ask
  <2>2. Occurs(name, name) /\ {1} \in SUBSET Nat
    BY DEF Occurs
  <2> QED BY <2>1, <2>2 DEF IsAsk
<1>2. ASSUME NEW base, NEW args
      PROVE  /\ IsAsk(AskInThree(base, args)) /\ AskInThree(base, args).asked = <<"", base>>
             /\ AskInThree(base, args).args = args
  <2> DEFINE places == << <<"os2/boot", base>>, <<"os2", base>>, <<"/", base>> >>
  <2>1. /\ AskInThree(base, args).asked = <<"", base>> /\ AskInThree(base, args).args = args
        /\ AskInThree(base, args).places = places
    BY DEF AskInThree
  <2>2. DOMAIN places = {1, 2, 3} /\ {1, 2, 3} \in SUBSET Nat
    OBVIOUS
  <2>3. ASSUME NEW i \in {1, 2, 3} PROVE places[i][2] = base
    OBVIOUS
  <2>4. <<"", base>>[1] = "" /\ <<"", base>>[2] = base
    OBVIOUS
  <2> HIDE DEF places
  <2>5. \A i \in DOMAIN places : Occurs(<<"", base>>, places[i])
    BY <2>2, <2>3, <2>4 DEF Occurs
  <2> QED BY <2>1, <2>2, <2>5 DEF IsAsk
<1> QED BY <1>1, <1>2

\* What must be there: one file, or a library on the path.
LEMMA AreNeeded ==
  /\ \A ask : IsAsk(ask) => IsNeeded(Must(ask)) /\ \A st : Met(st, Must(ask)) => st.failed \/ HasName(st.mods, ask.asked)
  /\ \A path, base : Len(path) \in Nat =>
       /\ IsNeeded(Along(path, base, TRUE))
       /\ \A st : Met(st, Along(path, base, TRUE)) => st.failed \/ \E k \in 1..Len(path) : HasName(st.mods, <<path[k], base>>)
<1>1. ASSUME NEW ask, IsAsk(ask)
      PROVE  IsNeeded(Must(ask)) /\ \A st : Met(st, Must(ask)) => st.failed \/ HasName(st.mods, ask.asked)
  <2>1. Must(ask).asks = <<ask>> /\ Must(ask).needed
    BY DEF Must
  <2>2. DOMAIN <<ask>> = {1} /\ <<ask>>[1] = ask /\ {1} \in SUBSET Nat
    OBVIOUS
  <2> QED BY <1>1, <2>1, <2>2 DEF IsNeeded, Met
<1>2. ASSUME NEW path, NEW base, Len(path) \in Nat
      PROVE  /\ IsNeeded(Along(path, base, TRUE))
             /\ \A st : Met(st, Along(path, base, TRUE)) => st.failed \/ \E k \in 1..Len(path) : HasName(st.mods, <<path[k], base>>)
  <2> DEFINE step == Along(path, base, TRUE)
  <2>1. step.asks = [i \in 1..Len(path) |-> Ask(<<path[i], base>>, FALSE)] /\ step.needed
    BY DEF Along
  <2> HIDE DEF step
  <2>2. DOMAIN step.asks = 1..Len(path) /\ 1..Len(path) \in SUBSET Nat
    BY <1>2, <2>1
  <2>3. \A i \in 1..Len(path) : IsAsk(step.asks[i]) /\ step.asks[i].asked = <<path[i], base>>
    <3>1. \A i \in 1..Len(path) : IsAsk(Ask(<<path[i], base>>, FALSE)) /\ Ask(<<path[i], base>>, FALSE).asked = <<path[i], base>>
      BY AsksAre
    <3>2. \A i \in 1..Len(path) : step.asks[i] = Ask(<<path[i], base>>, FALSE)
      BY <2>1
    <3> QED BY <3>1, <3>2
  <2>4. IsNeeded(step) /\ \A st : Met(st, step) => st.failed \/ \E k \in 1..Len(path) : HasName(st.mods, <<path[k], base>>)
    BY <2>1, <2>2, <2>3 DEF IsNeeded, Met
  <2> QED BY <2>4 DEF step
<1> QED BY <1>1, <1>2

\* load_modules() goes through four lists.
InPlan(step) == Asked(BootFiles, step) \/ Asked(SystemFiles, step) \/ Asked(Drivers, step) \/ Asked(Video, step)

LEMMA AskedOfFive ==
  ASSUME NEW a, NEW b, NEW c, NEW d, NEW e, Listed(a), Listed(b), Listed(c), Listed(d), Listed(e),
         NEW step, Asked(a, step) \/ Asked(b, step) \/ Asked(c, step) \/ Asked(d, step) \/ Asked(e, step)
  PROVE  Asked(a \o b \o c \o d \o e, step)
<1> DEFINE ab == a \o b
           abc == ab \o c
           abcd == abc \o d
<1>1. Listed(ab) /\ (Asked(a, step) \/ Asked(b, step) => Asked(ab, step))
  BY ConcatIs, AskedIn
<1> HIDE DEF ab
<1>2. Listed(abc) /\ (Asked(ab, step) \/ Asked(c, step) => Asked(abc, step))
  BY <1>1, ConcatIs, AskedIn
<1> HIDE DEF abc
<1>3. Listed(abcd) /\ (Asked(abc, step) \/ Asked(d, step) => Asked(abcd, step))
  BY <1>2, ConcatIs, AskedIn
<1> HIDE DEF abcd
<1>4. Asked(abcd \o e, step)
  BY <1>1, <1>2, <1>3, AskedIn
<1> QED BY <1>4 DEF abcd, abc, ab

LEMMA FilesAsked ==
  ASSUME Listed(config)
  PROVE  /\ \A n \in DOMAIN Needed : InPlan(Must(Ask(<<"", Needed[n]>>, FALSE)))
         /\ \A n \in DOMAIN Basedevs : InPlan(Must(AskInThree(Basedevs[n], FALSE)))
         /\ \A n \in DOMAIN Libraries : InPlan(Along(boot.libpath, Libraries[n], TRUE))
<1>1. ASSUME NEW n \in DOMAIN Needed PROVE InPlan(Must(Ask(<<"", Needed[n]>>, FALSE)))
  <2> DEFINE step == Must(Ask(<<"", Needed[n]>>, FALSE))
  <2>1. n \in DOMAIN LoadNeeded /\ LoadNeeded[n] = step
    BY DEF LoadNeeded
  <2> HIDE DEF step
  <2>2. Asked(LoadNeeded, step)
    BY <2>1, FilesListed, AskedAt
  <2>3. Asked(BootFiles, step)
    BY <2>2, FilesListed, LinesListed, AskedOfFive DEF BootFiles
  <2> QED BY <2>3 DEF InPlan, step
<1>2. ASSUME NEW n \in DOMAIN Basedevs PROVE InPlan(Must(AskInThree(Basedevs[n], FALSE)))
  <2> DEFINE step == Must(AskInThree(Basedevs[n], FALSE))
  <2>1. n \in DOMAIN LoadBasedevs /\ LoadBasedevs[n] = step
    BY DEF LoadBasedevs
  <2> HIDE DEF step
  <2>2. Asked(LoadBasedevs, step)
    BY <2>1, FilesListed, AskedAt
  <2>3. Asked(BootFiles, step)
    BY <2>2, FilesListed, LinesListed, AskedOfFive DEF BootFiles
  <2> QED BY <2>3 DEF InPlan, step
<1>3. ASSUME NEW n \in DOMAIN Libraries PROVE InPlan(Along(boot.libpath, Libraries[n], TRUE))
  <2> DEFINE step == Along(boot.libpath, Libraries[n], TRUE)
             values == AskValue("COUNTRY") \o AskValue("KBD") \o AskValue("SCR")
  <2>1. n \in DOMAIN LoadLibraries /\ LoadLibraries[n] = step
    BY DEF LoadLibraries
  <2> HIDE DEF step
  <2>2. Asked(LoadLibraries, step)
    BY <2>1, FilesListed, AskedAt
  <2>3. Listed(values)
    BY LinesListed, ConcatIs
  <2>4. SystemFiles = values \o LoadLibraries
    BY DEF SystemFiles
  <2> HIDE DEF values
  <2>5. Asked(SystemFiles, step)
    BY <2>2, <2>3, <2>4, FilesListed, AskedIn
  <2> QED BY <2>5 DEF InPlan, step
<1> QED BY <1>1, <1>2, <1>3

LEMMA LinesAsked ==
  ASSUME Listed(config), NEW i \in DOMAIN config
  PROVE  /\ config[i].type \in {"PSD", "BASEDEV"} => InPlan(Must(AskInThree(config[i].name[2], config[i].args)))
         /\ config[i].type = "VIDEO" => InPlan(Along(boot.libpath, config[i].name[2], TRUE))
<1>1. ASSUME NEW type, config[i].type = type
      PROVE  Asked(load_type(type), Must(AskInThree(config[i].name[2], config[i].args)))
  <2>1. i \in DOMAIN load_type(type) /\ load_type(type)[i] = Must(AskInThree(config[i].name[2], config[i].args))
    BY <1>1 DEF load_type, ForLines, OfType
  <2>2. Listed(load_type(type))
    BY LinesListed
  <2>3. Asked(load_type(type), load_type(type)[i])
    BY <2>1, <2>2, AskedAt
  <2> QED BY <2>1, <2>3
<1>2. ASSUME config[i].type \in {"PSD", "BASEDEV"}
      PROVE  InPlan(Must(AskInThree(config[i].name[2], config[i].args)))
  <2> DEFINE step == Must(AskInThree(config[i].name[2], config[i].args))
  <2>1. Asked(load_type("PSD"), step) \/ Asked(load_type("BASEDEV"), step)
    BY <1>1, <1>2
  <2> HIDE DEF step
  <2>2. Asked(BootFiles, step)
    BY <2>1, FilesListed, LinesListed, AskedOfFive DEF BootFiles
  <2> QED BY <2>2 DEF InPlan, step
<1>3. ASSUME config[i].type = "VIDEO"
      PROVE  InPlan(Along(boot.libpath, config[i].name[2], TRUE))
  <2>1. i \in DOMAIN Video /\ Video[i] = Along(boot.libpath, config[i].name[2], TRUE)
    BY <1>3 DEF Video, ForLines, OfType
  <2>2. Asked(Video, Video[i])
    BY <2>1, LinesListed, AskedAt
  <2> QED BY <2>1, <2>2 DEF InPlan
<1> QED BY <1>2, <1>3

\* The last of some lines is the one that has none behind it, the first the one that has none before.
LEMMA LastAndFirst ==
  ASSUME Listed(config), NEW i \in DOMAIN config
  PROVE  /\ IsLast(i) => Value(config[i].type) = config[i]
         /\ config[i].type = "IFS" /\ ~ IfsBefore(i) => FirstIfs = config[i]
         /\ ~ IfsBefore(i) /\ IfsBehind(i) /\ config[i].type = "DEVICE" => OfType({"IFS"}) # {} /\ i < Lowest(OfType({"IFS"}))
<1>1. DOMAIN config = 1..Len(config) /\ Len(config) \in Nat /\ \A types : OfType(types) \in SUBSET (1..Len(config))
  BY ListIs DEF OfType
<1>2. i \in OfType({config[i].type})
  BY DEF OfType
<1>3. ASSUME IsLast(i) PROVE Value(config[i].type) = config[i]
  <2> DEFINE S == OfType({config[i].type})
  <2>1. S # {} /\ S \in SUBSET (1..Len(config))
    BY <1>1, <1>2
  <2>2. \A j \in S : j <= i
    BY <1>3 DEF IsLast, OfType
  <2>3. Max(S) \in S /\ \A j \in S : j <= Max(S)
    <3> HIDE DEF S
    <3> QED BY <1>1, <2>1, HasHighest
  <2>4. Max(S) = i
    <3>1. Max(S) <= i /\ i <= Max(S)
      BY <1>2, <2>2, <2>3
    <3>2. Max(S) \in Nat /\ i \in Nat
      BY <1>1, <2>3
    <3> QED BY <3>1, <3>2
  <2> QED BY <1>2, <2>4 DEF Value
<1> DEFINE first == Lowest(OfType({"IFS"}))
<1>4. OfType({"IFS"}) # {} => /\ first \in DOMAIN config /\ config[first].type = "IFS"
                             /\ \A j \in OfType({"IFS"}) : first <= j
  <2> SUFFICES ASSUME OfType({"IFS"}) # {}
               PROVE  first \in DOMAIN config /\ config[first].type = "IFS" /\ \A j \in OfType({"IFS"}) : first <= j
    OBVIOUS
  <2>1. OfType({"IFS"}) \in SUBSET Nat
    BY <1>1
  <2>2. first \in OfType({"IFS"}) /\ \A j \in OfType({"IFS"}) : first <= j
    BY <2>1, HasLowest
  <2> QED BY <2>2 DEF OfType
<1> HIDE DEF first
<1>5. ASSUME config[i].type = "IFS", ~ IfsBefore(i) PROVE FirstIfs = config[i]
  <2>1. i \in OfType({"IFS"})
    BY <1>5 DEF OfType
  <2>2. first \in DOMAIN config /\ config[first].type = "IFS" /\ first <= i
    BY <1>4, <2>1
  <2>3. ~ (first < i)
    BY <1>5, <2>2 DEF IfsBefore
  <2>4. first = i
    BY <1>1, <2>2, <2>3
  <2> QED BY <2>1, <2>4 DEF FirstIfs, first
<1>6. ASSUME ~ IfsBefore(i), IfsBehind(i), config[i].type = "DEVICE" PROVE OfType({"IFS"}) # {} /\ i < first
  <2>1. OfType({"IFS"}) # {}
    BY <1>6 DEF IfsBehind, OfType
  <2>2. first \in DOMAIN config /\ config[first].type = "IFS"
    BY <1>4, <2>1
  <2>3. ~ (first < i) /\ first # i
    BY <1>6, <2>2 DEF IfsBefore
  <2> QED BY <1>1, <2>1, <2>2, <2>3
<1> QED BY <1>3, <1>5, <1>6 DEF first

LEMMA CountsAsked ==
  ASSUME Listed(config), NEW i \in DOMAIN config, Counts(i)
  PROVE  InPlan(Must(Ask(config[i].name, config[i].args)))
<1> DEFINE step == Must(Ask(config[i].name, config[i].args))
<1>1. ASSUME IsLast(i) PROVE Asked(AskValue(config[i].type), step)
  <2>1. AskValue(config[i].type) = <<step>>
    BY <1>1, LastAndFirst DEF AskValue
  <2>2. 1 \in DOMAIN <<step>> /\ <<step>>[1] = step /\ Listed(<<step>>)
    BY OneListed
  <2> HIDE DEF step
  <2> QED BY <2>1, <2>2, AskedAt
<1>2. ASSUME NEW type, config[i].type = type, HasBootDrive(config[i]) PROVE Asked(load_type_bootdrv(type), step)
  <2>1. i \in DOMAIN load_type_bootdrv(type) /\ load_type_bootdrv(type)[i] = step
    BY <1>2 DEF load_type_bootdrv, ForLines, OfType
  <2>2. Listed(load_type_bootdrv(type))
    BY LinesListed
  <2> HIDE DEF step
  <2>3. Asked(load_type_bootdrv(type), load_type_bootdrv(type)[i])
    BY <2>1, <2>2, AskedAt
  <2> QED BY <2>1, <2>3
<1>3. CASE config[i].type \in {"COUNTRY", "KBD", "SCR"} /\ IsLast(i)
  <2> DEFINE a == AskValue("COUNTRY")
             b == AskValue("KBD")
             c == AskValue("SCR")
  <2>1. Asked(a, step) \/ Asked(b, step) \/ Asked(c, step)
    BY <1>1, <1>3
  <2>2. Listed(a) /\ Listed(b) /\ Listed(c) /\ Listed(LoadLibraries) /\ Listed(<<>>)
    BY LinesListed, FilesListed, OneListed
  <2>3. SystemFiles = a \o b \o c \o LoadLibraries
    BY DEF SystemFiles
  <2> HIDE DEF a, b, c, step
  <2> DEFINE ab == a \o b
             abc == ab \o c
  <2>4. Listed(ab) /\ (Asked(a, step) \/ Asked(b, step) => Asked(ab, step))
    BY <2>2, ConcatIs, AskedIn
  <2> HIDE DEF ab
  <2>5. Listed(abc) /\ (Asked(ab, step) \/ Asked(c, step) => Asked(abc, step))
    BY <2>2, <2>4, ConcatIs, AskedIn
  <2> HIDE DEF abc
  <2>6. Asked(abc \o LoadLibraries, step)
    BY <2>1, <2>2, <2>4, <2>5, AskedIn
  <2> QED BY <2>3, <2>6 DEF InPlan, step, abc, ab
<1>4. CASE ~ boot.ramdisk /\ ~ IfsBefore(i) /\ (config[i].type = "IFS" \/ (config[i].type = "DEVICE" /\ IfsBehind(i)))
  <2> DEFINE first == << Must(Ask(FirstIfs.name, FirstIfs.args)) >>
  <2>1. Drivers = BeforeTheIfs \o first /\ Listed(first) /\ Listed(BeforeTheIfs)
    BY <1>4, OneListed, LinesListed DEF Drivers
  <2>2. ASSUME config[i].type = "IFS" PROVE Asked(first, step)
    <3>1. first = <<step>>
      BY <1>4, <2>2, LastAndFirst
    <3>2. 1 \in DOMAIN <<step>> /\ <<step>>[1] = step /\ Listed(<<step>>)
      BY OneListed
    <3> HIDE DEF step, first
    <3> QED BY <3>1, <3>2, AskedAt
  <2>3. ASSUME config[i].type = "DEVICE", IfsBehind(i) PROVE Asked(BeforeTheIfs, step)
    <3>1. OfType({"IFS"}) # {} /\ i < Lowest(OfType({"IFS"}))
      BY <1>4, <2>3, LastAndFirst
    <3>2. i \in DOMAIN BeforeTheIfs /\ BeforeTheIfs[i] = step
      BY <2>3, <3>1 DEF BeforeTheIfs, ForLines, OfType
    <3> HIDE DEF step
    <3>3. Asked(BeforeTheIfs, BeforeTheIfs[i])
      BY <2>1, <3>2, AskedAt
    <3> QED BY <3>2, <3>3
  <2> HIDE DEF step, first
  <2>4. Asked(BeforeTheIfs \o first, step)
    BY <1>4, <2>1, <2>2, <2>3, AskedIn
  <2> QED BY <2>1, <2>4 DEF InPlan, step
<1>5. CASE /\ boot.ramdisk /\ HasBootDrive(config[i])
           /\ config[i].type \in {"IFS", "DEVICE", "RUN", "CALL"} \/ (config[i].type = "PROTSHELL" /\ IsLast(i))
  <2> DEFINE a == load_type_bootdrv("IFS")
             b == load_type_bootdrv("DEVICE")
             c == load_type_bootdrv("RUN")
             d == load_type_bootdrv("CALL")
  <2>1. config[i].type = "PROTSHELL" /\ IsLast(i) => ProtShell = AskValue("PROTSHELL")
    BY <1>5, LastAndFirst DEF ProtShell
  <2>2. Asked(a, step) \/ Asked(b, step) \/ Asked(c, step) \/ Asked(d, step) \/ Asked(ProtShell, step)
    BY <1>1, <1>2, <1>5, <2>1
  <2>3. Listed(a) /\ Listed(b) /\ Listed(c) /\ Listed(d) /\ Listed(ProtShell)
    BY LinesListed
  <2>4. Drivers = a \o b \o c \o d \o ProtShell
    BY <1>5 DEF Drivers
  <2> HIDE DEF a, b, c, d, step
  <2>5. Asked(Drivers, step)
    BY <2>2, <2>3, <2>4, AskedOfFive
  <2> QED BY <2>5 DEF InPlan, step
<1> HIDE DEF step
<1> QED BY <1>3, <1>4, <1>5 DEF Counts, step

\* What is asked for is there, by some word of some module.
InPath(base) == \E k \in 1..Len(boot.libpath) : HasName(mods, <<boot.libpath[k], base>>)
AllThere ==
  /\ \A n \in DOMAIN Needed : HasName(mods, <<"", Needed[n]>>)
  /\ \A n \in DOMAIN Basedevs : HasName(mods, <<"", Basedevs[n]>>)
  /\ \A n \in DOMAIN Libraries : InPath(Libraries[n])
  /\ \A i \in DOMAIN config :
       /\ config[i].type \in {"PSD", "BASEDEV"} => HasName(mods, <<"", config[i].name[2]>>)
       /\ config[i].type = "VIDEO" => InPath(config[i].name[2])
       /\ Counts(i) => HasName(mods, config[i].name)

\* Once the modules are loaded all that config.sys needs is there; without one
\* nothing is preloaded.
Started == at \notin AsLoaded \cup {"preload", "halted"} /\ boot.autopreload /\ Matches(ConfigSys) # {}
PreInv == Started => AllThere

LEMMA PreloadMeets ==
  ASSUME Fine(NoStep), Listed(config), boot \in Boots, NEW step, IsNeeded(step), InPlan(step)
  PROVE  Met(load_modules, step)
<1> DEFINE one == Steps(NoStep, BootFiles)
           two == Steps(one, SystemFiles)
           three == Steps(two, Drivers)
<1>1. Listed(BootFiles) /\ Listed(SystemFiles) /\ Listed(Drivers) /\ Listed(Video)
  BY PartsListed
<1>2. Fine(one) /\ (Asked(BootFiles, step) => Met(one, step))
  BY <1>1, FoldFine, FoldMeets
<1> HIDE DEF one
<1>3. Fine(two) /\ (Asked(SystemFiles, step) \/ Met(one, step) => Met(two, step))
  BY <1>1, <1>2, FoldFine, FoldMeets
<1> HIDE DEF two
<1>4. Fine(three) /\ (Asked(Drivers, step) \/ Met(two, step) => Met(three, step))
  BY <1>1, <1>3, FoldFine, FoldMeets
<1> HIDE DEF three
<1>5. Plan = Steps(three, Video)
  BY DEF Plan, three, two, one
<1>6. Fine(Plan) /\ (Asked(Video, step) \/ Met(three, step) => Met(Plan, step))
  BY <1>1, <1>4, <1>5, FoldFine, FoldMeets
<1>7. Met(Plan, step)
  BY <1>2, <1>3, <1>4, <1>6 DEF InPlan
<1>8. Met(Steps(Plan, Rest(Plan)), step)
  BY <1>6, <1>7, RestListed, FoldMeets
<1> QED BY <1>8 DEF load_modules, AfterPlan

LEMMA PreloadThere == ASSUME BootInv, Preload PROVE PreInv'
<1>1. Fine(NoStep) /\ Listed(config) /\ boot \in Boots
  BY DEF Fine, NoStep, BootInv, Preload
<1>2. /\ UNCHANGED <<boot, config, letters>> /\ mods' = load_modules.mods
      /\ at' = IF load_modules.failed THEN "halted" ELSE "reloc"
  BY DEF Preload, LoadModules
<1> SUFFICES ASSUME ~ load_modules.failed PROVE AllThere'
  BY <1>2 DEF PreInv, Started
<1>3. ASSUME NEW name, NEW args, InPlan(Must(Ask(name, args))) PROVE HasName(load_modules.mods, name)
  <2>1. IsAsk(Ask(name, args)) /\ Ask(name, args).asked = name
    BY AsksAre
  <2>2. IsNeeded(Must(Ask(name, args)))
    BY <2>1, AreNeeded
  <2>3. Met(load_modules, Must(Ask(name, args)))
    BY <1>1, <1>3, <2>2, PreloadMeets
  <2> QED BY <2>1, <2>3, AreNeeded
<1>4. ASSUME NEW base, NEW args, InPlan(Must(AskInThree(base, args))) PROVE HasName(load_modules.mods, <<"", base>>)
  <2>1. IsAsk(AskInThree(base, args)) /\ AskInThree(base, args).asked = <<"", base>>
    BY AsksAre
  <2>2. IsNeeded(Must(AskInThree(base, args)))
    BY <2>1, AreNeeded
  <2>3. Met(load_modules, Must(AskInThree(base, args)))
    BY <1>1, <1>4, <2>2, PreloadMeets
  <2> QED BY <2>1, <2>3, AreNeeded
<1>5. ASSUME NEW base, InPlan(Along(boot.libpath, base, TRUE))
      PROVE  \E k \in 1..Len(boot.libpath) : HasName(load_modules.mods, <<boot.libpath[k], base>>)
  <2>1. Len(boot.libpath) \in Nat
    BY <1>1, PathsAreListed
  <2>2. IsNeeded(Along(boot.libpath, base, TRUE))
    BY <2>1, AreNeeded
  <2>3. Met(load_modules, Along(boot.libpath, base, TRUE))
    BY <1>1, <1>5, <2>2, PreloadMeets
  <2> QED BY <2>1, <2>3, AreNeeded
<1>6. ASSUME NEW name, HasName(load_modules.mods, name)
      PROVE  \E i \in DOMAIN mods' : \E w \in ToSet(mods'[i].words) : Occurs(name, w)'
  BY <1>2, <1>6 DEF HasName, Occurs
<1>7. \A n \in DOMAIN Needed : HasName(load_modules.mods, <<"", Needed[n]>>)
  BY <1>1, <1>3, FilesAsked
<1>8. \A n \in DOMAIN Basedevs : HasName(load_modules.mods, <<"", Basedevs[n]>>)
  BY <1>1, <1>4, FilesAsked
<1>9. \A n \in DOMAIN Libraries : \E k \in 1..Len(boot.libpath) : HasName(load_modules.mods, <<boot.libpath[k], Libraries[n]>>)
  BY <1>1, <1>5, FilesAsked
<1>10. ASSUME NEW i \in DOMAIN config
       PROVE  /\ config[i].type \in {"PSD", "BASEDEV"} => HasName(load_modules.mods, <<"", config[i].name[2]>>)
              /\ config[i].type = "VIDEO" =>
                   \E k \in 1..Len(boot.libpath) : HasName(load_modules.mods, <<boot.libpath[k], config[i].name[2]>>)
              /\ Counts(i) => HasName(load_modules.mods, config[i].name)
  BY <1>1, <1>3, <1>4, <1>5, LinesAsked, CountsAsked
<1>11. ASSUME NEW i \in DOMAIN config PROVE Counts(i)' => Counts(i)
  BY <1>2 DEF Counts, IsLast, IfsBefore, IfsBehind, HasBootDrive
<1> QED BY <1>2, <1>6, <1>7, <1>8, <1>9, <1>10, <1>11 DEF AllThere, InPath, HasName

\* A step that leaves the list, and what was asked for, alone.
LEMMA SameThere ==
  ASSUME PreInv, UNCHANGED <<boot, mods, config, letters>>,
         at' \in AsLoaded \cup {"preload", "halted"} \/ at \notin AsLoaded \cup {"preload", "halted"}
  PROVE  PreInv'
<1>1. AllThere => AllThere'
  <2>1. \A name : HasName(mods, name) => HasName(mods, name)'
    BY DEF HasName, Occurs
  <2>2. \A i \in DOMAIN config : Counts(i)' => Counts(i)
    BY DEF Counts, IsLast, IfsBefore, IfsBehind, HasBootDrive
  <2> QED BY <2>1, <2>2 DEF AllThere, InPath
<1>2. Started' => Started
  BY DEF Started, Matches
<1> QED BY <1>1, <1>2 DEF PreInv

LEMMA BootThere == ASSUME BootInv, PreInv, BootNext PROVE PreInv'
<1>1. CASE bootos2_cmain
  BY <1>1 DEF bootos2_cmain, PreInv, Started, AsLoaded
<1>2. CASE AssignLetters
  BY <1>2 DEF AssignLetters, PreInv, Started, AsLoaded
<1>3. CASE PatchConfig
  <2>1. CASE Matches(ConfigSys) = {}
    <3>1. Matches(ConfigSys)' = {}
      BY <1>3, <2>1 DEF PatchConfig, Matches
    <3> QED BY <3>1 DEF PreInv, Started
  <2>2. CASE Matches(ConfigSys) # {}
    BY <1>3, <2>2 DEF PatchConfig, PreInv, Started, AsLoaded
  <2> QED BY <2>1, <2>2
<1>4. CASE editor
  BY <1>4 DEF editor, PreInv, Started
<1>5. CASE Preload
  BY <1>5, PreloadThere
<1>6. CASE mbi_reloc
  BY <1>6, SameThere DEF mbi_reloc, AsLoaded
<1>7. CASE LoadOs2ldr
  BY <1>7, SameThere DEF LoadOs2ldr, AsLoaded
<1>8. CASE MuOpen \/ MuRead
  BY <1>8, SameThere DEF MuOpen, MuRead, AsLoaded
<1>9. CASE StartKernel
  BY <1>9, SameThere DEF StartKernel, AsLoaded
<1> QED BY <1>1, <1>2, <1>3, <1>4, <1>5, <1>6, <1>7, <1>8, <1>9 DEF BootNext

\* A word that is the name asked for and ends a command line opens; any other is
\* the name found elsewhere.
LEMMA ThereOpens ==
  ASSUME NEW name, HasName(mods, name), NEW places
  PROVE  CanBeOpened(name, places)
<1>1. PICK i \in DOMAIN mods : \E w \in ToSet(mods[i].words) : Occurs(name, w)
  BY DEF HasName
<1>2. PICK k \in DOMAIN mods[i].words : Occurs(name, mods[i].words[k])
  BY <1>1 DEF ToSet
<1>3. CASE k = Len(mods[i].words) /\ mods[i].words[k] \in places
  <2>1. i \in Matches(mods[i].words[k])
    BY <1>3 DEF Matches, Last
  <2> QED BY <1>3, <2>1 DEF CanBeOpened
<1>4. CASE ~ (k = Len(mods[i].words) /\ mods[i].words[k] \in places)
  BY <1>2, <1>4 DEF CanBeOpened, IsElsewhere
<1> QED BY <1>3, <1>4


-------------------------------------------------------------------------------
(* What is preloaded is a file of the disk, and no module before has its name, *)
(* unless CONFIG.SYS gives parameters, which are taken for a part of the name. *)

NoArgs == \A l \in DOMAIN config : ~config[l].args
Itself(list, i) ==
  /\ OfTheDisk(list[i]) /\ Last(list[i].words) = list[i].words[1]
  /\ NoArgs => \A j \in DOMAIN list : j < i => Last(list[j].words) # list[i].words[1]
Own(list) ==
  /\ Listed(list) /\ Len(boot.modules) <= Len(list) /\ \A i \in DOMAIN list : Last(list[i].words) \in ToSet(list[i].words)
  /\ \A i \in DOMAIN list : i > Len(boot.modules) => Itself(list, i)

LEMMA LoadedOwn ==
  ASSUME boot \in Boots, NEW st, Own(st.mods), NEW ask, NoArgs => ~ HasName(st.mods, ask.asked),
         NEW name, Occurs(ask.asked, name), OnDisk(name)
  PROVE  Own(Loaded(st, name).mods)
<1> DEFINE mod == [words |-> <<name>>, start |-> st.next, pages |-> 1]
           list == Append(st.mods, mod)
<1>1. Listed(st.mods) /\ Loaded(st, name).mods = list
  BY DEF Own, Loaded
<1>2. Len(mod.words) = 1 /\ mod.words[1] = name /\ Last(mod.words) = name /\ Last(mod.words) \in ToSet(mod.words)
  BY DEF Last, ToSet
<1> HIDE DEF mod
<1>3. /\ Listed(list) /\ Len(list) = Len(st.mods) + 1 /\ Len(st.mods) \in Nat /\ DOMAIN list = 1..(Len(st.mods) + 1)
      /\ DOMAIN st.mods = 1..Len(st.mods)
      /\ \A i \in DOMAIN list : list[i] = IF i = Len(st.mods) + 1 THEN mod ELSE st.mods[i]
  <2>1. /\ Listed(list) /\ DOMAIN list = 1..(Len(st.mods) + 1)
        /\ \A i \in DOMAIN list : list[i] = IF i = Len(st.mods) + 1 THEN mod ELSE st.mods[i]
    BY <1>1, AppendIs
  <2> HIDE DEF list
  <2>2. Len(st.mods) \in Nat /\ DOMAIN st.mods = 1..Len(st.mods) /\ Len(list) \in Nat /\ DOMAIN list = 1..Len(list)
    BY <1>1, <2>1, ListIs
  <2>3. Len(list) = Len(st.mods) + 1
    BY <2>1, <2>2
  <2> QED BY <2>1, <2>2, <2>3
<1> HIDE DEF list
<1>4. Len(boot.modules) \in Nat
  <2>1. Listed(boot.modules)
    BY BootsAssumption DEF Listed
  <2> QED BY <2>1, ListIs
<1>5. \A j \in DOMAIN st.mods : /\ NoArgs => Last(st.mods[j].words) # name
                                /\ Last(st.mods[j].words) \in ToSet(st.mods[j].words)
  BY DEF Own, HasName
<1>6. Itself(list, Len(st.mods) + 1)
  <2>1. list[Len(st.mods) + 1] = mod /\ \A j \in DOMAIN list : j < Len(st.mods) + 1 => j \in DOMAIN st.mods /\ list[j] = st.mods[j]
    BY <1>3
  <2> QED BY <1>2, <1>5, <2>1 DEF Itself, OfTheDisk
<1>7. ASSUME NEW i \in DOMAIN list, i # Len(st.mods) + 1, i > Len(boot.modules)
      PROVE  Itself(list, i)
  <2>1. i \in DOMAIN st.mods /\ list[i] = st.mods[i] /\ \A j \in DOMAIN list : j < i => j \in DOMAIN st.mods /\ list[j] = st.mods[j]
    BY <1>3, <1>7
  <2>2. Itself(st.mods, i)
    BY <1>7, <2>1 DEF Own
  <2> QED BY <2>1, <2>2 DEF Itself
<1>8. \A i \in DOMAIN list : Last(list[i].words) \in ToSet(list[i].words)
  BY <1>2, <1>3, <1>5
<1>9. Len(boot.modules) <= Len(list)
  BY <1>3, <1>4 DEF Own
<1> QED BY <1>1, <1>3, <1>6, <1>7, <1>8, <1>9 DEF Own

\* A step asks for files by names they may be found by.
Sound(step) ==
  DOMAIN step.asks \in SUBSET Nat /\ \A a \in DOMAIN step.asks : IsAsk(step.asks[a]) /\ (NoArgs => ~ step.asks[a].args)
AllSound(q) == Listed(q) /\ \A n \in DOMAIN q : Sound(q[n])

LEMMA StepOwn ==
  ASSUME boot \in Boots, NEW st, Fine(st), Own(st.mods), NEW step, Sound(step)
  PROVE  Own(Step(st, step).mods)
<1>1. CASE st.failed
  BY <1>1 DEF Step
<1>2. CASE ~ st.failed /\ Good(st, step) = {}
  <2>1. Step(st, step) = [st EXCEPT !.failed = step.needed]
    BY <1>2 DEF Step
  <2>2. [st EXCEPT !.failed = step.needed].mods = st.mods
    BY DEF Fine
  <2> QED BY <2>1, <2>2
<1>3. CASE ~ st.failed /\ Good(st, step) # {}
  <2> DEFINE a == Lowest(Good(st, step))
             ask == step.asks[a]
  <2>1. Good(st, step) \in SUBSET Nat /\ Good(st, step) \subseteq DOMAIN step.asks
    BY DEF Good, Sound
  <2>2. a \in Good(st, step)
    BY <1>3, <2>1, HasLowest
  <2>3. Succeeds(st, ask) /\ IsAsk(ask) /\ (NoArgs => ~ ask.args)
    BY <2>1, <2>2 DEF Good, Sound
  <2>4. Step(st, step) = preload_module(st, ask)
    BY <1>3 DEF Step
  <2> HIDE DEF a, ask
  <2>5. CASE IsThere(st, ask)
    BY <2>4, <2>5 DEF preload_module
  <2>6. CASE ~ IsThere(st, ask)
    <3> DEFINE name == ask.places[Lowest(Found(ask))]
    <3>1. Found(ask) \in SUBSET Nat /\ Found(ask) # {}
      BY <2>3, <2>6 DEF Succeeds, Found, IsAsk
    <3>2. Lowest(Found(ask)) \in Found(ask)
      BY <3>1, HasLowest
    <3>3. OnDisk(name) /\ Occurs(ask.asked, name)
      BY <2>3, <3>2 DEF Found, IsAsk
    <3>4. Step(st, step) = Loaded(st, name)
      BY <2>4, <2>6 DEF preload_module
    <3>5. NoArgs => ~ HasName(st.mods, ask.asked)
      BY <2>3, <2>6 DEF IsThere
    <3> HIDE DEF name
    <3> QED BY <3>3, <3>4, <3>5, LoadedOwn
  <2> QED BY <2>5, <2>6
<1> QED BY <1>1, <1>2, <1>3

LEMMA FoldOwn ==
  ASSUME boot \in Boots, NEW st, Fine(st), Own(st.mods), NEW q, AllSound(q)
  PROVE  Own(Steps(st, q).mods)
<1>0. Listed(q)
  BY DEF AllSound
<1>1. PICK f : /\ f[0] = st /\ f[Len(q)] = Steps(st, q)
               /\ \A n \in 1..Len(q) : f[n] = Step(f[n - 1], q[n]) /\ Fine(f[n - 1])
  BY <1>0, FineSteps
<1> DEFINE T == {n \in Nat : Own(f[n].mods)}
<1>2. Len(q) \in Nat /\ T \in SUBSET Nat /\ 0 \in T /\ DOMAIN q = 1..Len(q)
  BY <1>0, <1>1, ListIs
<1>3. ASSUME NEW n \in T, n < Len(q)
      PROVE  n + 1 \in T
  <2>1. n + 1 \in 1..Len(q) /\ (n + 1) - 1 = n /\ Own(f[n].mods) /\ n \in Nat
    BY <1>2, <1>3
  <2>2. f[n + 1] = Step(f[n], q[n + 1]) /\ Fine(f[n]) /\ Sound(q[n + 1])
    BY <1>1, <1>2, <2>1 DEF AllSound
  <2>3. Own(f[n + 1].mods)
    BY <2>1, <2>2, StepOwn
  <2> QED BY <2>1, <2>3
<1>4. Len(q) \in T
  <2> HIDE DEF T
  <2>1. \A n \in 0..Len(q) : n \in T
    BY <1>2, <1>3, Induction
  <2> QED BY <1>2, <2>1
<1> QED BY <1>1, <1>4

LEMMA ConcatSound == ASSUME NEW a, AllSound(a), NEW b, AllSound(b) PROVE AllSound(a \o b)
<1>1. a \in Seq(ToSet(a) \cup ToSet(b)) /\ b \in Seq(ToSet(a) \cup ToSet(b))
  BY DEF AllSound, Listed
<1>2. Listed(a \o b)
  BY ConcatIs DEF AllSound
<1> DEFINE r == a \o b
<1>3. /\ Len(r) = Len(a) + Len(b) /\ Len(a) \in Nat /\ Len(b) \in Nat /\ DOMAIN a = 1..Len(a) /\ DOMAIN b = 1..Len(b)
      /\ DOMAIN r = 1..(Len(a) + Len(b))
      /\ \A i \in 1..(Len(a) + Len(b)) : r[i] = IF i <= Len(a) THEN a[i] ELSE b[i - Len(a)]
  BY <1>1
<1> HIDE DEF r
<1>4. ASSUME NEW i \in DOMAIN r PROVE Sound(r[i])
  <2>1. CASE i <= Len(a)
    <3>1. i \in DOMAIN a /\ r[i] = a[i]
      BY <1>3, <2>1
    <3> QED BY <3>1 DEF AllSound
  <2>2. CASE ~ (i <= Len(a))
    <3>1. i - Len(a) \in DOMAIN b /\ r[i] = b[i - Len(a)]
      BY <1>3, <2>2
    <3> QED BY <3>1 DEF AllSound
  <2> QED BY <2>1, <2>2
<1> QED BY <1>2, <1>4 DEF AllSound, r

LEMMA StepsAreSound ==
  /\ \A ask : IsAsk(ask) /\ (NoArgs => ~ ask.args) => Sound(Must(ask)) /\ Sound(May(ask))
  /\ \A path, base, needed : Len(path) \in Nat => Sound(Along(path, base, needed))
  /\ Sound(Nothing)
<1>1. ASSUME NEW ask, IsAsk(ask), NoArgs => ~ ask.args PROVE Sound(Must(ask)) /\ Sound(May(ask))
  <2>1. Must(ask).asks = <<ask>> /\ May(ask).asks = <<ask>>
    BY DEF Must, May
  <2>2. DOMAIN <<ask>> = {1} /\ <<ask>>[1] = ask /\ {1} \in SUBSET Nat
    OBVIOUS
  <2> QED BY <1>1, <2>1, <2>2 DEF Sound
<1>2. ASSUME NEW path, NEW base, NEW needed, Len(path) \in Nat PROVE Sound(Along(path, base, needed))
  <2>1. Along(path, base, needed).asks = [i \in 1..Len(path) |-> Ask(<<path[i], base>>, FALSE)]
    BY DEF Along
  <2>2. \A i \in 1..Len(path) : IsAsk(Ask(<<path[i], base>>, FALSE)) /\ ~ Ask(<<path[i], base>>, FALSE).args
    BY AsksAre
  <2>3. 1..Len(path) \in SUBSET Nat
    BY <1>2
  <2> QED BY <2>1, <2>2, <2>3 DEF Sound
<1>3. Sound(Nothing)
  <2>1. Nothing.asks = <<>> /\ DOMAIN <<>> = {}
    BY DEF Nothing
  <2> QED BY <2>1 DEF Sound
<1> QED BY <1>1, <1>2, <1>3

\* A line asks with its parameters.
LEMMA LineSound ==
  ASSUME NEW n \in DOMAIN config
  PROVE  Sound(Must(Ask(config[n].name, config[n].args))) /\ Sound(Must(AskInThree(config[n].name[2], config[n].args)))
<1>1. NoArgs => ~ config[n].args
  BY DEF NoArgs
<1> DEFINE a == Ask(config[n].name, config[n].args)
           b == AskInThree(config[n].name[2], config[n].args)
<1>2. IsAsk(a) /\ a.args = config[n].args /\ IsAsk(b) /\ b.args = config[n].args
  BY AsksAre
<1> HIDE DEF a, b
<1>3. Sound(Must(a)) /\ Sound(Must(b))
  BY <1>1, <1>2, StepsAreSound
<1> QED BY <1>3 DEF a, b

LEMMA OneSound == ASSUME NEW x, Sound(x) PROVE AllSound(<<x>>)
<1>1. Listed(<<x>>)
  BY DEF Listed, ToSet
<1>2. DOMAIN <<x>> = {1} /\ <<x>>[1] = x
  OBVIOUS
<1> QED BY <1>1, <1>2 DEF AllSound

\* Whatever the lines ask for.
LEMMA LinesSound ==
  ASSUME boot \in Boots, Listed(config)
  PROVE  /\ \A type : AllSound(load_type(type)) /\ AllSound(load_type_bootdrv(type))
         /\ AllSound(BeforeTheIfs) /\ AllSound(Video)
<1>1. \A type : AllSound(load_type(type)) /\ AllSound(load_type_bootdrv(type))
  <2> TAKE type
  <2> DEFINE a == load_type(type)
             b == load_type_bootdrv(type)
  <2>1. Listed(a) /\ Listed(b)
    BY LinesListed
  <2>2. \A n \in DOMAIN a : n \in DOMAIN config /\ a[n] \in {Nothing, Must(AskInThree(config[n].name[2], config[n].args))}
    BY DEF load_type, ForLines
  <2>3. \A n \in DOMAIN b : n \in DOMAIN config /\ b[n] \in {Nothing, Must(Ask(config[n].name, config[n].args))}
    BY DEF load_type_bootdrv, ForLines
  <2> HIDE DEF a, b
  <2>4. AllSound(a) /\ AllSound(b)
    BY <2>1, <2>2, <2>3, LineSound, StepsAreSound DEF AllSound
  <2> QED BY <2>4 DEF a, b
<1>2. AllSound(BeforeTheIfs)
  <2> DEFINE a == BeforeTheIfs
  <2>1. Listed(a)
    BY LinesListed
  <2>2. \A n \in DOMAIN a : n \in DOMAIN config /\ a[n] \in {Nothing, Must(Ask(config[n].name, config[n].args))}
    BY DEF BeforeTheIfs, ForLines
  <2> HIDE DEF a
  <2>3. AllSound(a)
    BY <2>1, <2>2, LineSound, StepsAreSound DEF AllSound
  <2> QED BY <2>3 DEF a
<1>3. AllSound(Video)
  <2> DEFINE b == Video
  <2>1. Listed(b)
    BY LinesListed
  <2>2. \A n \in DOMAIN b : b[n] = Nothing \/ b[n] = Along(boot.libpath, config[n].name[2], TRUE)
    BY DEF Video, ForLines
  <2> HIDE DEF b
  <2>3. Sound(Nothing) /\ \A base : Sound(Along(boot.libpath, base, TRUE))
    BY PathsAreListed, StepsAreSound
  <2>4. AllSound(b)
    BY <2>1, <2>2, <2>3 DEF AllSound
  <2> QED BY <2>4 DEF b
<1> QED BY <1>1, <1>2, <1>3

\* The names every boot asks for.
LEMMA FilesSound ==
  ASSUME boot \in Boots
  PROVE  AllSound(LoadNeeded) /\ AllSound(LoadWanted) /\ AllSound(LoadBasedevs) /\ AllSound(LoadLibraries)
<1>1. \A n \in DOMAIN LoadNeeded : LoadNeeded[n] = Must(Ask(<<"", Needed[n]>>, FALSE))
  BY DEF LoadNeeded
<1>2. \A n \in DOMAIN LoadWanted : LoadWanted[n] = May(Ask(<<"", Wanted[n]>>, FALSE))
  BY DEF LoadWanted
<1>3. \A n \in DOMAIN LoadBasedevs : LoadBasedevs[n] = Must(AskInThree(Basedevs[n], FALSE))
  BY DEF LoadBasedevs
<1>4. \A n \in DOMAIN LoadLibraries : LoadLibraries[n] = Along(boot.libpath, Libraries[n], TRUE)
  BY DEF LoadLibraries
<1>5. \A name : Sound(Must(Ask(name, FALSE))) /\ Sound(May(Ask(name, FALSE)))
  BY AsksAre, StepsAreSound
<1>6. \A base : Sound(Must(AskInThree(base, FALSE))) /\ Sound(Along(boot.libpath, base, TRUE))
  BY AsksAre, StepsAreSound, PathsAreListed
<1> QED BY <1>1, <1>2, <1>3, <1>4, <1>5, <1>6, FilesListed DEF AllSound

\* The lines of which one counts, or the text at address 0.
LEMMA ValuesSound ==
  ASSUME boot \in Boots, Listed(config)
  PROVE  /\ \A type \in {"COUNTRY", "KBD", "SCR", "PROTSHELL"} : AllSound(AskValue(type))
         /\ AllSound(ProtShell) /\ AllSound(<< Must(Ask(FirstIfs.name, FirstIfs.args)) >>)
<1>1. DOMAIN config = 1..Len(config) /\ Len(config) \in Nat /\ \A types : OfType(types) \in SUBSET (1..Len(config))
  BY ListIs DEF OfType
<1>2. \A type \in {"COUNTRY", "KBD", "SCR", "PROTSHELL", "IFS"} : ~ boot.zero[type].args
  BY BootsAssumption
<1>3. ASSUME NEW line, NoArgs => ~ line.args PROVE AllSound(<< Must(Ask(line.name, line.args)) >>)
  <2> DEFINE ask == Ask(line.name, line.args)
  <2>1. IsAsk(ask) /\ ask.args = line.args
    BY AsksAre
  <2> HIDE DEF ask
  <2>2. Sound(Must(ask))
    BY <1>3, <2>1, StepsAreSound
  <2>3. AllSound(<< Must(ask) >>)
    BY <2>2, OneSound
  <2> QED BY <2>3 DEF ask
<1>4. ASSUME NEW type \in {"COUNTRY", "KBD", "SCR", "PROTSHELL"} PROVE AllSound(AskValue(type))
  <2>1. OfType({type}) # {} => Max(OfType({type})) \in DOMAIN config
    BY <1>1, HasHighest
  <2>2. NoArgs => ~ Value(type).args
    BY <1>2, <2>1 DEF Value, NoArgs
  <2> QED BY <1>3, <2>2 DEF AskValue
<1>5. AllSound(ProtShell)
  <2>1. AllSound(<<>>)
    BY OneListed DEF AllSound
  <2> QED BY <1>4, <2>1 DEF ProtShell
<1>6. AllSound(<< Must(Ask(FirstIfs.name, FirstIfs.args)) >>)
  <2>1. OfType({"IFS"}) \in SUBSET Nat
    BY <1>1
  <2>2. OfType({"IFS"}) # {} => Lowest(OfType({"IFS"})) \in DOMAIN config
    BY <1>1, <2>1, HasLowest
  <2>3. NoArgs => ~ FirstIfs.args
    BY <1>2, <2>2 DEF FirstIfs, NoArgs
  <2> QED BY <1>3, <2>3
<1> QED BY <1>4, <1>5, <1>6

LEMMA PartsSound ==
  ASSUME boot \in Boots, Listed(config)
  PROVE  AllSound(BootFiles) /\ AllSound(SystemFiles) /\ AllSound(Drivers) /\ AllSound(Video)
<1>1. AllSound(BootFiles)
  BY FilesSound, LinesSound, ConcatSound DEF BootFiles
<1>2. AllSound(SystemFiles)
  BY FilesSound, ValuesSound, ConcatSound DEF SystemFiles
<1>3. AllSound(Drivers)
  BY LinesSound, ValuesSound, ConcatSound DEF Drivers
<1> QED BY <1>1, <1>2, <1>3, LinesSound

LEMMA RestSound == ASSUME boot \in Boots, NEW st PROVE AllSound(Rest(st))
<1> DEFINE codepage == Must(Ask(<<"language/codepage", "ucstbl.lst">>, FALSE))
           messages == Along(boot.dpath, "oso001.msg", FALSE)
<1>1. Rest(st) = (<<codepage>> \o LoadCodepages) \o <<messages>> \/ Rest(st) = <<>> \o <<messages>>
  BY DEF Rest
<1>2. Sound(codepage) /\ Sound(messages)
  BY AsksAre, StepsAreSound, PathsAreListed
<1>3. AllSound(<<>>)
  BY OneListed DEF AllSound
<1>4. AllSound(LoadCodepages)
  <2>1. LoadCodepages = [i \in 1..Len(boot.codepages) |-> LoadCodepages[i]]
    BY DEF LoadCodepages
  <2>2. Listed(LoadCodepages)
    BY <2>1, PathsAreListed, ListOfFunction
  <2>3. \A n \in DOMAIN LoadCodepages : LoadCodepages[n] = Must(Ask(<<"language/codepage", boot.codepages[n]>>, FALSE))
    BY DEF LoadCodepages
  <2>4. \A name : Sound(Must(Ask(name, FALSE)))
    BY AsksAre, StepsAreSound
  <2> QED BY <2>2, <2>3, <2>4 DEF AllSound
<1> HIDE DEF codepage, messages
<1>5. AllSound(<<codepage>> \o LoadCodepages)
  BY <1>2, <1>4, OneSound, ConcatSound
<1> QED BY <1>1, <1>2, <1>3, <1>5, OneSound, ConcatSound

LEMMA PlanOwn == ASSUME boot \in Boots, Listed(config), Fine(NoStep), Own(NoStep.mods) PROVE Own(Plan.mods) /\ Fine(Plan)
<1> DEFINE one == Steps(NoStep, BootFiles)
           two == Steps(one, SystemFiles)
           three == Steps(two, Drivers)
<1>1. Listed(BootFiles) /\ Listed(SystemFiles) /\ Listed(Drivers) /\ Listed(Video)
  BY PartsListed
<1>2. Fine(one) /\ Own(one.mods)
  BY <1>1, PartsSound, FoldFine, FoldOwn
<1> HIDE DEF one
<1>3. Fine(two) /\ Own(two.mods)
  BY <1>1, <1>2, PartsSound, FoldFine, FoldOwn
<1> HIDE DEF two
<1>4. Fine(three) /\ Own(three.mods)
  BY <1>1, <1>3, PartsSound, FoldFine, FoldOwn
<1> HIDE DEF three
<1>5. Plan = Steps(three, Video)
  BY DEF Plan, three, two, one
<1> QED BY <1>1, <1>4, <1>5, PartsSound, FoldFine, FoldOwn

LEMMA PreloadOwn == ASSUME BootInv, Own(mods), Preload PROVE Own(mods)'
<1>1. Fine(NoStep) /\ Listed(config) /\ boot \in Boots /\ NoStep.mods = mods
  BY DEF Fine, NoStep, BootInv, Preload
<1>2. Fine(Plan) /\ Own(Plan.mods)
  BY <1>1, PlanOwn
<1>3. Own(Steps(Plan, Rest(Plan)).mods)
  BY <1>1, <1>2, RestSound, FoldOwn
<1>4. Own(load_modules.mods)
  BY <1>3 DEF load_modules, AfterPlan
<1>5. mods' = load_modules.mods /\ UNCHANGED <<boot, config>>
  BY DEF Preload, LoadModules
<1> QED BY <1>4, <1>5 DEF Own, Itself, OfTheDisk, OnDisk, NoArgs

\* The editor changes where config.sys is, and no name.
LEMMA EditorOwn == ASSUME Own(mods), editor PROVE Own(mods)'
<1>1. UNCHANGED <<boot, config>> /\ (mods' = mods \/ mods' = ToTheCopy(EditedPlace(cur_addr)))
  BY DEF editor
<1>2. CASE mods' = mods
  <2>1. Own(mods') = Own(mods)
    BY <1>2
  <2>2. Own(mods')
    BY <2>1
  <2> QED BY <1>1, <1>2, <2>2 DEF Own, Itself, OfTheDisk, OnDisk, NoArgs
<1>3. CASE mods' = ToTheCopy(EditedPlace(cur_addr))
  <2>1. DOMAIN mods = 1..Len(mods) /\ Len(mods) \in Nat
    BY ListIs DEF Own
  <2>2. mods' = [i \in 1..Len(mods) |-> mods'[i]] /\ \A i \in 1..Len(mods) : mods'[i].words = mods[i].words
    BY <1>3, <2>1 DEF ToTheCopy
  <2>3. Listed(mods') /\ Len(mods') = Len(mods) /\ DOMAIN mods' = DOMAIN mods
    BY <2>1, <2>2, ListOfFunction
  <2>4. ASSUME NEW i \in DOMAIN mods, Itself(mods, i) PROVE Itself(mods, i)'
    BY <1>1, <2>1, <2>2, <2>3, <2>4 DEF Itself, OfTheDisk, OnDisk, NoArgs
  <2>5. \A i \in DOMAIN mods : Last(mods'[i].words) \in ToSet(mods'[i].words)
    BY <2>1, <2>2 DEF Own
  <2> QED BY <1>1, <2>1, <2>3, <2>4, <2>5 DEF Own
<1> QED BY <1>1, <1>2, <1>3

LEMMA PreloadedOpens ==
  ASSUME BootInv, Own(mods), NEW i \in DOMAIN mods \ DOMAIN boot.modules
  PROVE  OfTheDisk(mods[i]) /\ (NoArgs => OpensAsItself(mods[i]))
<1> DEFINE name == mods[i].words[1]
<1>1. DOMAIN mods = 1..Len(mods) /\ Len(mods) \in Nat
  BY ListIs DEF Own
<1>2. DOMAIN boot.modules = 1..Len(boot.modules) /\ Len(boot.modules) \in Nat
  <2>1. Listed(boot.modules)
    BY BootsAssumption DEF BootInv, Listed
  <2> QED BY <2>1, ListIs
<1>3. i \in Nat /\ i > Len(boot.modules)
  BY <1>1, <1>2
<1>4. Itself(mods, i)
  BY <1>3 DEF Own
<1> SUFFICES ASSUME NoArgs PROVE OpensAsItself(mods[i])
  BY <1>4 DEF Itself
<1>5. i \in Matches(name) /\ \A j \in Matches(name) : j \in Nat /\ ~ (j < i)
  BY <1>1, <1>4 DEF Itself, Matches
<1>6. (CHOOSE k \in Matches(name) : \A j \in Matches(name) : k <= j) = i
  <2>1. \A j \in Matches(name) : i <= j
    BY <1>3, <1>5
  <2>2. \A k \in Matches(name) : (\A j \in Matches(name) : k <= j) => k = i
    BY <1>3, <1>5
  <2> HIDE DEF name
  <2> QED BY <1>5, <2>1, <2>2
<1>7. ufs_open(name) = mods[i]
  BY <1>5, <1>6 DEF ufs_open
<1> QED BY <1>7 DEF OpensAsItself

LEMMA StartedIsPreloaded == PreInv /\ BootInv /\ Own(mods) => Preloaded
<1> SUFFICES ASSUME PreInv, BootInv, Own(mods), at \in {"os2ldr", "kernel", "os2boot"} PROVE Preloaded
  BY DEF Preloaded
<1>0. ASSUME NEW i \in DOMAIN mods \ DOMAIN boot.modules
      PROVE  OfTheDisk(mods[i]) /\ (NoArgs => OpensAsItself(mods[i]))
  BY <1>0, PreloadedOpens
<1> SUFFICES ASSUME boot.autopreload, Matches(ConfigSys) # {} PROVE Preloaded
  BY <1>0 DEF Preloaded, NoArgs
<1>1. AllThere
  BY DEF PreInv, Started, AsLoaded
<1>2. /\ \A base \in ToSet(Needed) : CanBeOpened(<<"", base>>, {<<"", base>>})
      /\ \A base \in ToSet(Basedevs) : CanBeOpened(<<"", base>>, InThree(base))
  BY <1>1, ThereOpens DEF AllThere, ToSet
<1>3. \A base : InPath(base) => InLibpath(base)
  <2>1. DOMAIN boot.libpath = 1..Len(boot.libpath)
    <3>1. Listed(boot.libpath)
      BY BootsAssumption DEF BootInv, Listed
    <3> QED BY <3>1, ListIs
  <2> QED BY <2>1, ThereOpens DEF InPath, InLibpath
<1>4. \A base \in ToSet(Libraries) : InLibpath(base)
  BY <1>1, <1>3 DEF AllThere, ToSet
<1>5. ASSUME NEW i \in DOMAIN config
      PROVE  /\ config[i].type \in {"PSD", "BASEDEV"} => CanBeOpened(<<"", config[i].name[2]>>, InThree(config[i].name[2]))
             /\ config[i].type = "VIDEO" => InLibpath(config[i].name[2])
             /\ Counts(i) => CanBeOpened(config[i].name, {config[i].name})
  BY <1>1, <1>3, ThereOpens DEF AllThere
<1> QED BY <1>0, <1>2, <1>4, <1>5, Zenon DEF Preloaded, NoArgs

LEMMA OwnInit == Init => Own(mods) /\ PreInv
<1> SUFFICES ASSUME Init PROVE Own(mods) /\ PreInv
  OBVIOUS
<1>1. boot \in Boots /\ mods = boot.modules /\ at = "start"
  BY DEF Init
<1>2. Listed(mods)
  BY <1>1, BootsAssumption DEF Listed
<1>3. DOMAIN mods = 1..Len(mods) /\ Len(mods) \in Nat
  BY <1>2, ListIs
<1>4. ASSUME NEW i \in DOMAIN mods PROVE Last(mods[i].words) \in ToSet(mods[i].words)
  <2>1. mods[i].words \in Seq(ToSet(mods[i].words)) \ {<<>>}
    BY <1>1, BootsAssumption
  <2>2. Listed(mods[i].words) /\ mods[i].words # <<>>
    BY <2>1 DEF Listed
  <2>3. Last(mods[i].words) = mods[i].words[Len(mods[i].words)] /\ Len(mods[i].words) \in DOMAIN mods[i].words
    BY <2>2, ListIs
  <2> QED BY <2>3 DEF ToSet
<1>5. \A i \in DOMAIN mods : ~ (i > Len(boot.modules)) /\ Len(boot.modules) <= Len(mods)
  BY <1>1, <1>3
<1>6. Len(boot.modules) <= Len(mods)
  BY <1>1, <1>3
<1> QED BY <1>1, <1>2, <1>4, <1>5, <1>6 DEF Own, PreInv, Started, AsLoaded

LEMMA SameOwn == ASSUME Own(mods), UNCHANGED <<boot, mods, config>> PROVE Own(mods)'
BY DEF Own, Itself, OfTheDisk, OnDisk, NoArgs

LEMMA BootOwn == ASSUME BootInv, Own(mods), BootNext PROVE Own(mods)'
<1>1. CASE editor
  BY <1>1, EditorOwn
<1>2. CASE Preload
  BY <1>2, PreloadOwn
<1>3. CASE PatchConfig
  <2>1. UNCHANGED <<boot, mods>> /\ mods = boot.modules
    BY <1>3 DEF PatchConfig, BootInv, AsLoaded
  <2>2. Listed(mods) /\ \A i \in DOMAIN mods : ~ (i > Len(boot.modules))
    BY <2>1, ListIs DEF Own
  <2> QED BY <2>1, <2>2 DEF Own
<1>4. CASE bootos2_cmain \/ AssignLetters \/ mbi_reloc \/ LoadOs2ldr \/ MuOpen \/ MuRead \/ StartKernel
  <2>1. UNCHANGED <<boot, mods, config>>
    BY <1>4 DEF bootos2_cmain, AssignLetters, mbi_reloc, LoadOs2ldr, MuOpen, MuRead, StartKernel
  <2> QED BY <2>1, SameOwn
<1> QED BY <1>1, <1>2, <1>3, <1>4 DEF BootNext

LEMMA StutterThere == ASSUME Own(mods), PreInv, UNCHANGED bvars PROVE Own(mods)' /\ PreInv'
<1>1. UNCHANGED <<at, boot, mods, config, letters>>
  BY DEF bvars
<1> QED BY <1>1, SameOwn, SameThere

-------------------------------------------------------------------------------
(* The mini-FSD.                                                               *)

Notes == [handle : Handles, name : AllNames]
Note(h) == [handle |-> h, name |-> hands[h].name]
IsHandle(r) ==
  r = [open |-> r.open, name |-> r.name, size |-> r.size, position |-> r.position, base |-> r.base,
       direct |-> r.direct, index |-> r.index]

\* Before the kernel no call is made, and what is booted stays.
Placed == boot \in Boots /\ (stage # "none" => at = "kernel")
Saves == [area : [1..SaveItems -> {None} \cup Notes], open_files : Int, torn : BOOLEAN]
Typed ==
  /\ saves \in Saves
  /\ DOMAIN hands = Handles /\ hands = [h \in Handles |-> hands[h]]
  /\ \A h \in Handles : IsHandle(hands[h]) /\ hands[h].open \in BOOLEAN

\* Handles are opened by FS_OPENCREATE() only.
NoneOpen ==
  stage \notin {"fs", "ifs"} => (\A h \in Handles : ~ hands[h].open) /\ (\A i \in 1..SaveItems : saves.area[i] = None)

\* An open handle is noted at its place, and what is noted is open.
OpenIsNoted ==
  ~ saves.torn => \A h \in Handles : hands[h].open => hands[h].index \in 1..SaveItems /\ saves.area[hands[h].index] = Note(h)
NotedIsOpen ==
  ~ saves.torn => \A i \in 1..SaveItems :
    saves.area[i] # None => hands[saves.area[i].handle].open /\ hands[saves.area[i].handle].index = i

\* What is open is a drive or a module.
Known ==
  \A h \in Handles : hands[h].open => hands[h].name \in AllNames /\ (hands[h].name # Drive => Matches(hands[h].name) # {})

\* Booting from a ramdisk, the modules have numbers: mods is a list.
ListOfModules == g.ramdisk => DOMAIN mods \subseteq Nat

Kept == Placed /\ Typed /\ NoneOpen /\ OpenIsNoted /\ NotedIsOpen /\ Known
Inv == Kept /\ (ListOfModules => HandedOver)

---------------------------------------------------------------------------

\* A place that is free is one of those there are.
LEMMA SlotType == Slot # {} => Lowest(Slot) \in 1..SaveItems /\ saves.area[Lowest(Slot)] = None
<1>1. Slot \in SUBSET Nat
  BY PlacesAssumption DEF Slot
<1> QED
  BY <1>1, HasLowest DEF Slot

\* A file is opened only if a module has its name.
LEMMA OpenedIsThere == \A name : Opened(name).ok => Matches(name) # {}
  BY DEF Opened

---------------------------------------------------------------------------

\* The calls that open, move and close no handle.
LEMMA QuietKeeps ==
  ASSUME Kept, UNCHANGED <<bvars, hands, saves>>, at = "kernel",
         stage' \in {"mfs", "init", "fs"}, stage # "ifs", stage = "fs" <=> stage' = "fs"
  PROVE  Inv'
<1>1. Placed' /\ Typed'
  BY DEF Kept, Placed, Typed, bvars
<1>2. NoneOpen'
  BY DEF Kept, NoneOpen
<1>3. OpenIsNoted' /\ NotedIsOpen'
  BY DEF Kept, OpenIsNoted, NotedIsOpen, Note
<1>4. Known'
  BY DEF Kept, Known, Matches, bvars
<1> QED
  BY <1>1, <1>2, <1>3, <1>4 DEF Inv, Kept, HandedOver

\* Nothing is open before the kernel runs, nor when it stops.
LEMMA NothingIsOpen ==
  /\ NoneSaved \in Saves /\ NoneSaved.torn = FALSE /\ \A i \in 1..SaveItems : NoneSaved.area[i] = None
  /\ DOMAIN AllClosed = Handles /\ AllClosed = [h \in Handles |-> AllClosed[h]]
  /\ \A h \in Handles : AllClosed[h].open = FALSE /\ IsHandle(AllClosed[h])
<1>1. NoneSaved \in Saves /\ NoneSaved.torn = FALSE /\ \A i \in 1..SaveItems : NoneSaved.area[i] = None
  <2>1. [i \in 1..SaveItems |-> None] \in [1..SaveItems -> {None} \cup Notes]
    OBVIOUS
  <2> QED
    BY <2>1 DEF NoneSaved, Saves
<1>2. DOMAIN AllClosed = Handles /\ AllClosed = [h \in Handles |-> AllClosed[h]]
  BY DEF AllClosed
<1>3. \A h \in Handles : AllClosed[h] = Closed
  BY DEF AllClosed
<1>4. Closed.open = FALSE /\ IsHandle(Closed)
  BY DEF Closed, IsHandle
<1> QED
  BY <1>1, <1>2, <1>3, <1>4

LEMMA InitHolds == MInit => Inv
<1> SUFFICES ASSUME MInit PROVE Inv
  OBVIOUS
<1>1. boot \in Boots /\ stage = "none" /\ hands = AllClosed /\ saves = NoneSaved
  BY Zenon DEF MInit, Init, FsdInit
<1>2. Typed
  BY <1>1, NothingIsOpen DEF Typed
<1>3. NoneOpen /\ OpenIsNoted /\ NotedIsOpen /\ Known
  BY <1>1, NothingIsOpen DEF NoneOpen, OpenIsNoted, NotedIsOpen, Known
<1> QED
  BY <1>1, <1>2, <1>3 DEF Inv, Kept, Placed, HandedOver

LEMMA StopKeeps ==
  ASSUME Kept, Stopped, UNCHANGED bvars, at = "kernel"
  PROVE  Inv'
<1>1. stage' = "dead" /\ hands' = AllClosed /\ saves' = NoneSaved
  BY Zenon DEF Stopped
<1>2. Placed' /\ Typed'
  BY <1>1, NothingIsOpen DEF Kept, Placed, Typed, bvars
<1>3. NoneOpen' /\ OpenIsNoted' /\ NotedIsOpen' /\ Known'
  BY <1>1, NothingIsOpen DEF NoneOpen, OpenIsNoted, NotedIsOpen, Known
<1> QED
  BY <1>1, <1>2, <1>3 DEF Inv, Kept, HandedOver

---------------------------------------------------------------------------

\* The position of a handle may change as it likes.
LEMMA MoveKeeps ==
  ASSUME Kept, UNCHANGED <<bvars, stage, saves>>, stage = "fs",
         NEW h \in Handles, NEW x, hands' = [hands EXCEPT ![h].position = x]
  PROVE  Inv'
<1>1. \A k \in Handles :
        /\ hands'[k].open = hands[k].open /\ hands'[k].name = hands[k].name /\ hands'[k].index = hands[k].index
        /\ IsHandle(hands'[k])
  <2> TAKE k \in Handles
  <2>1. CASE k # h
    BY <2>1 DEF Kept, Typed
  <2>2. CASE k = h
    BY <2>2 DEF Kept, Typed, IsHandle
  <2> QED
    BY <2>1, <2>2
<1>2. Placed' /\ Typed'
  <2>1. DOMAIN hands' = Handles /\ hands' = [k \in Handles |-> hands'[k]]
    BY DEF Kept, Typed
  <2> QED
    BY <1>1, <2>1 DEF Kept, Placed, Typed, bvars
<1>3. NoneOpen' /\ OpenIsNoted' /\ NotedIsOpen'
  BY <1>1 DEF Kept, Typed, Saves, NoneOpen, OpenIsNoted, NotedIsOpen, Note, Notes
<1>4. Known'
  BY <1>1 DEF Kept, Known, Matches, bvars
<1> QED
  BY <1>2, <1>3, <1>4 DEF Inv, Kept, HandedOver

\* A handle that is opened is noted at a free place, or one too many is.
LEMMA OpenKeeps ==
  ASSUME Kept, UNCHANGED <<bvars, stage>>, stage = "fs",
         NEW h \in Handles, ~ hands[h].open, NEW name \in AllNames, name # Drive => Matches(name) # {},
         NEW r, IsHandle(r), r.open = TRUE, r.name = name, r.index = IF Slot = {} THEN SaveItems + 1 ELSE Lowest(Slot),
         hands' = [hands EXCEPT ![h] = r], saves' = Noted(h, name)
  PROVE  Inv'
<1> DEFINE note == [handle |-> h, name |-> name]
<1>1. \A k \in Handles : hands'[k] = IF k = h THEN r ELSE hands[k]
  BY DEF Kept, Typed
<1>2. Placed' /\ NoneOpen' /\ Known'
  BY <1>1 DEF Kept, Placed, NoneOpen, Known, Matches, bvars
<1>3. note \in Notes /\ note # None
  BY NoneAssumption DEF Notes
<1>4. DOMAIN hands' = Handles /\ hands' = [k \in Handles |-> hands'[k]] /\ \A k \in Handles : IsHandle(hands'[k]) /\ hands'[k].open \in BOOLEAN
  BY <1>1 DEF Kept, Typed
<1>5. CASE Slot = {}
  <2>1. saves' = [saves EXCEPT !.torn = TRUE, !.open_files = @ + 1]
    BY <1>5 DEF Noted
  <2>2. saves' = [area |-> saves.area, open_files |-> saves.open_files + 1, torn |-> TRUE]
    BY <2>1 DEF Kept, Typed, Saves
  <2>3. saves' \in Saves /\ saves'.torn
    BY <2>2 DEF Kept, Typed, Saves
  <2>4. Typed' /\ saves'.torn
    BY <1>4, <2>3 DEF Typed
  <2> QED
    BY <1>2, <2>4 DEF Inv, Kept, OpenIsNoted, NotedIsOpen, HandedOver
<1>6. CASE Slot # {}
  <2> DEFINE i == Lowest(Slot)
  <2>1. i \in 1..SaveItems /\ saves.area[i] = None
    BY <1>6, SlotType
  <2> DEFINE area == [saves.area EXCEPT ![i] = note]
  <2>2. saves' = [area |-> area, open_files |-> saves.open_files + 1, torn |-> saves.torn] /\ r.index = i
    BY <1>6 DEF Noted, Kept, Typed, Saves
  <2>7. area \in [1..SaveItems -> {None} \cup Notes] /\ \A j \in 1..SaveItems : area[j] = IF j = i THEN note ELSE saves.area[j]
    BY <1>3, <2>1 DEF Kept, Typed, Saves
  <2> HIDE DEF i, note, area
  <2>3. /\ saves'.torn = saves.torn /\ saves'.area \in [1..SaveItems -> {None} \cup Notes]
        /\ \A j \in 1..SaveItems : saves'.area[j] = IF j = i THEN note ELSE saves.area[j]
    BY <2>2, <2>7
  <2>4. Typed'
    <3>1. saves' \in Saves
      BY <2>2, <2>7 DEF Kept, Typed, Saves
    <3> QED
      BY <1>4, <3>1 DEF Typed
  <2>5. OpenIsNoted'
    <3> SUFFICES ASSUME ~ saves'.torn, NEW k \in Handles, hands'[k].open
                 PROVE  hands'[k].index \in 1..SaveItems /\ saves'.area[hands'[k].index] = Note(k)'
      BY DEF OpenIsNoted
    <3>1. CASE k = h
      BY <3>1, <1>1, <2>1, <2>2, <2>3 DEF Note, note
    <3>2. CASE k # h
      <4>1. hands[k].open /\ hands[k].index \in 1..SaveItems /\ saves.area[hands[k].index] = Note(k)
        BY <3>2, <1>1, <2>3 DEF Kept, OpenIsNoted
      <4>2. Note(k) # None
        BY <4>1, NoneAssumption DEF Kept, Known, Note
      <4> QED
        BY <3>2, <4>1, <4>2, <1>1, <2>1, <2>3 DEF Note
    <3> QED
      BY <3>1, <3>2
  <2>6. NotedIsOpen'
    <3> SUFFICES ASSUME ~ saves'.torn, NEW j \in 1..SaveItems, saves'.area[j] # None
                 PROVE  hands'[saves'.area[j].handle].open /\ hands'[saves'.area[j].handle].index = j
      BY DEF NotedIsOpen
    <3>1. CASE j = i
      BY <3>1, <1>1, <2>2, <2>3 DEF note
    <3>2. CASE j # i
      <4>0. saves.area[j] # None /\ saves.area[j] \in Notes /\ ~ saves.torn
        <5>1. saves.area[j] = saves'.area[j] /\ saves'.torn = saves.torn
          BY <3>2, <2>3
        <5> QED BY <2>3, <5>1
      <4>1. saves.area[j] \in Notes /\ hands[saves.area[j].handle].open /\ hands[saves.area[j].handle].index = j
        BY <4>0 DEF Kept, NotedIsOpen
      <4>2. saves.area[j].handle \in Handles /\ saves.area[j].handle # h
        BY <4>1 DEF Notes
      <4> QED
        BY <3>2, <4>1, <4>2, <1>1, <2>3
    <3> QED
      BY <3>1, <3>2
  <2> QED
    BY <1>2, <2>4, <2>5, <2>6 DEF Inv, Kept, HandedOver
<1> QED
  BY <1>5, <1>6

\* A handle that is closed takes its own note with it, and no other's.
LEMMA CloseKeeps ==
  ASSUME Kept, UNCHANGED <<bvars, stage>>, stage = "fs",
         NEW h \in Handles, hands[h].open, hands' = [hands EXCEPT ![h] = Closed], saves' = SavesWithout(h)
  PROVE  Inv'
<1> DEFINE area == [i \in 1..SaveItems |-> IF i = hands[h].index THEN None ELSE saves.area[i]]
<1>1. \A k \in Handles : hands'[k] = IF k = h THEN Closed ELSE hands[k]
  BY DEF Kept, Typed
<1>2. saves' = [area |-> area, open_files |-> saves.open_files - 1, torn |-> saves.torn]
  BY DEF SavesWithout, Kept, Typed, Saves
<1>3. area \in [1..SaveItems -> {None} \cup Notes]
  BY DEF Kept, Typed, Saves
<1>4. \A i \in 1..SaveItems : area[i] = IF i = hands[h].index THEN None ELSE saves.area[i]
  OBVIOUS
<1> HIDE DEF area
<1>5. Closed.open = FALSE /\ IsHandle(Closed)
  BY DEF Closed, IsHandle
<1>6. Typed'
  <2>1. saves' \in Saves
    BY <1>2, <1>3 DEF Kept, Typed, Saves
  <2>2. DOMAIN hands' = Handles /\ hands' = [k \in Handles |-> hands'[k]]
    BY DEF Kept, Typed
  <2> QED
    BY <1>1, <1>5, <2>1, <2>2 DEF Kept, Typed
<1>7. Placed' /\ NoneOpen' /\ Known'
  BY <1>1, <1>5 DEF Kept, Placed, NoneOpen, Known, Matches, bvars
<1>8. OpenIsNoted'
  <2> SUFFICES ASSUME ~ saves'.torn, NEW k \in Handles, hands'[k].open
               PROVE  hands'[k].index \in 1..SaveItems /\ saves'.area[hands'[k].index] = Note(k)'
    BY DEF OpenIsNoted
  <2>1. k # h /\ hands'[k] = hands[k] /\ ~ saves.torn
    BY <1>1, <1>2, <1>5
  <2>2. /\ hands[k].index \in 1..SaveItems /\ saves.area[hands[k].index] = Note(k)
        /\ hands[h].index \in 1..SaveItems /\ saves.area[hands[h].index] = Note(h)
    BY <2>1 DEF Kept, OpenIsNoted
  <2>3. Note(k) # Note(h)
    BY <2>1 DEF Note
  <2>4. hands[k].index # hands[h].index
    BY <2>2, <2>3
  <2> QED
    BY <1>2, <1>4, <2>1, <2>2, <2>4 DEF Note
<1>9. NotedIsOpen'
  <2> SUFFICES ASSUME ~ saves'.torn, NEW j \in 1..SaveItems, saves'.area[j] # None
               PROVE  hands'[saves'.area[j].handle].open /\ hands'[saves'.area[j].handle].index = j
    BY DEF NotedIsOpen
  <2>1. j # hands[h].index /\ saves'.area[j] = saves.area[j] /\ ~ saves.torn
    BY <1>2, <1>4
  <2>2. saves.area[j] \in Notes /\ hands[saves.area[j].handle].open /\ hands[saves.area[j].handle].index = j
    BY <2>1 DEF Kept, Typed, Saves, NotedIsOpen
  <2>3. saves.area[j].handle \in Handles /\ saves.area[j].handle # h
    BY <2>1, <2>2 DEF Notes
  <2> QED
    BY <1>1, <2>1, <2>2, <2>3
<1> QED
  BY <1>6, <1>7, <1>8, <1>9 DEF Inv, Kept, HandedOver

---------------------------------------------------------------------------

\* MFS_TERM() hands over what is open and nothing else.
LEMMA NotedAreOpenOnes ==
  Kept /\ ~ saves.torn => AllNoted = OpenOnes
<1> SUFFICES ASSUME Kept, ~ saves.torn PROVE AllNoted = OpenOnes
  OBVIOUS
<1>1. ASSUME NEW i \in 1..SaveItems, saves.area[i] # None
      PROVE  saves.area[i] \in OpenOnes
  <2>1. saves.area[i] \in Notes /\ hands[saves.area[i].handle].open /\ hands[saves.area[i].handle].index = i
    BY <1>1 DEF Kept, Typed, Saves, NotedIsOpen
  <2>2. saves.area[i].handle \in Handles
    BY <2>1 DEF Notes
  <2>3. saves.area[i] = Note(saves.area[i].handle)
    BY <2>1, <2>2 DEF Kept, OpenIsNoted
  <2> QED
    BY <2>1, <2>2, <2>3 DEF OpenOnes, Note
<1>2. ASSUME NEW h \in Handles, hands[h].open
      PROVE  Note(h) \in AllNoted
  <2>1. hands[h].index \in 1..SaveItems /\ saves.area[hands[h].index] = Note(h)
    BY <1>2 DEF Kept, OpenIsNoted
  <2>2. Note(h) # None
    BY <1>2, NoneAssumption DEF Kept, Known, Note
  <2> QED
    BY <2>1, <2>2 DEF AllNoted, Slot
<1> QED
  BY <1>1, <1>2 DEF AllNoted, Slot, OpenOnes, Note

\* What a module written to the drive is reopened for is noted under its name.
LEMMA ReopenedIsNoted ==
  ASSUME NEW m
  PROVE  /\ Reopened(m) \subseteq AllNoted
         /\ (\E o \in AllNoted : <<o.name>> = TargetOf(m)) => \E o \in Reopened(m) : <<o.name>> = TargetOf(m)
<1> DEFINE noted == {i \in (1..SaveItems) \ Slot : <<saves.area[i].name>> = TargetOf(m)}
<1>1. noted \in SUBSET Nat
  BY PlacesAssumption
<1>2. Reopened(m) = IF noted = {} THEN {} ELSE {saves.area[Lowest(noted)]}
  BY DEF Reopened
<1>3. CASE noted = {}
  BY <1>2, <1>3 DEF AllNoted
<1>4. CASE noted # {}
  <2>1. Lowest(noted) \in noted
    BY <1>1, <1>4, HasLowest
  <2> QED
    BY <1>2, <1>4, <2>1 DEF AllNoted
<1> QED
  BY <1>3, <1>4

\* A file that is open by one handle only is handed over from a ramdisk too.
LEMMA AloneIsReopened ==
  ASSUME Kept, ~ saves.torn, g.ramdisk, ListOfModules, NEW o \in OpenOnes, Alone(o), TargetOf(ufs_open(o.name)) = <<o.name>>
  PROVE  \E i \in DOMAIN mods : o \in Reopened(mods[i])
<1>1. PICK h \in Handles : hands[h].open /\ o = Note(h)
  BY DEF OpenOnes, Note
<1>2. Matches(o.name) # {}
  BY <1>1 DEF Kept, Known, Alone, Note
<1>3. Matches(o.name) \in SUBSET Nat
  BY DEF Matches, ListOfModules
<1>4. \E i \in Matches(o.name) : \A j \in Matches(o.name) : i <= j
  BY <1>2, <1>3, HasLowest
<1>5. PICK i \in DOMAIN mods : ufs_open(o.name) = mods[i]
  <2>1. PICK i \in Matches(o.name) : i = CHOOSE k \in Matches(o.name) : \A j \in Matches(o.name) : k <= j
    BY <1>4
  <2> QED
    BY <1>2, <2>1 DEF ufs_open, Matches
<1>6. AllNoted = OpenOnes
  BY NotedAreOpenOnes
<1>7. PICK p \in Reopened(mods[i]) : <<p.name>> = TargetOf(mods[i])
  BY <1>5, <1>6, ReopenedIsNoted
<1>8. p \in OpenOnes /\ p.name = o.name
  BY <1>5, <1>6, <1>7, ReopenedIsNoted
<1> QED
  BY <1>7, <1>8 DEF Alone

LEMMA TermKeeps ==
  ASSUME Kept, MfsTerm
  PROVE  Inv'
<1>1. at = "kernel" /\ UNCHANGED bvars
  BY DEF Kept, Placed, MfsTerm
<1>2. CASE Stopped
  BY <1>1, <1>2, StopKeeps
<1>3. CASE ~ Stopped
  <2>1. stage = "fs" /\ stage' = "ifs" /\ ifs' = HandedTo /\ g'.ramdisk = g.ramdisk /\ UNCHANGED <<hands, saves>>
    BY <1>3 DEF MfsTerm, NoGlobals
  <2>2. Kept'
    BY <1>1, <2>1
    DEF Kept, Placed, Typed, NoneOpen, OpenIsNoted, NotedIsOpen, Known, Note, Matches, bvars
  <2>3. OpenOnes' = OpenOnes
    BY <2>1 DEF OpenOnes
  <2>4. ASSUME ListOfModules, ~ saves.torn
        PROVE  HandedOver'
    <3>1. AllNoted = OpenOnes
      BY <2>4, NotedAreOpenOnes
    <3>2. CASE ~ g.ramdisk
      <4>1. ifs'.handles = OpenOnes
        BY <2>1, <3>1, <3>2 DEF HandedTo
      <4> QED
        BY <2>1, <2>3, <3>2, <4>1 DEF HandedOver
    <3>3. CASE g.ramdisk
      <4>1. ifs'.handles = UNION {Reopened(mods[i]) : i \in DOMAIN mods}
        BY <2>1, <3>3 DEF HandedTo
      <4>2. ifs'.handles \subseteq OpenOnes
        BY <3>1, <4>1, ReopenedIsNoted
      <4>3. \A o : Alone(o)' => Alone(o)
        BY <2>3 DEF Alone
      <4>4. \A name : ufs_open(name)' = ufs_open(name)
        BY <1>1 DEF ufs_open, Matches, bvars
      <4>5. \A o \in OpenOnes : Alone(o) /\ TargetOf(ufs_open(o.name)) = <<o.name>> => o \in ifs'.handles
        BY <2>4, <3>3, <4>1, AloneIsReopened
      <4>6. \A o \in OpenOnes' : Alone(o)' /\ TargetOf(ufs_open(o.name)') = <<o.name>> => o \in ifs'.handles
        BY <2>3, <4>3, <4>4, <4>5
      <4> QED
        BY <2>1, <2>3, <3>3, <4>2, <4>6 DEF HandedOver, TargetOf
    <3> QED
      BY <3>2, <3>3
  <2>5. ListOfModules' => ListOfModules
    BY <1>1, <2>1 DEF ListOfModules, bvars
  <2>6. saves'.torn => HandedOver'
    BY DEF HandedOver
  <2> QED
    BY <2>1, <2>2, <2>4, <2>5, <2>6 DEF Inv
<1> QED
  BY <1>2, <1>3

---------------------------------------------------------------------------

\* What happens before the kernel runs happens with no handle open.
LEMMA BootKeeps ==
  ASSUME Kept, BootNext, UNCHANGED fvars
  PROVE  Inv'
<1>1. boot' = boot /\ at # "kernel"
  BY Zenon DEF BootNext, bootos2_cmain, AssignLetters, PatchConfig, editor, Preload, mbi_reloc, LoadOs2ldr, MuOpen,
               MuRead, StartKernel
<1>2. stage = "none" /\ UNCHANGED <<stage, hands, saves>>
  BY <1>1 DEF Kept, Placed, fvars
<1>3. Placed' /\ Typed' /\ NoneOpen'
  BY <1>1, <1>2 DEF Kept, Placed, Typed, NoneOpen
<1>4. \A h \in Handles : ~ hands[h].open
  BY <1>2 DEF Kept, NoneOpen
<1>5. OpenIsNoted' /\ NotedIsOpen' /\ Known'
  BY <1>2, <1>4 DEF Kept, OpenIsNoted, NotedIsOpen, Known, Note
<1> QED
  BY <1>2, <1>3, <1>5 DEF Inv, Kept, HandedOver

\* FS_OPENCREATE() of a module or of a drive, or with no place left.
LEMMA OpenCreateKeeps ==
  ASSUME Kept, FsOpenCreate
  PROVE  Inv'
<1>1. stage = "fs" /\ at = "kernel" /\ UNCHANGED bvars
  BY DEF Kept, Placed, FsOpenCreate
<1>2. CASE Stopped
  BY <1>1, <1>2, StopKeeps
<1>3. ASSUME NEW h \in Handles, ~ hands[h].open, stage' = stage, OpenDrive(h)
      PROVE  Inv'
  <2> DEFINE r == FreshHandle(Drive, VolSize, 0, TRUE)
  <2>1. IsHandle(r) /\ r.open = TRUE /\ r.name = Drive /\ r.index = IF Slot = {} THEN SaveItems + 1 ELSE Lowest(Slot)
    BY DEF IsHandle, FreshHandle
  <2>2. hands' = [hands EXCEPT ![h] = r] /\ saves' = Noted(h, Drive) /\ Drive \in AllNames
    BY <1>3 DEF OpenDrive, AllNames
  <2> HIDE DEF r
  <2> QED
    BY <1>1, <1>3, <2>1, <2>2, OpenKeeps
<1>4. ASSUME NEW h \in Handles, ~ hands[h].open, stage' = stage, NEW name \in boot.names, OpenFile(h, name, Opened(name))
      PROVE  Inv'
  <2>1. CASE ~ Opened(name).ok
    <3>1. UNCHANGED <<hands, saves>>
      BY <1>4, <2>1 DEF OpenFile
    <3> QED
      BY <1>1, <1>4, <3>1, QuietKeeps
  <2>2. CASE Opened(name).ok
    <3> DEFINE r == FreshHandle(name, Opened(name).g.filemax, Opened(name).g.filebase, FALSE)
    <3>1. IsHandle(r) /\ r.open = TRUE /\ r.name = name /\ r.index = IF Slot = {} THEN SaveItems + 1 ELSE Lowest(Slot)
      BY DEF IsHandle, FreshHandle
    <3>2. hands' = [hands EXCEPT ![h] = r] /\ saves' = Noted(h, name)
      BY <1>4, <2>2 DEF OpenFile
    <3>3. name \in AllNames /\ Matches(name) # {}
      BY <2>2, OpenedIsThere DEF AllNames, Kept, Placed
    <3> HIDE DEF r
    <3> QED
      BY <1>1, <1>4, <3>1, <3>2, <3>3, OpenKeeps
  <2> QED
    BY <2>1, <2>2
<1> QED
  BY <1>2, <1>3, <1>4 DEF FsOpenCreate

LEMMA FsdKeeps ==
  ASSUME Kept, FsdNext
  PROVE  Inv'
<1>1. ASSUME stage # "none" PROVE at = "kernel"
  BY <1>1 DEF Kept, Placed
<1>2. CASE MfsInit
  <2>1. at = "kernel" /\ stage = "none" /\ UNCHANGED bvars
    BY <1>2 DEF MfsInit, MfsFree
  <2>2. Stopped \/ (stage' = "mfs" /\ UNCHANGED <<hands, saves>>)
    BY <1>2 DEF MfsInit
  <2> QED
    BY <2>1, <2>2, StopKeeps, QuietKeeps
<1>3. CASE MfsOpen \/ MfsRead \/ MfsChgFilePtr \/ MfsClose
  BY <1>1, <1>3, QuietKeeps DEF MfsOpen, MfsRead, MfsChgFilePtr, MfsClose, bvars
<1>4. CASE FsInit
  BY <1>1, <1>4, QuietKeeps DEF FsInit, bvars
<1>5. CASE FsMount
  <2>1. stage = "init" /\ at = "kernel" /\ UNCHANGED bvars
    BY <1>1, <1>5 DEF FsMount
  <2>2. CASE Stopped
    BY <2>1, <2>2, StopKeeps
  <2>3. CASE ~ Stopped
    <3> DEFINE area == [i \in 1..SaveItems |-> None]
    <3>1. stage' = "fs" /\ hands' = hands /\ \A h \in Handles : ~ hands[h].open
      BY <1>5, <2>1, <2>3 DEF FsMount, Kept, NoneOpen
    <3>2. saves' = [area |-> area, open_files |-> saves.open_files, torn |-> saves.torn]
      BY <1>5, <2>3 DEF FsMount, Kept, Typed, Saves
    <3>3. area \in [1..SaveItems -> {None} \cup Notes] /\ \A i \in 1..SaveItems : area[i] = None
      OBVIOUS
    <3> HIDE DEF area
    <3>4. saves' \in Saves
      BY <3>2, <3>3 DEF Kept, Typed, Saves
    <3>5. Typed' /\ Placed' /\ NoneOpen'
      BY <2>1, <3>1, <3>4 DEF Kept, Typed, Placed, NoneOpen, bvars
    <3>6. OpenIsNoted' /\ NotedIsOpen' /\ Known'
      BY <3>1, <3>2, <3>3 DEF OpenIsNoted, NotedIsOpen, Known
    <3> QED
      BY <3>1, <3>5, <3>6 DEF Inv, Kept, HandedOver
  <2> QED
    BY <2>2, <2>3
<1>6. CASE FsOpenCreate
  BY <1>6, OpenCreateKeeps
<1>7. CASE FsRead
  <2>1. stage = "fs" /\ UNCHANGED <<bvars, stage, saves>>
    BY <1>7 DEF FsRead
  <2>2. PICK h \in Handles, len \in 1..2 : FsReadInto(h, ReadOf(h, len, SharedFrom(h)))
    BY <1>7 DEF FsRead
  <2>3. PICK x : hands' = [hands EXCEPT ![h].position = x]
    BY <2>2 DEF FsReadInto
  <2> QED
    BY <2>1, <2>3, MoveKeeps
<1>8. CASE FsChgFilePtr
  <2>1. stage = "fs" /\ UNCHANGED <<bvars, stage, saves>>
    BY <1>8 DEF FsChgFilePtr
  <2>2. PICK h \in Handles : \E x : hands' = [hands EXCEPT ![h].position = x]
    BY <1>8 DEF FsChgFilePtr
  <2>3. PICK x : hands' = [hands EXCEPT ![h].position = x]
    BY <2>2
  <2> QED
    BY <2>1, <2>3, MoveKeeps
<1>9. CASE FsClose
  <2>1. stage = "fs" /\ UNCHANGED <<bvars, stage>>
    BY <1>9 DEF FsClose
  <2>2. PICK h \in Handles : hands[h].open /\ saves' = SavesWithout(h) /\ hands' = [hands EXCEPT ![h] = Closed]
    BY <1>9 DEF FsClose
  <2> QED
    BY <2>1, <2>2, CloseKeeps
<1>10. CASE FsFindFirst \/ FsNothing \/ FsStub
  BY <1>1, <1>10, QuietKeeps DEF FsFindFirst, FsNothing, FsStub, bvars
<1>11. CASE MfsTerm
  BY <1>11, TermKeeps
<1> QED
  BY <1>2, <1>3, <1>4, <1>5, <1>6, <1>7, <1>8, <1>9, <1>10, <1>11 DEF FsdNext

\* A step that changes nothing.
LEMMA StutterKeeps ==
  ASSUME Inv, UNCHANGED mvars
  PROVE  Inv'
<1>1. UNCHANGED <<at, boot, mods, stage, g, hands, saves, ifs>>
  BY DEF mvars, bvars, fvars
<1>2. Placed' /\ Typed' /\ NoneOpen' /\ OpenIsNoted' /\ NotedIsOpen' /\ Known'
  <2>1. Placed'
    BY <1>1 DEF Inv, Kept, Placed
  <2>2. Typed'
    BY <1>1 DEF Inv, Kept, Typed
  <2>3. NoneOpen'
    BY <1>1 DEF Inv, Kept, NoneOpen
  <2>4. OpenIsNoted'
    BY <1>1 DEF Inv, Kept, OpenIsNoted, Note, Matches
  <2>5. NotedIsOpen'
    BY <1>1 DEF Inv, Kept, NotedIsOpen, Note, Matches
  <2>6. Known'
    BY <1>1 DEF Inv, Kept, Known, Note, Matches
  <2> QED BY <2>1, <2>2, <2>3, <2>4, <2>5, <2>6
<1>3. OpenOnes' = OpenOnes
  BY <1>1 DEF OpenOnes
<1>4. \A o : Alone(o)' => Alone(o)
  BY <1>3 DEF Alone
<1>5. \A name : ufs_open(name)' = ufs_open(name)
  BY <1>1 DEF ufs_open, Matches
<1>6. (ListOfModules => HandedOver)'
  BY <1>1, <1>3, <1>4, <1>5 DEF Inv, ListOfModules, HandedOver, TargetOf
<1> QED
  BY <1>2, <1>6 DEF Inv, Kept


---------------------------------------------------------------------------
(* What is read.                                                           *)

\* A name's module: the first that has it, whole in memory.
IsFile(name, size, base) == Matches(name) # {} /\ size = ufs_open(name).pages /\ base = ufs_open(name).start

LEMMA FileIs ==
  ASSUME BootInv, NEW name, Matches(name) # {}
  PROVE  /\ \E i \in DOMAIN mods : ufs_open(name) = mods[i]
         /\ Last(ufs_open(name).words) = name /\ IsModule(ufs_open(name)) /\ Holds(ufs_open(name), mem)
<1>1. Matches(name) \in SUBSET Nat /\ DOMAIN mods \subseteq Nat
  BY ListIs DEF BootInv, Whole, Matches
<1>2. \E i \in Matches(name) : \A j \in Matches(name) : i <= j
  BY <1>1, Least
<1>3. PICK i \in Matches(name) : ufs_open(name) = mods[i]
  BY <1>2, Zenon DEF ufs_open
<1> QED BY <1>3 DEF BootInv, Whole, Matches

\* A page of a module holds that page of what the module is.
LEMMA PageIs ==
  ASSUME NEW mod, IsModule(mod), Holds(mod, mem), NEW p \in Nat, p < mod.pages
  PROVE  Page(mod.start + p) = <<Last(mod.words), p>>
<1>1. mod.start + p \in Pages(mod.start, mod.pages) /\ (mod.start + p) - mod.start = p
  BY DEF IsModule, Pages
<1> QED BY <1>1 DEF Holds, Page

LEMMA HeldIs ==
  ASSUME NEW mod, IsModule(mod), Holds(mod, mem), NEW pos \in Nat, NEW n \in Nat, pos + n <= mod.pages, NEW data,
         data = [i \in 1..n |-> Page(mod.start + pos + i - 1)]
  PROVE  data = Held(Last(mod.words), pos, n)
<1>1. ASSUME NEW i \in 1..n
      PROVE  Page(mod.start + pos + i - 1) = <<Last(mod.words), pos + i - 1>>
  <2>1. pos + i - 1 \in Nat /\ pos + i - 1 < mod.pages /\ mod.start + pos + i - 1 = mod.start + (pos + i - 1)
    BY DEF IsModule
  <2> QED BY <2>1, PageIs
<1> QED BY <1>1 DEF Held

\* The loader's own driver.
MuRight ==
  /\ mu = [open |-> mu.open, pos |-> mu.pos, got |-> mu.got, asked |-> mu.asked]
  /\ at \in AsLoaded \cup {"preload"} => mu.open = None
  /\ mu.open # None => /\ \E i \in DOMAIN mods : mu.open.mod = mods[i]
                       /\ Last(mu.open.mod.words) = mu.open.name
  /\ mu.got # None => mu.got.data = Held(mu.got.name, mu.got.pos, Len(mu.got.data))

LEMMA UfsReadIs ==
  ASSUME BootInv, NEW mod, IsModule(mod), Holds(mod, mem), NEW pos \in Nat, NEW len \in Nat
  PROVE  ufs_read(mod, pos, len) = Held(Last(mod.words), pos, Len(ufs_read(mod, pos, len)))
<1>1. CASE pos > mod.pages
  <2>1. ufs_read(mod, pos, len) = <<>> /\ Len(<<>>) = 0
    BY <1>1 DEF ufs_read
  <2>2. Held(Last(mod.words), pos, 0) = <<>>
    BY DEF Held
  <2> QED BY <2>1, <2>2
<1>2. CASE ~ (pos > mod.pages)
  <2> DEFINE n == IF mod.pages - pos < len THEN mod.pages - pos ELSE len
             data == [i \in 1..n |-> Page(mod.start + pos + i - 1)]
  <2>1. ufs_read(mod, pos, len) = data
    BY <1>2 DEF ufs_read
  <2>2. n \in Nat /\ pos + n <= mod.pages
    BY <1>2 DEF IsModule
  <2> HIDE DEF n
  <2>3. data = Held(Last(mod.words), pos, n)
    BY <2>2, HeldIs
  <2>4. Len(data) = n
    BY <2>2, ListOfFunction
  <2> QED BY <2>1, <2>3, <2>4
<1> QED BY <1>1, <1>2

LEMMA MuInit == Init => MuRight
BY DEF Init, MuRight

LEMMA MuStep == ASSUME BootInv, MuRight, BootNext PROVE MuRight'
<1>1. ASSUME UNCHANGED mu, at' \in AsLoaded \cup {"preload"} => at \in AsLoaded \cup {"preload"},
             UNCHANGED mods \/ at \in AsLoaded \cup {"preload"}
      PROVE  MuRight'
  BY <1>1 DEF MuRight, Held
<1>2. CASE bootos2_cmain \/ AssignLetters \/ PatchConfig \/ editor \/ Preload \/ mbi_reloc
  <2>1. UNCHANGED mu /\ (at' \in AsLoaded \cup {"preload"} => at \in AsLoaded \cup {"preload"})
    BY <1>2 DEF bootos2_cmain, AssignLetters, PatchConfig, editor, Preload, mbi_reloc, LoadModules, AsLoaded
  <2>2. UNCHANGED mods \/ at \in AsLoaded \cup {"preload"}
    BY <1>2 DEF bootos2_cmain, AssignLetters, PatchConfig, editor, Preload, mbi_reloc, AsLoaded
  <2> QED BY <1>1, <2>1, <2>2
<1>3. CASE LoadOs2ldr
  <2> DEFINE name == <<"", "os2ldr">>
             file == ufs_open(name)
             data == ufs_read(file, 0, file.pages)
             got == [name |-> name, pos |-> 0, data |-> data]
  <2>1. at = "load" /\ UNCHANGED mods
    BY <1>3 DEF LoadOs2ldr
  <2>2. CASE at' = "halted" /\ UNCHANGED mu
    BY <1>1, <2>1, <2>2 DEF AsLoaded
  <2>3. CASE /\ file # None /\ at' = "os2ldr" /\ mu' = [mu EXCEPT !.got = got]
    <3>1. Matches(name) # {}
      BY <2>3 DEF ufs_open
    <3>2. Last(file.words) = name /\ IsModule(file) /\ Holds(file, mem) /\ file.pages \in Nat
      BY <3>1, FileIs DEF IsModule
    <3> HIDE DEF file
    <3>3. data = Held(name, 0, Len(data))
      BY <3>2, UfsReadIs
    <3> HIDE DEF data, name
    <3>4. got.data = Held(got.name, got.pos, Len(got.data))
      BY <3>3
    <3> HIDE DEF got
    <3>5. mu' = [open |-> mu.open, pos |-> mu.pos, got |-> got, asked |-> mu.asked]
      BY <2>3 DEF MuRight
    <3> QED BY <2>1, <2>3, <3>4, <3>5 DEF MuRight, Held, AsLoaded
  <2> QED BY <1>3, <2>2, <2>3 DEF LoadOs2ldr
<1>4. CASE MuOpen
  <2>1. at = "os2ldr" /\ at' = at /\ UNCHANGED <<mods, mem>>
    BY <1>4 DEF MuOpen
  <2>2. PICK name : mu' = [mu EXCEPT !.open = IF ufs_open(name) = None THEN @ ELSE [mod |-> ufs_open(name), name |-> name],
                                     !.pos = IF ufs_open(name) = None THEN @ ELSE 0, !.asked = @ + 1]
    BY <1>4 DEF MuOpen
  <2> DEFINE open == IF ufs_open(name) = None THEN mu.open ELSE [mod |-> ufs_open(name), name |-> name]
             pos == IF ufs_open(name) = None THEN mu.pos ELSE 0
  <2>3. mu' = [open |-> open, pos |-> pos, got |-> mu.got, asked |-> mu.asked + 1]
    BY <2>2 DEF MuRight
  <2>4. ufs_open(name) # None => Matches(name) # {}
    BY DEF ufs_open
  <2>5. open # None => (\E i \in DOMAIN mods : open.mod = mods[i]) /\ Last(open.mod.words) = open.name
    BY <2>4, FileIs DEF MuRight
  <2> HIDE DEF open, pos
  <2> QED BY <2>1, <2>3, <2>5 DEF MuRight, Held, AsLoaded
<1>5. CASE MuRead
  <2>1. at = "os2ldr" /\ at' = at /\ UNCHANGED <<mods, mem>> /\ mu.open # None
    BY <1>5 DEF MuRead
  <2>2. PICK off \in 0..2, len \in 0..1 :
          LET data == ufs_read(mu.open.mod, off, IF len = 0 THEN mu.open.mod.pages ELSE len) IN
          mu' = [mu EXCEPT !.pos = off + Len(data), !.asked = @ + 1, !.got = [name |-> mu.open.name, pos |-> off, data |-> data]]
    BY <1>5 DEF MuRead
  <2> DEFINE n == IF len = 0 THEN mu.open.mod.pages ELSE len
             data == ufs_read(mu.open.mod, off, n)
             got == [name |-> mu.open.name, pos |-> off, data |-> data]
  <2>3. IsModule(mu.open.mod) /\ Holds(mu.open.mod, mem) /\ Last(mu.open.mod.words) = mu.open.name
    BY <2>1 DEF MuRight, BootInv, Whole
  <2>4. n \in Nat /\ off \in Nat
    BY <2>3 DEF IsModule
  <2>5. mu' = [open |-> mu.open, pos |-> off + Len(data), got |-> got, asked |-> mu.asked + 1]
    BY <2>2 DEF MuRight
  <2> HIDE DEF n
  <2>6. data = Held(mu.open.name, off, Len(data))
    BY <2>3, <2>4, UfsReadIs
  <2> HIDE DEF data
  <2> QED BY <2>1, <2>5, <2>6 DEF MuRight, Held, AsLoaded
<1>6. CASE StartKernel
  BY <1>6 DEF StartKernel, MuRight, AsLoaded
<1> QED BY <1>2, <1>3, <1>4, <1>5, <1>6 DEF BootNext


\* The kernel's driver: selectors, and the variables all files share.
IsTable(t) == t = [i \in 1..boot.selectors |-> t[i]]
Fields == {"filepos", "filemax", "filebase", "sel", "sel1", "mods_sel", "drvletter", "remotefs", "ramdisk", "file"}
IsGlobals(v) == DOMAIN v = Fields
Points(v, t) == v.sel1 \in 1..boot.selectors /\ t[v.sel1] = v.filebase + v.filepos

LEMMA SelectorsAre == boot \in Boots => boot.selectors \in Nat
BY NamesAssumption

LEMMA MapIs ==
  ASSUME boot \in Boots, NEW t, IsTable(t), Free(t) # {}, NEW page
  PROVE  LET s == Lowest(Free(t)) IN
         /\ s \in 1..boot.selectors /\ t[s] = None /\ IsTable(Map(t, page))
         /\ \A i \in 1..boot.selectors : Map(t, page)[i] = IF i = s THEN page ELSE t[i]
<1> DEFINE s == Lowest(Free(t))
<1>1. Free(t) \in SUBSET Nat
  BY SelectorsAre DEF Free
<1>2. s \in 1..boot.selectors /\ t[s] = None
  <2>1. s \in Free(t)
    BY <1>1, HasLowest
  <2> QED BY <2>1 DEF Free
<1>3. Map(t, page) = [t EXCEPT ![s] = page]
  BY DEF Map
<1> HIDE DEF s
<1>4. IsTable(Map(t, page)) /\ \A i \in 1..boot.selectors : Map(t, page)[i] = IF i = s THEN page ELSE t[i]
  BY <1>2, <1>3 DEF IsTable
<1> QED BY <1>2, <1>4 DEF s

LEMMA UnmapIs ==
  ASSUME NEW t, NEW s
  PROVE  IsTable(Unmap(t, s)) /\ \A i \in 1..boot.selectors : Unmap(t, s)[i] = IF i = s THEN None ELSE t[i]
BY DEF Unmap, IsTable

\* The selector is given up, so one can be had.
LEMMA AdvanceIs ==
  ASSUME boot \in Boots, NEW t, NEW v, IsGlobals(v), v.sel1 \in 1..boot.selectors
  PROVE  LET r == advance_ptr(t, v) IN
         /\ IsTable(r.sels) /\ IsGlobals(r.g) /\ Points(r.g, r.sels)
         /\ r.g.filepos = v.filepos /\ r.g.filemax = v.filemax /\ r.g.filebase = v.filebase /\ r.g.file = v.file
<1> DEFINE freed == Unmap(t, v.sel1)
           s == Lowest(Free(freed))
           page == v.filebase + v.filepos
           sels_ == Map(freed, page)
           new == [v EXCEPT !.sel1 = s]
<1>1. IsTable(freed) /\ freed[v.sel1] = None
  BY UnmapIs
<1>2. Free(freed) # {}
  BY <1>1 DEF Free
<1>3. advance_ptr(t, v) = [sels |-> sels_, g |-> new]
  BY DEF advance_ptr
<1> HIDE DEF freed
<1>4. s \in 1..boot.selectors /\ IsTable(sels_) /\ sels_[s] = page
  BY <1>1, <1>2, MapIs
<1> HIDE DEF s, sels_
<1>5. /\ IsGlobals(new) /\ new.sel1 = s
      /\ new.filepos = v.filepos /\ new.filemax = v.filemax /\ new.filebase = v.filebase /\ new.file = v.file
  BY DEF IsGlobals, Fields
<1> HIDE DEF new
<1>6. IsGlobals(new) /\ Points(new, sels_)
  BY <1>4, <1>5 DEF Points
<1> QED BY <1>3, <1>4, <1>5, <1>6

LEMMA FreeIs ==
  ASSUME boot \in Boots, NEW t
  PROVE  /\ IsFiniteSet(Free(t)) /\ Cardinality(Free(t)) \in Nat
         /\ Cardinality(Free(t)) = 0 <=> Free(t) = {}
<1>1. IsFiniteSet(1..boot.selectors) /\ Free(t) \in SUBSET (1..boot.selectors)
  BY SelectorsAre, FS_Interval DEF Free
<1>2. IsFiniteSet(Free(t))
  BY <1>1, FS_Subset
<1> QED BY <1>2, FS_CardinalityType, FS_EmptySet

\* Each selector that is had is one less.
LEMMA MapTakesOne ==
  ASSUME boot \in Boots, NEW t, IsTable(t), Cardinality(Free(t)) > 0, NEW page, page # None
  PROVE  IsTable(Map(t, page)) /\ Cardinality(Free(Map(t, page))) = Cardinality(Free(t)) - 1
<1>1. Free(t) # {}
  BY FreeIs
<1> DEFINE s == Lowest(Free(t))
<1>2. /\ s \in 1..boot.selectors /\ t[s] = None /\ IsTable(Map(t, page))
      /\ \A i \in 1..boot.selectors : Map(t, page)[i] = IF i = s THEN page ELSE t[i]
  BY <1>1, MapIs
<1> HIDE DEF s
<1>3. Free(Map(t, page)) = Free(t) \ {s} /\ s \in Free(t)
  BY <1>2 DEF Free
<1> QED BY <1>2, <1>3, FreeIs, FS_RemoveElement

\* A file that is opened has a selector that points at it, behind those for the
\* MBI and the list.
LEMMA OpenedIs ==
  ASSUME BootInv, IsTable(sels), IsGlobals(g), NEW name
  PROVE  LET o == Opened(name) IN
         /\ IsTable(o.sels) /\ IsGlobals(o.g) /\ o.g.file = g.file
         /\ o.g.sel1 = g.sel1 \/ o.g.sel1 \in 1..boot.selectors
         /\ o.ok => /\ Points(o.g, o.sels) /\ o.g.filepos = 0 /\ o.g.filemax \in Nat
                    /\ IsFile(name, o.g.filemax, o.g.filebase)
<1> DEFINE n == Cardinality(Free(sels))
           there == n > 2 /\ Matches(name) # {}
           one == Map(sels, mbi_place)
           two == Map(one, mbi_place)
           a == Lowest(Free(sels))
           b == Lowest(Free(one))
           c == Lowest(Free(two))
           file == ufs_open(name)
           had == [g EXCEPT !.sel = a, !.mods_sel = b, !.sel1 = c]
           g1 == [g EXCEPT !.sel = a]
           g2 == [g EXCEPT !.sel = a, !.mods_sel = b]
           v == [had EXCEPT !.filepos = 0, !.filemax = file.pages, !.filebase = file.start]
           o == Opened(name)
<1>1. boot \in Boots /\ mbi_place # None
  <2>1. Last(mods) = mods[Len(mods)] /\ Len(mods) \in DOMAIN mods /\ IsModule(mods[Len(mods)])
    BY ListIs DEF BootInv, Whole
  <2>2. mbi_place \in Nat
    BY <2>1, EndIs DEF mbi_place
  <2> QED BY <2>2, NoneAssumption DEF BootInv
<1>2. /\ o.ok <=> there
      /\ o.sels = CASE n = 0 -> sels [] n = 1 -> one [] n > 1 /\ ~there -> two [] there -> Map(two, file.start)
      /\ o.g = CASE n = 0 -> g [] n = 1 -> g1 [] n = 2 -> g2 [] n > 2 /\ ~there -> had [] there -> v
  BY DEF Opened
<1>3. n \in Nat
  BY <1>1, FreeIs
<1>4. n > 0 => IsTable(one) /\ Cardinality(Free(one)) = n - 1
  BY <1>1, MapTakesOne
<1>5. n > 1 => IsTable(two) /\ Cardinality(Free(two)) = n - 2
  <2>1. n > 1 => n > 0 /\ n - 1 > 0 /\ (n - 1) - 1 = n - 2
    BY <1>3
  <2> QED BY <1>1, <1>4, <2>1, MapTakesOne
<1>6. n > 2 => /\ c \in 1..boot.selectors
               /\ \A page : IsTable(Map(two, page)) /\ Map(two, page)[c] = page
  <2>1. n > 2 => n > 1 /\ n - 2 # 0
    BY <1>3
  <2>2. n > 2 => Free(two) # {}
    BY <1>1, <1>5, <2>1, FreeIs
  <2> QED BY <1>1, <1>5, <2>1, <2>2, MapIs
<1> HIDE DEF a, b, c, file
<1>7. /\ IsGlobals(g1) /\ g1.file = g.file /\ g1.sel1 = g.sel1
      /\ IsGlobals(g2) /\ g2.file = g.file /\ g2.sel1 = g.sel1
  BY DEF IsGlobals, Fields
<1>8. IsGlobals(had) /\ had.file = g.file /\ had.sel1 = c
  BY DEF IsGlobals, Fields
<1> HIDE DEF had
<1>9. /\ IsGlobals(v) /\ v.file = g.file /\ v.sel1 = c /\ v.filepos = 0 /\ v.filemax = file.pages
      /\ v.filebase = file.start
  BY <1>8 DEF IsGlobals, Fields
<1> HIDE DEF n, one, two, g1, g2, had, v, o
<1>10. CASE n = 0
  BY <1>2, <1>10 DEF o
<1>11. CASE n = 1
  <2>1. o.sels = one /\ ~ o.ok /\ o.g = g1
    BY <1>2, <1>11
  <2> QED BY <1>4, <1>7, <1>11, <2>1 DEF o
<1>12. CASE n = 2
  <2>1. o.sels = two /\ ~ o.ok /\ o.g = g2
    BY <1>2, <1>12
  <2> QED BY <1>5, <1>7, <1>12, <2>1 DEF o
<1>13. CASE n > 2 /\ ~ there
  <2>1. o.sels = two /\ ~ o.ok /\ o.g = had
    BY <1>2, <1>3, <1>13
  <2> QED BY <1>3, <1>5, <1>6, <1>8, <1>13, <2>1 DEF o
<1>14. CASE there
  <2>1. o.sels = Map(two, file.start) /\ o.ok /\ o.g = v
    BY <1>2, <1>3, <1>14
  <2>2. IsModule(file)
    BY <1>14, FileIs DEF file
  <2>3. IsFile(name, v.filemax, v.filebase)
    BY <1>9, <1>14 DEF IsFile, file
  <2>4. Points(v, o.sels) /\ IsTable(o.sels)
    BY <1>6, <1>9, <1>14, <2>1, <2>2 DEF Points, IsModule
  <2> QED BY <1>6, <1>9, <1>14, <2>1, <2>2, <2>3, <2>4 DEF o, IsModule
<1> QED
  <2>1. n = 0 \/ n = 1 \/ n = 2 \/ n > 2
    BY <1>3
  <2> QED BY <1>10, <1>11, <1>12, <1>13, <1>14, <2>1

\* What is delivered is the file's, from the position on.
FileRead(r) ==
  r.name # None /\ r.name # Drive =>
    r.data = Held(r.name, r.pos, Min2(r.len, ufs_open(r.name).pages - r.pos))
DriveRead(r) ==
  r.name = Drive /\ r.pos % SecSize = 0 => r.data = [i \in 1..(r.len - (r.len % SecSize)) |-> r.pos + i - 1]
LastRight == FileRead(last) /\ DriveRead(last)

LEMMA NothingRead == FileRead(NoFile) /\ DriveRead(NoFile)
<1>1. 0 - (0 % SecSize) = 0
  BY SizesAssumption
<1>2. [i \in 1..0 |-> 0 + i - 1] = <<>>
  OBVIOUS
<1> QED BY <1>1, <1>2 DEF FileRead, DriveRead, NoFile

LEMMA ReadAtIs ==
  ASSUME BootInv, NEW t, IsTable(t), NEW v, IsGlobals(v), Points(v, t), NEW name, name # Drive,
         IsFile(name, v.filemax, v.filebase), v.filepos \in Nat, NEW len \in Nat
  PROVE  LET r == MfsReadAt(t, v, len, name) IN
         /\ IsTable(r.sels) /\ IsGlobals(r.g) /\ Points(r.g, r.sels)
         /\ r.g.filemax = v.filemax /\ r.g.filebase = v.filebase /\ r.g.file = v.file /\ r.g.filepos \in Nat
         /\ FileRead(r.last) /\ DriveRead(r.last)
<1> DEFINE file == ufs_open(name)
           n == Chunk(v, len)
           next == [v EXCEPT !.filepos = @ + n]
           moved == advance_ptr(t, next)
           data == [i \in 1..n |-> IF v.sel1 = 0 \/ t[v.sel1] = None THEN None ELSE Page(t[v.sel1] + i - 1)]
           r == MfsReadAt(t, v, len, name)
<1>1. /\ boot \in Boots /\ boot.selectors \in Nat /\ IsModule(file) /\ Holds(file, mem) /\ Last(file.words) = name
      /\ v.filemax = file.pages /\ v.filebase = file.start
  BY FileIs, SelectorsAre DEF IsFile, BootInv
<1> HIDE DEF file
<1>2. CASE v.filepos > v.filemax
  <2>1. r = [sels |-> t, g |-> v, last |-> NoFile]
    BY <1>2 DEF MfsReadAt
  <2> QED BY <2>1, NothingRead
<1>3. CASE ~ (v.filepos > v.filemax)
  <2>1. r = [sels |-> moved.sels, g |-> moved.g, last |-> [name |-> name, pos |-> v.filepos, len |-> len, data |-> data]]
    BY <1>3 DEF MfsReadAt
  <2>2. n \in Nat /\ n = Min2(len, file.pages - v.filepos) /\ v.filepos + n <= file.pages
    BY <1>1, <1>3 DEF Chunk, Min2, IsModule
  <2> HIDE DEF n
  <2>3. /\ IsGlobals(next) /\ next.sel1 = v.sel1 /\ next.filepos = v.filepos + n
        /\ next.filemax = v.filemax /\ next.filebase = v.filebase /\ next.file = v.file
    BY DEF IsGlobals, Fields
  <2> HIDE DEF next
  <2>4. next.sel1 \in 1..boot.selectors
    BY <2>3 DEF Points
  <2>5. /\ IsTable(moved.sels) /\ IsGlobals(moved.g) /\ Points(moved.g, moved.sels)
        /\ moved.g.filepos = v.filepos + n /\ moved.g.filemax = v.filemax /\ moved.g.filebase = v.filebase /\ moved.g.file = v.file
    BY <1>1, <2>3, <2>4, AdvanceIs
  <2>6. v.sel1 # 0 /\ t[v.sel1] = file.start + v.filepos /\ t[v.sel1] # None
    BY <1>1, NoneAssumption DEF Points, IsModule
  <2>7. data = [i \in 1..n |-> Page(file.start + v.filepos + i - 1)]
    BY <2>6
  <2> HIDE DEF data, moved
  <2>8. data = Held(name, v.filepos, n)
    BY <1>1, <2>2, <2>7, HeldIs
  <2>9. FileRead(r.last) /\ DriveRead(r.last)
    BY <2>1, <2>2, <2>8 DEF FileRead, DriveRead, file
  <2> QED BY <2>1, <2>2, <2>5, <2>9
<1> QED BY <1>2, <1>3

\* A handle that is open is of the drive, or has its file's size and place.
Right(r, v) ==
  r.open => /\ r.direct <=> r.name = Drive
            /\ r.position \in Nat /\ r.size \in Nat
            /\ ~ r.direct => IsFile(r.name, r.size, r.base) /\ v.sel1 \in 1..boot.selectors
OneFile ==
  stage = "mfs" /\ g.file # None =>
    Points(g, sels) /\ IsFile(g.file, g.filemax, g.filebase) /\ g.filepos \in Nat /\ g.file # Drive
AllWritten ==
  stage = "ifs" /\ g.ramdisk =>
    \A i \in DOMAIN mods : ifs.files[i].data = Held(Last(mods[i].words), 0, mods[i].pages)
ReadInv ==
  /\ IsTable(sels) /\ IsGlobals(g)
  /\ stage = "none" => last = NoFile /\ g.file = None
  /\ OneFile
  /\ stage = "fs" => \A h \in Handles : Right(hands[h], g)
  /\ LastRight /\ AllWritten

\* What speaks of the modules speaks of the same ones while the kernel runs.
LEMMA SameModules ==
  ASSUME UNCHANGED bvars
  PROVE  /\ \A name, size, base : IsFile(name, size, base)' <=> IsFile(name, size, base)
         /\ \A v, t : Points(v, t)' <=> Points(v, t)
         /\ \A t : IsTable(t)' <=> IsTable(t)
         /\ \A r, v : Right(r, v)' <=> Right(r, v)
         /\ \A r : (FileRead(r)' <=> FileRead(r)) /\ (DriveRead(r)' <=> DriveRead(r))
         /\ boot' = boot /\ mods' = mods /\ mem' = mem
<1>1. boot' = boot /\ mods' = mods /\ mem' = mem
  BY DEF bvars
<1>2. \A name : Matches(name)' = Matches(name) /\ ufs_open(name)' = ufs_open(name)
  BY <1>1 DEF Matches, ufs_open
<1>3. \A name, size, base : IsFile(name, size, base)' <=> IsFile(name, size, base)
  BY <1>2 DEF IsFile
<1>4. \A v, t : Points(v, t)' <=> Points(v, t)
  BY <1>1 DEF Points
<1>5. \A t : IsTable(t)' <=> IsTable(t)
  BY <1>1 DEF IsTable
<1>6. \A r, v : Right(r, v)' <=> Right(r, v)
  BY <1>1, <1>3 DEF Right
<1>7. \A r : (FileRead(r)' <=> FileRead(r)) /\ (DriveRead(r)' <=> DriveRead(r))
  BY <1>2 DEF FileRead, DriveRead, Held
<1> QED BY <1>1, <1>3, <1>4, <1>5, <1>6, <1>7

LEMMA MapTable == ASSUME NEW t, IsTable(t), NEW page PROVE IsTable(Map(t, page))
BY DEF IsTable, Map

LEMMA ReadInit == MInit => ReadInv
<1> SUFFICES ASSUME MInit PROVE ReadInv
  OBVIOUS
<1>1. stage = "none" /\ sels = NoSelectors /\ g = NoGlobals /\ last = NoFile
  BY Zenon DEF MInit, FsdInit
<1>2. IsTable(NoSelectors) /\ IsGlobals(NoGlobals) /\ NoGlobals.file = None
  BY DEF IsTable, NoSelectors, IsGlobals, NoGlobals, Fields
<1> QED BY <1>1, <1>2, NothingRead DEF ReadInv, OneFile, LastRight, AllWritten

\* The steps before the kernel's, and those with which it stops.
LEMMA BootReads == ASSUME ReadInv, Kept, BootNext, UNCHANGED fvars PROVE ReadInv'
<1>1. stage = "none" /\ UNCHANGED <<stage, sels, g, hands, last>> /\ boot' = boot
  <2>1. at # "kernel" /\ boot' = boot
    BY Zenon DEF BootNext, bootos2_cmain, AssignLetters, PatchConfig, editor, Preload, mbi_reloc, LoadOs2ldr, MuOpen,
                 MuRead, StartKernel
  <2> QED BY <2>1 DEF Kept, Placed, fvars
<1>2. last = NoFile /\ g.file = None /\ IsTable(sels)' /\ IsGlobals(g)'
  BY <1>1 DEF ReadInv, IsTable, IsGlobals, Fields
<1>3. LastRight'
  <2>1. 0 - (0 % SecSize) = 0
    BY SizesAssumption
  <2>2. [i \in 1..0 |-> 0 + i - 1] = <<>>
    OBVIOUS
  <2> QED BY <1>1, <1>2, <2>1, <2>2 DEF LastRight, FileRead, DriveRead, NoFile
<1> QED BY <1>1, <1>2, <1>3 DEF ReadInv, OneFile, AllWritten

LEMMA StopReads == ASSUME Stopped, UNCHANGED bvars PROVE ReadInv'
<1>1. stage' = "dead" /\ sels' = NoSelectors /\ g' = NoGlobals /\ last' = NoFile
  BY Zenon DEF Stopped
<1>2. IsTable(NoSelectors) /\ IsGlobals(NoGlobals) /\ NoGlobals.file = None /\ NoGlobals.ramdisk = FALSE
  BY DEF IsTable, NoSelectors, IsGlobals, NoGlobals, Fields
<1>3. IsTable(sels') /\ IsGlobals(g') /\ FileRead(last') /\ DriveRead(last')
  BY <1>1, <1>2, NothingRead
<1>4. IsTable(sels)' /\ IsGlobals(g)' /\ FileRead(last)' /\ DriveRead(last)'
  BY <1>3, SameModules DEF IsGlobals, Fields
<1> QED BY <1>1, <1>4 DEF ReadInv, OneFile, LastRight, AllWritten

\* A step of FS_* after which every handle is right.
LEMMA FsReads ==
  ASSUME UNCHANGED bvars, stage' = "fs", IsTable(sels'), IsGlobals(g'), FileRead(last'), DriveRead(last'),
         \A h \in Handles : Right(hands'[h], g')
  PROVE  ReadInv'
<1>1. IsTable(sels)' /\ IsGlobals(g)' /\ FileRead(last)' /\ DriveRead(last)' /\ \A h \in Handles : Right(hands[h], g)'
  BY SameModules DEF IsGlobals, Fields
<1> QED BY <1>1 DEF ReadInv, OneFile, LastRight, AllWritten

\* A step of MFS_* after which the one file is right.
LEMMA MfsReads ==
  ASSUME UNCHANGED bvars, stage' = "mfs", IsTable(sels'), IsGlobals(g'), FileRead(last'), DriveRead(last'),
         g'.file # None =>
           Points(g', sels') /\ IsFile(g'.file, g'.filemax, g'.filebase) /\ g'.filepos \in Nat /\ g'.file # Drive
  PROVE  ReadInv'
<1>1. IsTable(sels)' /\ IsGlobals(g)' /\ FileRead(last)' /\ DriveRead(last)'
  BY SameModules DEF IsGlobals, Fields
<1>2. g'.file # None => Points(g, sels)' /\ IsFile(g.file, g.filemax, g.filebase)'
  BY SameModules
<1> QED BY <1>1, <1>2 DEF ReadInv, OneFile, LastRight, AllWritten, Drive

LEMMA MfsInitReads == ASSUME ReadInv, MfsInit PROVE ReadInv'
<1>1. UNCHANGED bvars /\ stage = "none"
  BY DEF MfsInit
<1>2. CASE Stopped
  BY <1>1, <1>2, StopReads
<1>3. CASE ~ Stopped
  <2> DEFINE v == [g EXCEPT !.sel = 1, !.mods_sel = 2, !.drvletter = FirstOption,
                            !.ramdisk = boot.ramdisk, !.remotefs = boot.ramdisk]
  <2>1. stage' = "mfs" /\ sels' = Map(Map(sels, mbi_place), mbi_place) /\ g' = v /\ last' = last
    BY <1>3 DEF MfsInit
  <2>2. IsTable(sels) /\ IsGlobals(g) /\ last = NoFile /\ g.file = None
    BY <1>1 DEF ReadInv
  <2>3. IsGlobals(v) /\ v.file = None
    BY <2>2 DEF IsGlobals, Fields
  <2> HIDE DEF v
  <2>4. IsTable(sels')
    BY <2>1, <2>2, MapTable
  <2>5. FileRead(last') /\ DriveRead(last')
    BY <2>1, <2>2, NothingRead
  <2> QED BY <1>1, <2>1, <2>3, <2>4, <2>5, MfsReads
<1> QED BY <1>2, <1>3

LEMMA MfsOpenReads == ASSUME BootInv, ReadInv, MfsOpen PROVE ReadInv'
<1>1. UNCHANGED bvars /\ stage = "mfs" /\ stage' = "mfs" /\ g.file = None
  BY DEF MfsOpen
<1>2. PICK name \in boot.names : MfsOpenInto(Opened(name), name)
  BY DEF MfsOpen
<1> DEFINE o == Opened(name)
           v == [o.g EXCEPT !.file = name]
<1>3. sels' = o.sels /\ g' = (IF o.ok THEN v ELSE o.g) /\ last' = NoFile
  BY <1>2 DEF MfsOpenInto
<1>4. name # Drive
  BY NamesAssumption DEF BootInv
<1>5. /\ IsTable(o.sels) /\ IsGlobals(o.g) /\ o.g.file = g.file
      /\ o.ok => /\ Points(o.g, o.sels) /\ o.g.filepos = 0 /\ o.g.filemax \in Nat
                 /\ IsFile(name, o.g.filemax, o.g.filebase)
  BY OpenedIs DEF ReadInv
<1> HIDE DEF o
<1>6. /\ IsGlobals(v) /\ v.file = name /\ v.sel1 = o.g.sel1 /\ v.filepos = o.g.filepos /\ v.filemax = o.g.filemax
      /\ v.filebase = o.g.filebase
  BY <1>5 DEF IsGlobals, Fields
<1> HIDE DEF v
<1>7. Points(v, o.sels) <=> Points(o.g, o.sels)
  BY <1>6 DEF Points
<1>8. FileRead(last') /\ DriveRead(last')
  BY <1>3, NothingRead
<1>9. CASE o.ok
  BY <1>1, <1>3, <1>4, <1>5, <1>6, <1>7, <1>8, <1>9, MfsReads
<1>10. CASE ~ o.ok
  BY <1>1, <1>3, <1>5, <1>8, <1>10, MfsReads
<1> QED BY <1>9, <1>10

LEMMA MfsReadReads == ASSUME BootInv, ReadInv, MfsRead PROVE ReadInv'
<1>1. UNCHANGED bvars /\ stage = "mfs" /\ stage' = "mfs" /\ g.file # None
  BY DEF MfsRead
<1>2. PICK len \in 1..2 : MfsReadInto(MfsReadAt(sels, g, len, g.file))
  BY DEF MfsRead
<1> DEFINE r == MfsReadAt(sels, g, len, g.file)
<1>3. sels' = r.sels /\ g' = r.g /\ last' = r.last
  BY <1>2 DEF MfsReadInto
<1>4. /\ IsTable(sels) /\ IsGlobals(g) /\ Points(g, sels) /\ IsFile(g.file, g.filemax, g.filebase)
      /\ g.filepos \in Nat /\ g.file # Drive /\ len \in Nat
  BY <1>1 DEF ReadInv, OneFile
<1>5. /\ IsTable(r.sels) /\ IsGlobals(r.g) /\ Points(r.g, r.sels)
      /\ r.g.filemax = g.filemax /\ r.g.filebase = g.filebase /\ r.g.file = g.file /\ r.g.filepos \in Nat
      /\ FileRead(r.last) /\ DriveRead(r.last)
  BY <1>4, ReadAtIs
<1> HIDE DEF r
<1> QED BY <1>1, <1>3, <1>4, <1>5, MfsReads

LEMMA MfsMoveReads == ASSUME BootInv, ReadInv, MfsChgFilePtr PROVE ReadInv'
<1>1. UNCHANGED bvars /\ stage = "mfs" /\ stage' = "mfs" /\ g.file # None /\ last' = NoFile
  BY DEF MfsChgFilePtr
<1>2. PICK offset_ \in {0 - 1, 0, 1}, type \in 0..2 :
        /\ InReach(PositionAfter(g.filepos, g.filemax, offset_, type), g.filemax)
        /\ LET moved == advance_ptr(sels, [g EXCEPT !.filepos = PositionAfter(g.filepos, g.filemax, offset_, type)])
           IN sels' = moved.sels /\ g' = moved.g
  BY Zenon DEF MfsChgFilePtr
<1> DEFINE pos == PositionAfter(g.filepos, g.filemax, offset_, type)
           v == [g EXCEPT !.filepos = pos]
           r == advance_ptr(sels, v)
<1>3. sels' = r.sels /\ g' = r.g
  BY <1>2
<1>4. /\ boot \in Boots /\ IsGlobals(g) /\ Points(g, sels) /\ IsFile(g.file, g.filemax, g.filebase)
      /\ g.filepos \in Nat /\ g.file # Drive
  BY <1>1 DEF ReadInv, OneFile, BootInv
<1>5. g.filemax \in Nat
  BY <1>4, FileIs DEF IsFile, IsModule
<1>6. pos \in Nat
  <2>1. pos \in Int
    BY <1>4, <1>5 DEF PositionAfter
  <2> QED BY <1>2, <2>1 DEF InReach
<1> HIDE DEF pos
<1>7. /\ IsGlobals(v) /\ v.sel1 = g.sel1 /\ v.filepos = pos /\ v.filemax = g.filemax
      /\ v.filebase = g.filebase /\ v.file = g.file
  BY <1>4 DEF IsGlobals, Fields
<1> HIDE DEF v
<1>8. v.sel1 \in 1..boot.selectors
  BY <1>4, <1>7 DEF Points
<1>9. /\ IsTable(r.sels) /\ IsGlobals(r.g) /\ Points(r.g, r.sels)
      /\ r.g.filepos = pos /\ r.g.filemax = g.filemax /\ r.g.filebase = g.filebase /\ r.g.file = g.file
  BY <1>4, <1>7, <1>8, AdvanceIs
<1> HIDE DEF r
<1> QED BY <1>1, <1>3, <1>4, <1>6, <1>9, NothingRead, MfsReads

LEMMA MfsCloseReads == ASSUME BootInv, ReadInv, MfsClose PROVE ReadInv'
<1> DEFINE v == [g EXCEPT !.file = None]
<1>1. /\ UNCHANGED bvars /\ stage' = "mfs" /\ last' = NoFile
      /\ g' = v /\ sels' = Unmap(Unmap(sels, g.sel1), g.sel)
  BY DEF MfsClose
<1>2. IsGlobals(v) /\ v.file = None
  BY DEF ReadInv, IsGlobals, Fields
<1> HIDE DEF v
<1>3. IsTable(sels')
  BY <1>1, UnmapIs
<1> QED BY <1>1, <1>2, <1>3, NothingRead, MfsReads

LEMMA FsInitReads == ASSUME ReadInv, FsInit PROVE ReadInv'
<1>1. UNCHANGED bvars /\ stage' = "init" /\ UNCHANGED <<sels, g, last>>
  BY DEF FsInit
<1>2. IsTable(sels') /\ IsGlobals(g)' /\ FileRead(last') /\ DriveRead(last')
  BY <1>1 DEF ReadInv, LastRight, IsGlobals, Fields
<1>3. IsTable(sels)' /\ FileRead(last)' /\ DriveRead(last)'
  BY <1>1, <1>2, SameModules
<1> QED BY <1>1, <1>2, <1>3 DEF ReadInv, OneFile, LastRight, AllWritten

LEMMA FsMountReads == ASSUME Kept, ReadInv, FsMount PROVE ReadInv'
<1>1. CASE Stopped
  BY <1>1, StopReads DEF FsMount
<1>2. CASE ~ Stopped
  <2>1. UNCHANGED bvars /\ stage = "init" /\ stage' = "fs" /\ UNCHANGED <<sels, g, hands, last>>
    BY <1>2 DEF FsMount
  <2>2. \A h \in Handles : Right(hands'[h], g')
    BY <2>1 DEF Kept, NoneOpen, Right
  <2>3. IsTable(sels') /\ IsGlobals(g') /\ FileRead(last') /\ DriveRead(last')
    BY <2>1 DEF ReadInv, LastRight
  <2> QED BY <2>1, <2>2, <2>3, FsReads
<1> QED BY <1>1, <1>2

LEMMA RightWith == ASSUME NEW r, NEW v, Right(r, v), NEW w, w.sel1 = v.sel1 \/ w.sel1 \in 1..boot.selectors PROVE Right(r, w)
BY DEF Right

LEMMA FsOpenReads == ASSUME Kept, BootInv, ReadInv, FsOpenCreate PROVE ReadInv'
<1>1. UNCHANGED bvars /\ stage = "fs"
  BY DEF FsOpenCreate
<1>2. /\ IsTable(sels) /\ IsGlobals(g) /\ hands = [h \in Handles |-> hands[h]]
      /\ \A h \in Handles : Right(hands[h], g)
  BY <1>1 DEF ReadInv, Kept, Typed
<1>3. CASE Stopped
  BY <1>1, <1>3, StopReads
<1>4. ASSUME NEW h \in Handles, OpenDrive(h), stage' = stage, last' = NoFile PROVE ReadInv'
  <2> DEFINE new == FreshHandle(Drive, VolSize, 0, TRUE)
  <2>1. hands' = [hands EXCEPT ![h] = new] /\ UNCHANGED <<sels, g>>
    BY <1>4 DEF OpenDrive
  <2>2. new.name = Drive /\ new.direct = TRUE /\ new.position = 0 /\ new.size = VolSize
    BY DEF FreshHandle
  <2> HIDE DEF new
  <2>3. Right(new, g)
    BY <2>2, SizesAssumption DEF Right
  <2>4. \A k \in Handles : Right(hands'[k], g')
    BY <1>2, <2>1, <2>3
  <2> QED BY <1>1, <1>2, <1>4, <2>1, <2>4, NothingRead, FsReads
<1>5. ASSUME NEW h \in Handles, NEW name \in boot.names, OpenFile(h, name, Opened(name)), stage' = stage, last' = NoFile
      PROVE  ReadInv'
  <2> DEFINE o == Opened(name)
             new == FreshHandle(name, o.g.filemax, o.g.filebase, FALSE)
  <2>1. sels' = o.sels /\ g' = o.g /\ hands' = IF o.ok THEN [hands EXCEPT ![h] = new] ELSE hands
    BY <1>5 DEF OpenFile
  <2>2. /\ IsTable(o.sels) /\ IsGlobals(o.g)
        /\ o.g.sel1 = g.sel1 \/ o.g.sel1 \in 1..boot.selectors
        /\ o.ok => Points(o.g, o.sels) /\ o.g.filemax \in Nat /\ IsFile(name, o.g.filemax, o.g.filebase)
    BY <1>2, OpenedIs
  <2> HIDE DEF o
  <2>3. name # Drive
    BY NamesAssumption DEF BootInv
  <2>4. /\ new.name = name /\ new.direct = FALSE /\ new.position = 0 /\ new.size = o.g.filemax
        /\ new.base = o.g.filebase
    BY DEF FreshHandle
  <2> HIDE DEF new
  <2>5. o.ok => Right(new, o.g)
    BY <2>2, <2>3, <2>4 DEF Right, Points
  <2>6. \A k \in Handles : Right(hands[k], o.g)
    BY <1>2, <2>2, RightWith
  <2>7. \A k \in Handles : Right(hands'[k], g')
    BY <1>2, <2>1, <2>5, <2>6
  <2> QED BY <1>1, <1>5, <2>1, <2>2, <2>7, NothingRead, FsReads
<1>6. CASE ~ Stopped
  <2>1. stage' = stage /\ last' = NoFile
    BY <1>6 DEF FsOpenCreate
  <2>2. PICK h \in Handles : OpenDrive(h) \/ \E name \in boot.names : OpenFile(h, name, Opened(name))
    BY <1>6 DEF FsOpenCreate
  <2> QED BY <1>4, <1>5, <2>1, <2>2
<1> QED BY <1>3, <1>6

\* Another position of a handle.
LEMMA MovedIsRight ==
  ASSUME NEW h \in Handles, hands = [k \in Handles |-> hands[k]], IsHandle(hands[h]), NEW v, Right(hands[h], v), NEW pos \in Nat
  PROVE  Right([hands EXCEPT ![h].position = pos][h], v)
<1> DEFINE r == [hands[h] EXCEPT !.position = pos]
<1>1. /\ r.open = hands[h].open /\ r.direct = hands[h].direct /\ r.name = hands[h].name /\ r.position = pos
      /\ r.size = hands[h].size /\ r.base = hands[h].base
  BY DEF IsHandle
<1>2. [hands EXCEPT ![h].position = pos][h] = r
  OBVIOUS
<1> HIDE DEF r
<1>3. Right(r, v)
  BY <1>1 DEF Right
<1> QED BY <1>2, <1>3

\* A drive is read in whole sectors.
LEMMA SectorsAre ==
  ASSUME IsTable(sels), NEW v, IsGlobals(v), v.filepos \in Nat, NEW len \in Nat
  PROVE  LET r == ReadSectors(v, len) IN
         /\ IsTable(r.sels) /\ IsGlobals(r.g) /\ r.g.sel1 = v.sel1 /\ r.g.filepos \in Nat
         /\ FileRead(r.last) /\ DriveRead(r.last)
<1> DEFINE n == (len \div SecSize) * SecSize
           pos == v.filepos
           new == [v EXCEPT !.filepos = pos + n, !.filebase = g.filebase]
           data == [i \in 1..n |-> (pos \div SecSize) * SecSize + i - 1]
           got == [name |-> Drive, pos |-> pos, len |-> len, data |-> data]
           r == ReadSectors(v, len)
<1>1. n \in Nat /\ n = len - (len % SecSize)
  BY SizesAssumption
<1>2. pos % SecSize = 0 => (pos \div SecSize) * SecSize = pos
  BY SizesAssumption
<1>3. CASE pos + len > VolSize
  <2>1. r = [sels |-> sels, g |-> v, last |-> NoFile]
    BY <1>3 DEF ReadSectors
  <2> QED BY <2>1, NothingRead
<1>4. CASE ~ (pos + len > VolSize)
  <2>1. r = [sels |-> sels, g |-> new, last |-> got]
    BY <1>4 DEF ReadSectors
  <2> HIDE DEF n
  <2>2. IsGlobals(new) /\ new.sel1 = v.sel1 /\ new.filepos = pos + n
    BY DEF IsGlobals, Fields
  <2> HIDE DEF new
  <2>3. pos % SecSize = 0 => data = [i \in 1..(len - (len % SecSize)) |-> pos + i - 1]
    BY <1>1, <1>2
  <2> HIDE DEF data
  <2>4. FileRead(got) /\ DriveRead(got)
    BY <2>3 DEF FileRead, DriveRead
  <2> QED BY <1>1, <2>1, <2>2, <2>4
<1> QED BY <1>3, <1>4

LEMMA FsReadReads == ASSUME Kept, BootInv, ReadInv, FsRead PROVE ReadInv'
<1>1. UNCHANGED bvars /\ stage = "fs" /\ stage' = "fs"
  BY DEF FsRead
<1>2. PICK h \in Handles, len \in 1..2 : hands[h].open /\ FsReadInto(h, ReadOf(h, len, SharedFrom(h)))
  BY DEF FsRead
<1> DEFINE v == SharedFrom(h)
           r == ReadOf(h, len, v)
<1>3. /\ boot \in Boots /\ IsTable(sels) /\ IsGlobals(g) /\ hands = [k \in Handles |-> hands[k]] /\ IsHandle(hands[h])
      /\ \A k \in Handles : Right(hands[k], g)
  BY <1>1 DEF ReadInv, Kept, Typed, BootInv
<1>4. sels' = r.sels /\ g' = r.g /\ last' = r.last /\ hands' = [hands EXCEPT ![h].position = r.g.filepos]
  BY <1>2 DEF FsReadInto, MfsReadInto
<1>5. /\ IsGlobals(v) /\ v.filemax = hands[h].size /\ v.filepos = hands[h].position /\ v.filebase = hands[h].base
      /\ v.sel1 = g.sel1
  BY <1>3 DEF SharedFrom, IsGlobals, Fields
<1> HIDE DEF v
<1>6. /\ hands[h].direct <=> hands[h].name = Drive
      /\ hands[h].position \in Nat /\ hands[h].size \in Nat
      /\ ~ hands[h].direct => IsFile(hands[h].name, hands[h].size, hands[h].base) /\ g.sel1 \in 1..boot.selectors
  BY <1>2, <1>3 DEF Right
<1>7. /\ IsTable(r.sels) /\ IsGlobals(r.g) /\ (r.g.sel1 = g.sel1 \/ r.g.sel1 \in 1..boot.selectors)
      /\ r.g.filepos \in Nat /\ FileRead(r.last) /\ DriveRead(r.last)
  <2>1. CASE hands[h].direct
    <3>1. r = ReadSectors(v, len)
      BY <2>1 DEF ReadOf
    <3> QED BY <1>3, <1>5, <1>6, <3>1, SectorsAre
  <2>2. CASE ~ hands[h].direct
    <3> DEFINE now == advance_ptr(sels, v)
    <3>1. r = MfsReadAt(now.sels, now.g, len, hands[h].name)
      BY <2>2 DEF ReadOf
    <3>2. /\ IsTable(now.sels) /\ IsGlobals(now.g) /\ Points(now.g, now.sels)
          /\ now.g.filepos = v.filepos /\ now.g.filemax = v.filemax /\ now.g.filebase = v.filebase
      BY <1>3, <1>5, <1>6, <2>2, AdvanceIs
    <3> HIDE DEF now
    <3>3. IsFile(hands[h].name, now.g.filemax, now.g.filebase) /\ now.g.filepos \in Nat /\ hands[h].name # Drive
      BY <1>5, <1>6, <2>2, <3>2
    <3>4. /\ IsTable(r.sels) /\ IsGlobals(r.g) /\ Points(r.g, r.sels)
          /\ r.g.filepos \in Nat /\ FileRead(r.last) /\ DriveRead(r.last)
      BY <3>1, <3>2, <3>3, ReadAtIs
    <3> QED BY <3>4 DEF Points
  <2> QED BY <2>1, <2>2
<1> HIDE DEF r
<1>8. \A k \in Handles : Right(hands[k], r.g)
  BY <1>3, <1>7, RightWith
<1>9. Right(hands'[h], r.g)
  BY <1>3, <1>4, <1>7, <1>8, MovedIsRight
<1>10. \A k \in Handles : Right(hands'[k], g')
  <2> TAKE k \in Handles
  <2>1. CASE k = h
    BY <1>4, <1>9, <2>1
  <2>2. CASE k # h
    <3>1. hands'[k] = hands[k]
      BY <1>3, <1>4, <2>2
    <3> QED BY <1>4, <1>8, <3>1
  <2> QED BY <2>1, <2>2
<1> QED BY <1>1, <1>4, <1>7, <1>10, FsReads

LEMMA FsMoveReads == ASSUME Kept, BootInv, ReadInv, FsChgFilePtr PROVE ReadInv'
<1>1. UNCHANGED bvars /\ stage = "fs" /\ stage' = "fs" /\ sels' = sels /\ last' = NoFile
  BY DEF FsChgFilePtr
<1>2. PICK h \in Handles, offset_ \in {0 - 1, 0, 1}, type \in 0..2 :
        /\ hands[h].open
        /\ InReach(PositionAfter(hands[h].position, hands[h].size, offset_, type), hands[h].size)
        /\ hands' = [hands EXCEPT ![h].position = PositionAfter(@, hands[h].size, offset_, type)]
        /\ g' = IF hands[h].direct THEN g ELSE [g EXCEPT !.filebase = hands[h].base]
  BY Zenon DEF FsChgFilePtr
<1> DEFINE pos == PositionAfter(hands[h].position, hands[h].size, offset_, type)
<1>3. /\ IsTable(sels) /\ IsGlobals(g) /\ hands = [k \in Handles |-> hands[k]] /\ IsHandle(hands[h])
      /\ \A k \in Handles : Right(hands[k], g)
  BY <1>1 DEF ReadInv, Kept, Typed
<1>4. hands' = [hands EXCEPT ![h].position = pos]
  BY <1>2, <1>3
<1>5. pos \in Nat
  <2>1. hands[h].position \in Nat /\ hands[h].size \in Nat
    BY <1>2, <1>3 DEF Right
  <2>2. pos \in Int
    BY <2>1 DEF PositionAfter
  <2> QED BY <1>2, <2>2 DEF InReach
<1> HIDE DEF pos
<1>6. IsGlobals(g') /\ g'.sel1 = g.sel1
  BY <1>2, <1>3 DEF IsGlobals, Fields
<1>7. \A k \in Handles : Right(hands[k], g')
  BY <1>3, <1>6, RightWith
<1>8. Right(hands'[h], g')
  BY <1>3, <1>4, <1>5, <1>7, MovedIsRight
<1>9. \A k \in Handles : Right(hands'[k], g')
  <2> TAKE k \in Handles
  <2>1. CASE k = h
    BY <1>8, <2>1
  <2>2. CASE k # h
    <3>1. hands'[k] = hands[k]
      BY <1>3, <1>4, <2>2
    <3> QED BY <1>7, <3>1
  <2> QED BY <2>1, <2>2
<1> QED BY <1>1, <1>3, <1>6, <1>9, NothingRead, FsReads

LEMMA FsCloseReads == ASSUME Kept, ReadInv, FsClose PROVE ReadInv'
<1>1. UNCHANGED bvars /\ stage = "fs" /\ stage' = "fs" /\ UNCHANGED <<sels, g>> /\ last' = NoFile
  BY DEF FsClose
<1>2. PICK h \in Handles : hands' = [hands EXCEPT ![h] = Closed]
  BY DEF FsClose
<1>3. /\ IsTable(sels) /\ IsGlobals(g) /\ hands = [k \in Handles |-> hands[k]]
      /\ \A k \in Handles : Right(hands[k], g)
  BY <1>1 DEF ReadInv, Kept, Typed
<1>4. Right(Closed, g)
  BY DEF Right, Closed
<1>5. \A k \in Handles : Right(hands'[k], g')
  BY <1>1, <1>2, <1>3, <1>4
<1> QED BY <1>1, <1>3, <1>5, NothingRead, FsReads

LEMMA FsFindReads == ASSUME BootInv, ReadInv, FsFindFirst PROVE ReadInv'
<1>1. UNCHANGED bvars /\ stage = "fs" /\ stage' = "fs" /\ hands' = hands
  BY DEF FsFindFirst
<1>2. PICK name \in boot.names : sels' = Opened(name).sels /\ g' = Opened(name).g /\ last' = NoFile
  BY DEF FsFindFirst
<1> DEFINE o == Opened(name)
<1>3. IsTable(sels) /\ IsGlobals(g) /\ \A k \in Handles : Right(hands[k], g)
  BY <1>1 DEF ReadInv
<1>4. IsTable(o.sels) /\ IsGlobals(o.g) /\ (o.g.sel1 = g.sel1 \/ o.g.sel1 \in 1..boot.selectors)
  BY <1>3, OpenedIs
<1> HIDE DEF o
<1>5. sels' = o.sels /\ g' = o.g /\ last' = NoFile
  BY <1>2 DEF o
<1>6. \A k \in Handles : Right(hands'[k], g')
  BY <1>1, <1>3, <1>4, <1>5, RightWith
<1> QED BY <1>1, <1>4, <1>5, <1>6, NothingRead, FsReads

LEMMA FsNothingReads == ASSUME ReadInv, FsNothing \/ FsStub PROVE ReadInv'
<1>1. UNCHANGED bvars /\ stage = "fs" /\ stage' = "fs" /\ UNCHANGED <<sels, g, hands>> /\ last' = NoFile
  BY DEF FsNothing, FsStub
<1>2. IsTable(sels') /\ IsGlobals(g') /\ \A h \in Handles : Right(hands'[h], g')
  BY <1>1 DEF ReadInv
<1> QED BY <1>1, <1>2, NothingRead, FsReads

\* A ramdisk's modules are written whole.
LEMMA WrittenIs ==
  ASSUME NEW mod, IsModule(mod), Holds(mod, mem)
  PROVE  FileWritten(mod).data = Held(Last(mod.words), 0, mod.pages)
<1> DEFINE data == [n \in 1..mod.pages |-> Page(mod.start + n - 1)]
<1>1. FileWritten(mod).data = data
  BY DEF FileWritten
<1>2. mod.pages \in Nat /\ mod.start \in Nat
  BY DEF IsModule
<1>3. data = [i \in 1..mod.pages |-> Page(mod.start + 0 + i - 1)]
  BY <1>2
<1> HIDE DEF data
<1> QED BY <1>1, <1>2, <1>3, HeldIs

LEMMA MfsTermReads == ASSUME BootInv, ReadInv, MfsTerm PROVE ReadInv'
<1>1. CASE Stopped
  BY <1>1, StopReads DEF MfsTerm
<1>2. CASE ~ Stopped
  <2> DEFINE v == [NoGlobals EXCEPT !.ramdisk = g.ramdisk, !.drvletter = g.drvletter]
  <2>1. /\ UNCHANGED bvars /\ stage' = "ifs" /\ ifs' = HandedTo /\ sels' = NoSelectors /\ g' = v /\ last' = NoFile
    BY <1>2 DEF MfsTerm
  <2>2. IsTable(NoSelectors) /\ IsGlobals(v)
    BY DEF IsTable, NoSelectors, IsGlobals, NoGlobals, Fields
  <2>3. v.ramdisk = g.ramdisk
    BY DEF NoGlobals
  <2> HIDE DEF v
  <2>4. IsTable(sels') /\ IsGlobals(g)' /\ FileRead(last') /\ DriveRead(last')
    BY <2>1, <2>2, NothingRead DEF IsGlobals, Fields
  <2>5. IsTable(sels)' /\ FileRead(last)' /\ DriveRead(last)'
    BY <2>1, <2>4, SameModules
  <2>6. ASSUME g'.ramdisk
        PROVE  \A i \in DOMAIN mods : ifs'.files[i].data = Held(Last(mods[i].words), 0, mods[i].pages)
    <3> TAKE i \in DOMAIN mods
    <3>1. ifs'.files[i] = FileWritten(mods[i])
      BY <2>1, <2>3, <2>6 DEF HandedTo
    <3>2. IsModule(mods[i]) /\ Holds(mods[i], mem)
      BY DEF BootInv, Whole
    <3> QED BY <3>1, <3>2, WrittenIs
  <2>7. AllWritten'
    BY <2>1, <2>6, SameModules DEF AllWritten, Held
  <2> QED BY <2>1, <2>4, <2>5, <2>7 DEF ReadInv, OneFile, LastRight
<1> QED BY <1>1, <1>2

LEMMA FsdLeaves == FsdNext => UNCHANGED bvars
BY Zenon DEF FsdNext, MfsInit, MfsOpen, MfsRead, MfsChgFilePtr, MfsClose, FsInit, FsMount, FsOpenCreate, FsRead, FsChgFilePtr,
   FsClose, FsFindFirst, FsNothing, FsStub, MfsTerm

LEMMA FsdReads == ASSUME Kept, BootInv, ReadInv, FsdNext PROVE ReadInv'
BY MfsInitReads, MfsOpenReads, MfsReadReads, MfsMoveReads, MfsCloseReads, FsInitReads, FsMountReads, FsOpenReads,
   FsReadReads, FsMoveReads, FsCloseReads, FsFindReads, FsNothingReads, MfsTermReads DEF FsdNext

LEMMA StutterReads == ASSUME ReadInv, UNCHANGED mvars PROVE ReadInv'
<1>1. UNCHANGED <<stage, sels, g, hands, last, ifs>> /\ UNCHANGED bvars
  BY DEF mvars, fvars
<1>2. /\ \A t : IsTable(t)' <=> IsTable(t)
      /\ \A r, v : Right(r, v)' <=> Right(r, v)
      /\ \A r : (FileRead(r)' <=> FileRead(r)) /\ (DriveRead(r)' <=> DriveRead(r))
      /\ \A name, size, base : IsFile(name, size, base)' <=> IsFile(name, size, base)
      /\ \A v, t : Points(v, t)' <=> Points(v, t)
      /\ mods' = mods
  BY <1>1, SameModules
<1>3. IsTable(sels)' /\ IsGlobals(g)' /\ LastRight'
  BY <1>1, <1>2 DEF ReadInv, LastRight, IsGlobals, Fields
<1>4. stage' = "fs" => \A h \in Handles : Right(hands[h], g)'
  BY <1>1, <1>2 DEF ReadInv
<1>5. OneFile'
  BY <1>1, <1>2 DEF ReadInv, OneFile, Drive
<1>6. AllWritten'
  BY <1>1, <1>2 DEF ReadInv, AllWritten, Held
<1>7. stage' = "none" => last' = NoFile /\ g'.file = None
  BY <1>1 DEF ReadInv
<1> QED BY <1>3, <1>4, <1>5, <1>6, <1>7 DEF ReadInv, NoFile

LEMMA MuFsd == ASSUME MuRight, UNCHANGED bvars PROVE MuRight'
BY DEF MuRight, Held, bvars, AsLoaded

-----------------------------------------------------------------------------
(* The theorems.                                                             *)

\* What speaks of the modules, of the handles and of what was read, together.
AllInv == BootInv /\ Own(mods) /\ PreInv /\ MuRight /\ Inv /\ ReadInv

\* The modules of a ramdisk are a list, so they have numbers.
LEMMA ModulesAreListed == BootInv => ListOfModules
BY ListIs DEF BootInv, Whole, ListOfModules

LEMMA AllInvHolds == Spec => []AllInv
<1>1. MInit => AllInv
  <2> SUFFICES ASSUME MInit PROVE AllInv
    OBVIOUS
  <2>1. BootInv /\ Own(mods) /\ PreInv /\ MuRight
    BY BootInitHolds, OwnInit, MuInit DEF MInit
  <2> QED
    BY <2>1, InitHolds, ReadInit DEF AllInv
<1>2. AllInv /\ [Next]_mvars => AllInv'
  <2> SUFFICES ASSUME AllInv, [Next]_mvars PROVE AllInv'
    OBVIOUS
  <2>1. BootInv /\ Own(mods) /\ PreInv /\ MuRight /\ Inv /\ Kept /\ ReadInv
    BY DEF AllInv, Inv
  <2>2. CASE BootNext /\ UNCHANGED fvars
    <3>1. BootInv' /\ Own(mods)' /\ PreInv' /\ MuRight'
      BY <2>1, <2>2, BootStepHolds, BootOwn, BootThere, MuStep
    <3>2. Inv' /\ ReadInv'
      BY <2>1, <2>2, BootKeeps, BootReads
    <3> QED
      BY <3>1, <3>2 DEF AllInv
  <2>3. CASE FsdNext
    <3>1. UNCHANGED bvars
      BY <2>3, FsdLeaves
    <3>2. BootInv' /\ Own(mods)' /\ PreInv' /\ MuRight'
      BY <2>1, <3>1, BootStutterHolds, StutterThere, MuFsd
    <3>3. Inv' /\ ReadInv'
      BY <2>1, <2>3, FsdKeeps, FsdReads
    <3> QED
      BY <3>2, <3>3 DEF AllInv
  <2>4. CASE UNCHANGED mvars
    <3>1. UNCHANGED bvars
      BY <2>4 DEF mvars
    <3>2. BootInv' /\ Own(mods)' /\ PreInv' /\ MuRight'
      BY <2>1, <3>1, BootStutterHolds, StutterThere, MuFsd
    <3>3. Inv' /\ ReadInv'
      BY <2>1, <2>4, StutterKeeps, StutterReads
    <3> QED
      BY <3>2, <3>3 DEF AllInv
  <2> QED
    BY <2>2, <2>3, <2>4 DEF Next
<1> QED
  BY <1>1, <1>2, PTL DEF Spec

\* Whatever is booted, by whatever calls the kernel makes before it, the real
\* driver is given the files that are open, each under its handle, and no other;
\* from a ramdisk, the handle of each file that is open once
\* (fs_all.c FS_OPENCREATE(), FS_CLOSE(); mfs.c MFS_TERM()).
THEOREM OpenFilesHandedOver == Spec => []HandedOver
<1>1. AllInv => HandedOver
  BY ModulesAreListed DEF AllInv, Inv
<1> QED
  BY <1>1, AllInvHolds, PTL

\* Whatever modules are in memory, whatever CONFIG.SYS names and however large it,
\* the editor's tables and what is preloaded are: no module is written over before
\* os2ldr and the kernel use it (cfgsys.c callback(), load_modules(); edit.c;
\* bootos2.c mbi_reloc()).
THEOREM ModulesStayIntact == Spec => []ModulesIntact
<1>1. ASSUME BootInv PROVE ModulesIntact
  <2> SUFFICES ASSUME NEW i \in DOMAIN mods, NEW p \in 1..mods[i].pages
               PROVE  Page(mods[i].start + p - 1) = <<Last(mods[i].words), p - 1>>
    BY DEF ModulesIntact
  <2>1. IsModule(mods[i]) /\ Holds(mods[i], mem)
    BY <1>1 DEF BootInv, Whole
  <2>2. mods[i].start \in Nat /\ p - 1 \in Nat /\ p - 1 < mods[i].pages
    BY <2>1 DEF IsModule
  <2>3. Page(mods[i].start + (p - 1)) = <<Last(mods[i].words), p - 1>>
    BY <2>1, <2>2, PageIs
  <2> QED
    BY <2>2, <2>3
<1> QED
  BY <1>1, AllInvHolds, PTL DEF AllInv

\* Whatever CONFIG.SYS names, wherever its files are on the disk and whichever modules
\* there are already: what is preloaded is a file of the disk, and opens as itself if CONFIG.SYS
\* gives no parameters; with autopreload os2ldr, its messages, the kernel, the drivers and libraries of
\* every boot, and what the lines of CONFIG.SYS that count name can be opened, or are found at another
\* place, or nothing is started (cfgsys.c load_modules(), preload_module(); ufs_open()).
THEOREM NothingStartsWithout == Spec => []Preloaded
<1>1. AllInv => Preloaded
  BY StartedIsPreloaded DEF AllInv
<1> QED
  BY <1>1, AllInvHolds, PTL

\* Whatever modules are loaded, and in whatever order the kernel opens, finds,
\* reads, moves within and closes its files: a read gives the page of the very file
\* at the handle's position, a drive's gives its sectors, and a ramdisk is written
\* every module whole (mbifunc.c ufs_read(); mfs.c MFS_READ(), MFS_TERM();
\* fs_all.c FS_READ()).
THEOREM ReadsAreTheFiles == Spec => []ReadGivesTheFile
<1>1. AllInv => ReadGivesTheFile
  BY DEF AllInv, MuRight, ReadInv, LastRight, FileRead, DriveRead, AllWritten, ReadGivesTheFile
<1> QED
  BY <1>1, AllInvHolds, PTL
=============================================================================
