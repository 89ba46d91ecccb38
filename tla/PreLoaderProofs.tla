---------------------------- MODULE PreLoaderProofs ----------------------------
(***************************************************************************)
(* Whatever preldr.ini says and whatever is opened: the pre-loader calls   *)
(* only code that is in its buffer, relocated for it and linked to the     *)
(* copy that runs, and the table OS/2 is given is true.                    *)
(*                                                                         *)
(* Most of what follows says what an operator of the machine does with one *)
(* that fits: the calls, the drivers, opening and loading, the move.  The  *)
(* invariant has a part for each stage of init().  That the table is true  *)
(* rests on this: whichever driver is in use, opening a file comes to the  *)
(* same length, so that what os2ldr is given room for is what is loaded.   *)
(***************************************************************************)
EXTENDS PreLoader, TLAPS, WellFoundedInduction

Sides == {"low", "high"}
Fields == {"me", "micro", "filetab", "at", "v", "cur", "saved", "mounted", "ok", "filemax", "open", "buffer", "misread", "panic",
           "called", "prefix", "ldrlen", "given", "loaded"}
SideFields == {"fs", "use_term", "tag", "scratch", "stage0"}

\* The parts of a machine.
IsMachine(k) ==
  /\ DOMAIN k = Fields
  /\ k.me \in Sides /\ k.filetab \in BOOLEAN /\ k.panic \in BOOLEAN /\ k.ok \in BOOLEAN /\ k.mounted \in BOOLEAN
  /\ k.at \in [Buffers -> Codes \cup {None}]
  /\ DOMAIN k.v = Sides
  /\ \A c \in Sides : DOMAIN k.v[c] = SideFields /\ k.v[c].fs \in {"EXT_BUF", "EXT3HI"} /\ k.v[c].use_term \in BOOLEAN

\* The code in a buffer lies where it was relocated for; it calls the copy that runs.
Placed(k, b) == k.at[b] # None /\ k.at[b].base = b
Live(k, b) == b \in Buffers /\ Placed(k, b) /\ k.at[b].lip = k.me

Fits(k) == \A c \in k.called : c.holds # None /\ c.holds.base = c.buffer /\ (c.why # "init" => c.holds.lip = c.by)

\* What opening and reading files leave alone.
Quiet(k, r) ==
  /\ IsMachine(r) /\ r.me = k.me /\ r.micro = k.micro /\ r.filetab = k.filetab /\ r.at = k.at /\ r.panic = k.panic
  /\ r.prefix = k.prefix /\ r.ldrlen = k.ldrlen /\ r.given = k.given /\ r.loaded = k.loaded /\ r.saved = k.saved
  /\ \A c \in Sides : r.v[c].fs = k.v[c].fs /\ r.v[c].use_term = k.v[c].use_term
                      /\ r.v[c].scratch = k.v[c].scratch /\ r.v[c].stage0 = k.v[c].stage0

\* What a call of a driver, or reading sectors, leaves alone besides.
Same(k, r) ==
  Quiet(k, r) /\ r.cur = k.cur /\ r.mounted = k.mounted /\ r.ok = k.ok /\ r.open = k.open /\ r.filemax = k.filemax

LEMMA QuietTrans == ASSUME NEW k, NEW r, NEW q, Quiet(k, r), Quiet(r, q) PROVE Quiet(k, q)
BY DEF Quiet

LEMMA SameTrans == ASSUME NEW k, NEW r, NEW q, Same(k, r), Same(r, q) PROVE Same(k, q)
BY QuietTrans DEF Same

LEMMA SameSelf == ASSUME NEW k, IsMachine(k) PROVE Same(k, k) /\ Quiet(k, k)
BY DEF Same, Quiet

LEMMA QuietLive ==
  ASSUME NEW k, IsMachine(k), NEW r, Quiet(k, r)
  PROVE  /\ Of(r).fs = Of(k).fs /\ Of(r).use_term = Of(k).use_term /\ Of(k).fs \in Buffers
         /\ \A b : (Live(k, b) <=> Live(r, b)) /\ (Placed(k, b) <=> Placed(r, b))
<1>1. k.me \in Sides /\ k.v[k.me].fs \in {"EXT_BUF", "EXT3HI"}
  BY DEF IsMachine
<1>2. r.me = k.me /\ r.at = k.at /\ r.v[k.me].fs = k.v[k.me].fs /\ r.v[k.me].use_term = k.v[k.me].use_term
  BY <1>1 DEF Quiet
<1> QED BY <1>1, <1>2 DEF Live, Placed, Of, Buffers

-------------------------------------------------------------------------------
(* Calls and reads.                                                            *)

\* A call of live code fits.
LEMMA CallIs ==
  ASSUME NEW k, IsMachine(k), Fits(k), NEW b, NEW w, Placed(k, b), w = "init" \/ Live(k, b), NEW r, r = Call(k, b, w)
  PROVE  Same(k, r) /\ Fits(r)
<1> DEFINE n == [buffer |-> b, holds |-> k.at[b], by |-> k.me, why |-> w]
<1>1. DOMAIN k = Fields
  BY DEF IsMachine
<1>2. /\ DOMAIN r = Fields /\ r.called = k.called \cup {n}
      /\ \A x \in Fields : x # "called" => r[x] = k[x]
  BY <1>1 DEF Call, Fields
<1>3. Same(k, r)
  BY <1>2 DEF IsMachine, Same, Quiet, Fields
<1>4. n.holds # None /\ n.holds.base = n.buffer /\ (n.why # "init" => n.holds.lip = n.by)
  BY DEF Live, Placed
<1>5. Fits(r)
  BY <1>2, <1>4 DEF Fits
<1> QED BY <1>3, <1>5

LEMMA DiskIs ==
  ASSUME NEW k, IsMachine(k), NEW track, NEW r, r = Disk(k, track)
  PROVE  Same(k, r) /\ r.called = k.called /\ Of(r).tag = track
<1>0. DOMAIN k = Fields /\ k.me \in Sides /\ DOMAIN k.v = Sides /\ \A c \in Sides : DOMAIN k.v[c] = SideFields
  BY DEF IsMachine
<1>1. CASE Of(k).tag = track
  <2>1. DOMAIN r = Fields /\ \A x \in Fields : x # "misread" => r[x] = k[x]
    BY <1>0, <1>1 DEF Disk, Fields
  <2> QED BY <1>1, <2>1 DEF IsMachine, Same, Quiet, Fields, Of
<1>2. CASE Of(k).tag # track
  <2>1. /\ DOMAIN r = Fields /\ \A x \in Fields : x \notin {"v", "buffer"} => r[x] = k[x]
        /\ r.v = [k.v EXCEPT ![k.me].tag = track]
    BY <1>0, <1>2 DEF Disk, Fields
  <2>2. /\ DOMAIN r.v = Sides /\ r.v[k.me].tag = track
        /\ \A c \in Sides : DOMAIN r.v[c] = SideFields /\ \A x \in SideFields : x # "tag" => r.v[c][x] = k.v[c][x]
    BY <1>0, <2>1 DEF SideFields
  <2>3. \A c \in Sides : /\ r.v[c].fs = k.v[c].fs /\ r.v[c].use_term = k.v[c].use_term
                         /\ r.v[c].scratch = k.v[c].scratch /\ r.v[c].stage0 = k.v[c].stage0
    BY <2>2 DEF SideFields
  <2>4. /\ r.me = k.me /\ r.micro = k.micro /\ r.filetab = k.filetab /\ r.at = k.at /\ r.panic = k.panic
        /\ r.prefix = k.prefix /\ r.ldrlen = k.ldrlen /\ r.given = k.given /\ r.loaded = k.loaded /\ r.saved = k.saved
        /\ r.cur = k.cur /\ r.mounted = k.mounted /\ r.ok = k.ok /\ r.open = k.open /\ r.filemax = k.filemax /\ r.called = k.called
    BY <2>1 DEF Fields
  <2>5. IsMachine(r)
    BY <2>1, <2>2, <2>3, <2>4 DEF IsMachine
  <2> QED BY <2>2, <2>3, <2>4, <2>5 DEF Same, Quiet, Of
<1> QED BY <1>1, <1>2

LEMMA SameFits == ASSUME NEW k, Fits(k), NEW r, r.called = k.called PROVE Fits(r)
BY DEF Fits

LEMMA OpenDeviceIs ==
  ASSUME NEW k, IsMachine(k), Fits(k), Live(k, Of(k).fs), NEW r, r = OpenDevice(k)
  PROVE  /\ Quiet(k, r) /\ Fits(r) /\ r.cur = k.cur /\ r.ok = k.ok /\ r.open = k.open /\ r.filemax = k.filemax
         /\ (r.mounted <=> <<k.at[Of(k).fs].code, k.cur>> \in Mountable)
<1> DEFINE b == Of(k).fs
           c == Call(k, b, "mount")
           d == Disk(c, <<k.cur>>)
           is == k.at[b] # None /\ <<k.at[b].code, k.cur>> \in Mountable
<1>1. Same(k, c) /\ Fits(c)
  BY CallIs DEF Live
<1>2. Same(c, d) /\ d.called = c.called
  <2>1. IsMachine(c)
    BY <1>1 DEF Same, Quiet
  <2> HIDE DEF c
  <2> QED BY <2>1, DiskIs
<1> HIDE DEF c, d, b
<1>3. Same(k, d) /\ Fits(d) /\ IsMachine(d)
  BY <1>1, <1>2, SameTrans, SameFits DEF Same, Quiet
<1>4. r = [d EXCEPT !.mounted = is]
  BY DEF OpenDevice, b, c, d
<1> HIDE DEF is
<1>5. is \in BOOLEAN
  BY DEF is
<1>6. DOMAIN d = Fields
  BY <1>3 DEF IsMachine
<1>7. DOMAIN r = Fields /\ r.mounted = is /\ \A x \in Fields : x # "mounted" => r[x] = d[x]
  BY <1>4, <1>6 DEF Fields
<1>8. Quiet(d, r) /\ r.called = d.called /\ r.cur = d.cur /\ r.ok = d.ok /\ r.open = d.open /\ r.filemax = d.filemax
  BY <1>3, <1>5, <1>7 DEF IsMachine, Quiet, Fields
<1>9. Quiet(k, r) /\ Fits(r) /\ r.cur = k.cur /\ r.ok = k.ok /\ r.open = k.open /\ r.filemax = k.filemax
  BY <1>3, <1>8, QuietTrans, SameFits DEF Same
<1>10. r.mounted <=> <<k.at[b].code, k.cur>> \in Mountable
  BY <1>7 DEF is, Live, Placed, b
<1> QED BY <1>9, <1>10 DEF b

-------------------------------------------------------------------------------
(* A fold takes the elements of a list one after another.                      *)

LEMMA Least == ASSUME NEW S \in SUBSET Nat, S # {} PROVE \E i \in S : \A j \in S : i <= j
<1>1. PICK i \in S : \A j \in S : ~ (<<j, i>> \in OpToRel(<, Nat))
  BY NatLessThanWellFounded, WFMin
<1>2. \A j \in S : ~ (j < i)
  BY <1>1, Zenon DEF OpToRel
<1>3. \A j \in S : i <= j
  BY <1>2
<1> QED BY <1>3

LEMMA Induction ==
  ASSUME NEW N \in Nat, NEW T \in SUBSET Nat, 0 \in T, \A n \in T : n < N => n + 1 \in T
  PROVE  \A n \in 0..N : n \in T
<1> DEFINE rest == {n \in Nat : n <= N /\ n \notin T}
<1> SUFFICES ASSUME rest # {} PROVE FALSE
  OBVIOUS
<1>1. PICK x \in rest : \A y \in rest : x <= y
  <2>1. rest \in SUBSET Nat
    OBVIOUS
  <2> HIDE DEF rest
  <2> QED BY <2>1, Least
<1>2. x # 0 /\ x - 1 \in Nat /\ x - 1 <= N /\ ~ (x <= x - 1)
  OBVIOUS
<1>3. x - 1 \notin rest
  BY <1>1, <1>2
<1> QED BY <1>2, <1>3

\* The highest of numbers up to n is n, if it is one of them.
LEMMA HighestIs == ASSUME NEW n \in Nat, NEW s \in SUBSET (1..n), n \in s PROVE Max(s) = n
<1>1. \A x \in s : x <= n
  OBVIOUS
<1>2. Max(s) = CHOOSE x \in s : \A y \in s : x >= y
  BY DEF Max
<1>3. Max(s) \in s /\ \A y \in s : Max(s) >= y
  BY <1>1, <1>2
<1>4. Max(s) \in 1..n /\ Max(s) >= n
  BY <1>3
<1> QED BY <1>4

\* The directories are gone through one by one.
WalkStep(cur, dir, a, i) == Disk(a, <<cur, SubSeq(dir, 1, i - 1)>>)
Walk(st, cur, dir, N) == FoldLeft(LAMBDA a, i : Disk(a, <<cur, SubSeq(dir, 1, i - 1)>>), st, [i \in 1..N |-> i])

LEMMA WalkSteps ==
  ASSUME NEW st, NEW cur, NEW dir, NEW N \in Nat, NEW w,
         w = Walk(st, cur, dir, N)
  PROVE  \E f : f[0] = st /\ f[N] = w /\ \A n \in 1..N : f[n] = WalkStep(cur, dir, f[n - 1], n)
<1> DEFINE Step(a, n) == WalkStep(cur, dir, a, n)
           q == [i \in 1..N |-> i]
           Iter(n, it) == it = [s \in SUBSET (1..n) |-> IF s = {} THEN st ELSE Step(it[s \ {Max(s)}], q[Max(s)])]
           T == {n \in Nat : \E it : Iter(n, it)}
<1>0. N \in Nat /\ DOMAIN q = 1..N
  OBVIOUS
<1>1. w = LET it == CHOOSE it : Iter(N, it) IN it[1..N]
  BY <1>0, Zenon DEF Walk, FoldLeft, MapThenFoldSet, WalkStep
<1> HIDE DEF Step, q
<1>2. 0 \in T
  <2> DEFINE it == [s \in SUBSET (1..0) |-> st]
  <2>1. Iter(0, it)
    OBVIOUS
  <2> QED BY <2>1
<1>3. \A n \in T : n < N => n + 1 \in T
  <2> SUFFICES ASSUME NEW n \in Nat, \E it : Iter(n, it) PROVE \E h : Iter(n + 1, h)
    <3> HIDE DEF Iter
    <3> QED OBVIOUS
  <2> PICK it : Iter(n, it)
    OBVIOUS
  <2> DEFINE h == [s \in SUBSET (1..(n + 1)) |-> IF n + 1 \in s THEN Step(it[s \ {n + 1}], q[n + 1]) ELSE it[s]]
  <2>1. ASSUME NEW s \in SUBSET (1..(n + 1))
        PROVE  h[s] = IF s = {} THEN st ELSE Step(h[s \ {Max(s)}], q[Max(s)])
    <3>1. CASE n + 1 \in s
      <4>1. Max(s) = n + 1
        BY <3>1, HighestIs
      <4>2. h[s \ {n + 1}] = it[s \ {n + 1}]
        OBVIOUS
      <4> QED BY <3>1, <4>1, <4>2
    <3>2. CASE n + 1 \notin s
      <4>1. s \in SUBSET (1..n) /\ h[s] = it[s] /\ \A x : n + 1 \notin s \ {x}
        BY <3>2
      <4>2. \A x : h[s \ {x}] = it[s \ {x}]
        BY <4>1
      <4>3. it[s] = IF s = {} THEN st ELSE Step(it[s \ {Max(s)}], q[Max(s)])
        BY <4>1, Zenon
      <4> QED BY <4>1, <4>2, <4>3
    <3> QED BY <3>1, <3>2
  <2>2. DOMAIN h = SUBSET (1..(n + 1)) /\ h = [s \in SUBSET (1..(n + 1)) |-> h[s]]
    OBVIOUS
  <2> HIDE DEF h
  <2>3. Iter(n + 1, h)
    BY <2>1, <2>2
  <2> QED BY <2>3
<1> DEFINE c == CHOOSE it : Iter(N, it)
<1>4. Iter(N, c)
  <2>1. T \in SUBSET Nat /\ N \in 0..N
    BY <1>0
  <2>2. N \in T
    <3> HIDE DEF T
    <3> QED BY <1>0, <1>2, <1>3, <2>1, Induction
  <2> QED BY <2>2
<1>5. w = c[1..N]
  BY <1>1, Zenon
<1> HIDE DEF c
<1>6. c[{}] = st
  BY <1>4
<1>7. ASSUME NEW n \in 1..N
      PROVE  c[1..n] = Step(c[1..(n - 1)], q[n])
  <2>1. n \in Nat /\ 1..n \in SUBSET (1..N) /\ n \in 1..n /\ (1..n) \ {n} = 1..(n - 1)
    BY <1>0
  <2>2. Max(1..n) = n
    BY <2>1, HighestIs
  <2>3. c[1..n] = Step(c[(1..n) \ {Max(1..n)}], q[Max(1..n)])
    BY <1>4, <2>1, Zenon
  <2> QED BY <2>1, <2>2, <2>3
<1> DEFINE f == [n \in 0..N |-> c[1..n]]
<1>8. f[0] = st /\ f[N] = w /\ \A n \in 1..N : f[n] = Step(f[n - 1], q[n])
  <2>1. 1..0 = {} /\ 0 \in 0..N /\ N \in 0..N /\ \A n \in 1..N : n \in 0..N /\ n - 1 \in 0..N
    BY <1>0
  <2> QED BY <1>5, <1>6, <1>7, <2>1
<1>9. \A n \in 1..N : q[n] = n
  BY DEF q
<1> HIDE DEF f
<1>10. \A n \in 1..N : f[n] = WalkStep(cur, dir, f[n - 1], n)
  BY <1>8, <1>9 DEF Step
<1> QED BY <1>8, <1>10

LEMMA WalkedIs ==
  ASSUME NEW k, IsMachine(k), Fits(k), Live(k, Of(k).fs), NEW dir, Len(dir) \in Nat, NEW r, r = Walked(k, dir)
  PROVE  Same(k, r) /\ Fits(r)
<1> DEFINE N == Len(dir) + 1
           c == Call(k, Of(k).fs, "dir")
<1>1. Same(k, c) /\ Fits(c) /\ IsMachine(c) /\ N \in Nat
  BY CallIs DEF Live, Same, Quiet
<1>2. r = Walk(c, k.cur, dir, N)
  BY Zenon DEF Walked, Walk
<1> HIDE DEF c, N
<1>3. PICK f : f[0] = c /\ f[N] = r /\ \A n \in 1..N : f[n] = WalkStep(k.cur, dir, f[n - 1], n)
  BY <1>1, <1>2, WalkSteps
<1> DEFINE T == {n \in Nat : Same(c, f[n]) /\ f[n].called = c.called}
<1>4. 0 \in T
  BY <1>1, <1>3, SameSelf
<1>5. ASSUME NEW n \in T, n < N PROVE n + 1 \in T
  <2>1. n + 1 \in 1..N /\ (n + 1) - 1 = n /\ n + 1 \in Nat
    BY <1>1, <1>5
  <2> DEFINE a == f[n]
             b == f[n + 1]
  <2>2. b = Disk(a, <<k.cur, SubSeq(dir, 1, (n + 1) - 1)>>)
    BY <1>3, <2>1 DEF WalkStep
  <2>3. IsMachine(a) /\ Same(c, a) /\ a.called = c.called
    BY DEF Same, Quiet
  <2> HIDE DEF a, b
  <2>4. Same(a, b) /\ b.called = a.called
    BY <2>2, <2>3, DiskIs
  <2>5. Same(c, b) /\ b.called = c.called
    BY <2>3, <2>4, SameTrans
  <2> QED BY <2>1, <2>5 DEF b
<1>6. T \in SUBSET Nat /\ \A n \in T : Same(c, f[n]) /\ f[n].called = c.called
  OBVIOUS
<1> HIDE DEF T
<1>7. N \in T
  <2>1. \A n \in T : n < N => n + 1 \in T
    BY <1>5
  <2>2. \A n \in 0..N : n \in T
    BY <1>1, <1>4, <1>6, <2>1, Induction
  <2> QED BY <1>1, <2>2
<1>8. Same(c, r) /\ r.called = c.called
  BY <1>3, <1>6, <1>7
<1> QED BY <1>1, <1>8, SameTrans, SameFits

\* Found or not, nothing but ok, filemax and open changes.
LEMMA NotedIs ==
  ASSUME NEW k, IsMachine(k), NEW f, NEW r, r = Noted(k, f)
  PROVE  /\ Quiet(k, r) /\ r.called = k.called /\ r.cur = k.cur /\ r.mounted = k.mounted
         /\ (r.ok <=> f \in DOMAIN Files) /\ (r.ok => r.open = f /\ r.filemax = Files[f]) /\ (~ r.ok => r.filemax = None)
<1>0. DOMAIN k = Fields
  BY DEF IsMachine
<1>1. /\ DOMAIN r = Fields /\ \A x \in Fields : x \notin {"ok", "filemax", "open"} => r[x] = k[x]
  BY <1>0 DEF Noted, Fields
<1>2. /\ (r.ok <=> f \in DOMAIN Files) /\ r.ok \in BOOLEAN /\ (r.ok => r.open = f /\ r.filemax = Files[f]) /\ (~ r.ok => r.filemax = None)
  BY <1>0 DEF Noted, Fields
<1>3. Quiet(k, r) /\ r.called = k.called /\ r.cur = k.cur /\ r.mounted = k.mounted
  BY <1>1, <1>2 DEF IsMachine, Quiet, Fields
<1> QED BY <1>2, <1>3

LEMMA DirIs ==
  ASSUME NEW k, IsMachine(k), Fits(k), Live(k, Of(k).fs), NEW f, Len(f.dir) \in Nat, NEW r, r = Dir(k, f)
  PROVE  /\ Quiet(k, r) /\ Fits(r) /\ r.cur = k.cur /\ r.mounted = k.mounted
         /\ (r.ok <=> Key(k.cur, f) \in DOMAIN Files)
         /\ (r.ok => r.open = Key(k.cur, f) /\ r.filemax = Files[Key(k.cur, f)]) /\ (~ r.ok => r.filemax = None)
<1> DEFINE d == f.dir
           a == Walked(k, d)
<1>1. Same(k, a) /\ Fits(a)
  <2> HIDE DEF d
  <2> QED BY WalkedIs DEF d
<1>2. r = Noted(a, Key(k.cur, f))
  <2>1. r = Noted(a, Key(a.cur, f)) \/ r = Noted(a, Key(k.cur, f))
    BY DEF Dir
  <2> QED BY <1>1, <2>1 DEF Same
<1> HIDE DEF a
<1>3. /\ Quiet(a, r) /\ r.called = a.called /\ r.cur = a.cur /\ r.mounted = a.mounted
      /\ (r.ok <=> Key(k.cur, f) \in DOMAIN Files)
      /\ (r.ok => r.open = Key(k.cur, f) /\ r.filemax = Files[Key(k.cur, f)]) /\ (~ r.ok => r.filemax = None)
  BY <1>1, <1>2, NotedIs DEF Same, Quiet
<1> QED BY <1>1, <1>3, QuietTrans, SameFits DEF Same

LEMMA MuOpenIs ==
  ASSUME NEW k, IsMachine(k), NEW f, NEW r, r = MuOpen(k, f)
  PROVE  Quiet(k, r) /\ r.called = k.called /\ r.cur = k.cur /\ r.mounted = k.mounted /\ (r.ok <=> MuFiles(f) # {})
<1>0. DOMAIN k = Fields
  BY DEF IsMachine
<1>1. /\ DOMAIN r = Fields /\ \A x \in Fields : x \notin {"ok", "filemax", "open"} => r[x] = k[x]
      /\ (r.ok <=> MuFiles(f) # {}) /\ r.ok \in BOOLEAN
  BY <1>0 DEF MuOpen, Fields
<1>2. Quiet(k, r) /\ r.called = k.called /\ r.cur = k.cur /\ r.mounted = k.mounted
  BY <1>1 DEF IsMachine, Quiet, Fields
<1> QED BY <1>1, <1>2

LEMMA ReadIs ==
  ASSUME NEW k, IsMachine(k), Fits(k), k.filetab \/ Live(k, Of(k).fs), NEW r, r = freeldr_read(k)
  PROVE  Same(k, r) /\ Fits(r)
<1>1. CASE k.filetab \/ k.open = None
  BY <1>1, SameSelf DEF freeldr_read
<1>2. CASE ~ (k.filetab \/ k.open = None)
  <2> DEFINE c == Call(k, Of(k).fs, "read")
             track == <<k.open.dev, k.open.dir, k.open.name, k.open.rel>>
  <2>1. Same(k, c) /\ Fits(c) /\ IsMachine(c)
    BY <1>2, CallIs DEF Live, Same, Quiet
  <2>2. r = Disk(c, track)
    BY <1>2 DEF freeldr_read
  <2> HIDE DEF c, track
  <2>3. Same(c, r) /\ r.called = c.called
    BY <2>1, <2>2, DiskIs
  <2> QED BY <2>1, <2>3, SameTrans, SameFits
<1> QED BY <1>1, <1>2
LEMMA OpenOwnIs ==
  ASSUME NEW k, IsMachine(k), Fits(k), k.filetab \/ Live(k, Of(k).fs), NEW f, IsName(f), NEW r, r = OpenOwn(k, f)
  PROVE  /\ Quiet(k, r) /\ Fits(r)
         /\ k.filetab => (r.ok <=> MuFiles(f) # {})
         /\ ~ k.filetab /\ <<k.at[Of(k).fs].code, k.saved>> \in Mountable => (r.ok <=> Key(k.saved, f) \in DOMAIN Files)
<1>0. DOMAIN k = Fields /\ Len(f.dir) \in Nat
  BY DEF IsMachine, IsName
<1>1. CASE k.filetab
  BY <1>1, MuOpenIs, SameFits DEF OpenOwn
<1>2. CASE ~ k.filetab
  <2> DEFINE there == IF k.cur = k.saved THEN [k EXCEPT !.mounted = TRUE] ELSE OpenDevice([k EXCEPT !.cur = k.saved])
             can == <<k.at[Of(k).fs].code, k.saved>> \in Mountable
  <2>1. Quiet(k, there) /\ Fits(there) /\ there.cur = k.saved /\ (can => there.mounted)
    <3>1. CASE k.cur = k.saved
      <4>1. /\ DOMAIN there = Fields /\ there.mounted = TRUE
            /\ \A x \in Fields : x # "mounted" => there[x] = k[x]
        BY <1>0, <3>1 DEF Fields
      <4> HIDE DEF there
      <4>2. Quiet(k, there) /\ there.called = k.called /\ there.cur = k.cur
        BY <4>1 DEF IsMachine, Quiet, Fields
      <4> QED BY <3>1, <4>1, <4>2, SameFits
    <3>2. CASE k.cur # k.saved
      <4> DEFINE c == [k EXCEPT !.cur = k.saved]
      <4>1. DOMAIN c = Fields /\ c.cur = k.saved /\ \A x \in Fields : x # "cur" => c[x] = k[x]
        BY <1>0 DEF Fields
      <4>2. there = OpenDevice(c)
        BY <3>2
      <4> HIDE DEF c, there
      <4>3. Quiet(k, c) /\ c.called = k.called
        BY <4>1 DEF IsMachine, Quiet, Fields
      <4>4. IsMachine(c) /\ Fits(c) /\ Of(c).fs = Of(k).fs /\ Live(c, Of(c).fs) /\ c.at = k.at
        BY <1>2, <4>3, QuietLive, SameFits DEF Quiet
      <4>5. Quiet(c, there) /\ Fits(there) /\ there.cur = c.cur /\ (there.mounted <=> <<c.at[Of(c).fs].code, c.cur>> \in Mountable)
        BY <4>2, <4>4, OpenDeviceIs
      <4> QED BY <4>1, <4>3, <4>4, <4>5, QuietTrans
    <3> QED BY <3>1, <3>2
  <2>2. r = IF there.mounted THEN Dir(there, f) ELSE [there EXCEPT !.ok = FALSE]
    BY <1>2 DEF OpenOwn
  <2> HIDE DEF there, can
  <2>3. IsMachine(there) /\ Of(there).fs = Of(k).fs /\ Live(there, Of(there).fs)
    <3>1. IsMachine(there)
      BY <2>1 DEF Quiet
    <3> QED BY <1>2, <2>1, <3>1, QuietLive
  <2>4. CASE there.mounted
    <3>1. Quiet(there, r) /\ Fits(r) /\ (r.ok <=> Key(there.cur, f) \in DOMAIN Files)
      BY <1>0, <2>1, <2>2, <2>3, <2>4, DirIs
    <3> QED BY <1>2, <2>1, <3>1, QuietTrans
  <2>5. CASE ~ there.mounted
    <3>1. DOMAIN there = Fields
      BY <2>3 DEF IsMachine
    <3>2. DOMAIN r = Fields /\ r.ok = FALSE /\ \A x \in Fields : x # "ok" => r[x] = there[x]
      BY <2>2, <2>5, <3>1 DEF Fields
    <3>3. Quiet(there, r) /\ r.called = there.called
      BY <2>3, <3>2 DEF IsMachine, Quiet, Fields
    <3> QED BY <1>2, <2>1, <2>5, <3>3, QuietTrans, SameFits DEF can
  <2> QED BY <2>4, <2>5
<1> QED BY <1>1, <1>2

-------------------------------------------------------------------------------
(* Drivers.                                                                    *)

\* The terminal in use can be called.
Good(k) == IsMachine(k) /\ Fits(k) /\ (Of(k).use_term => Live(k, "TERM"))

\* The driver in use is the one relocated for EXT3HIBUF.
Up(k) == Of(k).fs = "EXT3HI" /\ Live(k, "EXT3HI")

\* The saved uFSD works where set_boot_fsys() copies it.
Spare(k) == k.at["UFSD"] # None /\ k.at["UFSD"].base = "EXT3HI"

\* What changing drivers leaves alone.
Keeps(k, r) ==
  /\ IsMachine(r) /\ r.me = k.me /\ r.micro = k.micro /\ r.filetab = k.filetab /\ (k.panic => r.panic)
  /\ r.prefix = k.prefix /\ r.ldrlen = k.ldrlen /\ r.given = k.given /\ r.loaded = k.loaded /\ r.saved = k.saved
  /\ \A b \in Buffers : b # "EXT3HI" => r.at[b] = k.at[b]
  /\ \A c \in Sides : r.v[c].use_term = k.v[c].use_term /\ r.v[c].scratch = k.v[c].scratch /\ r.v[c].stage0 = k.v[c].stage0

LEMMA KeepsTrans == ASSUME NEW k, NEW r, NEW q, Keeps(k, r), Keeps(r, q) PROVE Keeps(k, q)
BY DEF Keeps

LEMMA KeepsSelf == ASSUME NEW k, IsMachine(k) PROVE Keeps(k, k)
BY DEF Keeps

LEMMA QuietKeeps == ASSUME NEW k, NEW r, Quiet(k, r) PROVE Keeps(k, r)
BY DEF Quiet, Keeps

LEMMA KeepsTerm ==
  ASSUME NEW k, IsMachine(k), NEW r, Keeps(k, r)
  PROVE  Of(r).use_term = Of(k).use_term /\ (Live(r, "TERM") <=> Live(k, "TERM")) /\ (Spare(k) <=> Spare(r))
<1>1. k.me \in Sides /\ "TERM" \in Buffers /\ "UFSD" \in Buffers
  BY DEF IsMachine, Buffers
<1>2. r.me = k.me /\ r.at["TERM"] = k.at["TERM"] /\ r.at["UFSD"] = k.at["UFSD"] /\ r.v[k.me].use_term = k.v[k.me].use_term
  BY <1>1 DEF Keeps
<1> QED BY <1>2 DEF Live, Placed, Of, Spare

LEMMA QuietGood == ASSUME NEW k, Good(k), NEW r, Quiet(k, r), Fits(r) PROVE Good(r) /\ (Up(k) <=> Up(r))
<1>1. IsMachine(r) /\ Of(r).fs = Of(k).fs /\ Of(r).use_term = Of(k).use_term
      /\ (Live(k, "TERM") <=> Live(r, "TERM")) /\ (Live(k, "EXT3HI") <=> Live(r, "EXT3HI"))
  BY QuietLive DEF Good, Quiet
<1> QED BY <1>1 DEF Good, Up

LEMMA SayIs == ASSUME NEW k, Good(k), NEW r, r = Say(k) PROVE Same(k, r) /\ Fits(r)
<1>1. CASE Of(k).use_term
  BY <1>1, CallIs DEF Say, Good, Live
<1>2. CASE ~ Of(k).use_term
  BY <1>2, SameSelf DEF Say, Good
<1> QED BY <1>1, <1>2

\* A driver that is in its buffer is linked to the copy that runs.
LEMMA InitIs ==
  ASSUME NEW k, IsMachine(k), Fits(k), NEW b \in {"EXT_BUF", "EXT3HI"}, Placed(k, b), NEW r, r = fsd_init(k, b)
  PROVE  /\ IsMachine(r) /\ Fits(r) /\ Live(r, b) /\ Of(r).fs = b /\ r.at[b].code = k.at[b].code
         /\ \A d \in Buffers : d # b => r.at[d] = k.at[d]
         /\ \A x \in Fields : x \notin {"at", "v", "called"} => r[x] = k[x]
         /\ \A c \in Sides : r.v[c].use_term = k.v[c].use_term /\ r.v[c].scratch = k.v[c].scratch
                             /\ r.v[c].stage0 = k.v[c].stage0 /\ r.v[c].tag = k.v[c].tag
<1> DEFINE c == Call(k, b, "init")
<1>1. Same(k, c) /\ Fits(c)
  BY CallIs
<1>2. DOMAIN k = Fields /\ DOMAIN c = Fields /\ \A x \in Fields : x # "called" => c[x] = k[x]
  <2>1. DOMAIN k = Fields
    BY DEF IsMachine
  <2> QED BY <2>1 DEF Call, Fields
<1> HIDE DEF c
<1>3. b \in Buffers /\ c.at = k.at /\ c.v = k.v /\ c.me = k.me /\ k.me \in Sides
  BY <1>2 DEF IsMachine, Fields, Buffers
<1>4. Linked(c, b) = [c EXCEPT !.at[b].lip = k.me]
  BY <1>3 DEF Linked, Placed
<1>5. /\ DOMAIN r = Fields /\ \A x \in Fields : x \notin {"at", "v"} => r[x] = c[x]
      /\ r.at = [k.at EXCEPT ![b].lip = k.me] /\ r.v = [k.v EXCEPT ![k.me].fs = b]
  <2> DEFINE l == Linked(c, b)
  <2>1. DOMAIN l = Fields /\ l.at = [k.at EXCEPT ![b].lip = k.me] /\ \A x \in Fields : x # "at" => l[x] = c[x]
    BY <1>2, <1>3, <1>4 DEF Fields
  <2>2. r = [l EXCEPT !.v[k.me].fs = b]
    BY DEF fsd_init, c
  <2> HIDE DEF l
  <2> QED BY <1>3, <2>1, <2>2 DEF Fields
<1>6. k.at \in [Buffers -> Codes \cup {None}] /\ DOMAIN k.v = Sides /\ \A x \in Sides : DOMAIN k.v[x] = SideFields
  BY DEF IsMachine
<1>7. k.at[b] \in Codes
  BY <1>3, <1>6 DEF Placed
<1>8. /\ r.at \in [Buffers -> Codes \cup {None}] /\ r.at[b] = [k.at[b] EXCEPT !.lip = k.me]
      /\ \A d \in Buffers : d # b => r.at[d] = k.at[d]
  <2>1. [k.at[b] EXCEPT !.lip = k.me] \in Codes
    BY <1>3, <1>7 DEF Codes, Sides
  <2> QED BY <1>3, <1>5, <1>6, <2>1
<1>9. r.at[b] # None /\ r.at[b].base = b /\ r.at[b].lip = k.me /\ r.at[b].code = k.at[b].code
  <2>1. r.at[b] \in Codes
    BY <1>3, <1>7, <1>8 DEF Codes, Sides
  <2> QED BY <1>7, <1>8, <2>1, ConstantsAssumption DEF Placed, Codes
<1>10. DOMAIN r.v = Sides /\ r.v[k.me].fs = b
       /\ \A x \in Sides : /\ DOMAIN r.v[x] = SideFields /\ r.v[x].fs \in {k.v[x].fs, b}
                           /\ r.v[x].use_term = k.v[x].use_term /\ r.v[x].scratch = k.v[x].scratch
                           /\ r.v[x].stage0 = k.v[x].stage0 /\ r.v[x].tag = k.v[x].tag
  BY <1>3, <1>5, <1>6 DEF SideFields
<1>11. \A x \in Fields : x \notin {"at", "v", "called"} => r[x] = k[x]
  BY <1>2, <1>5
<1>12. r.me = k.me /\ r.called = c.called
  BY <1>5, <1>11 DEF Fields
<1>13. IsMachine(r)
  BY <1>5, <1>8, <1>10, <1>11 DEF IsMachine, Fields
<1>14. Fits(r)
  BY <1>1, <1>12, SameFits
<1>15. Live(r, b) /\ Of(r).fs = b
  BY <1>3, <1>9, <1>10, <1>12 DEF Live, Placed, Of
<1> QED BY <1>8, <1>9, <1>10, <1>11, <1>13, <1>14, <1>15
LEMMA BootIs ==
  ASSUME NEW k, Good(k), Spare(k), NEW r, r = set_boot_fsys(k)
  PROVE  /\ Keeps(k, r) /\ Good(r) /\ Up(r) /\ r.at["EXT3HI"].code = k.at["UFSD"].code
         /\ r.cur = k.cur /\ r.mounted = k.mounted /\ r.ok = k.ok /\ r.panic = k.panic
<1> DEFINE c == Copied(k, "EXT3HI", "UFSD")
<1>0. "UFSD" \in Buffers /\ "EXT3HI" \in Buffers /\ "TERM" \in Buffers /\ k.at \in [Buffers -> Codes \cup {None}] /\ DOMAIN k = Fields
  BY DEF Good, IsMachine, Buffers
<1>1. /\ DOMAIN c = Fields /\ c.at = [k.at EXCEPT !["EXT3HI"] = k.at["UFSD"]]
      /\ \A x \in Fields : x # "at" => c[x] = k[x]
  BY <1>0 DEF Copied, Fields
<1>2. r = fsd_init(c, "EXT3HI")
  BY DEF set_boot_fsys
<1> HIDE DEF c
<1>3. /\ c.at \in [Buffers -> Codes \cup {None}] /\ c.at["EXT3HI"] = k.at["UFSD"]
      /\ \A d \in Buffers : d # "EXT3HI" => c.at[d] = k.at[d]
  BY <1>0, <1>1
<1>4. IsMachine(c)
  BY <1>1, <1>3 DEF Good, IsMachine, Fields
<1>5. Fits(c) /\ Placed(c, "EXT3HI")
  BY <1>1, <1>3, SameFits DEF Good, Spare, Placed, Fields
<1>6. /\ IsMachine(r) /\ Fits(r) /\ Live(r, "EXT3HI") /\ Of(r).fs = "EXT3HI" /\ r.at["EXT3HI"].code = c.at["EXT3HI"].code
      /\ \A d \in Buffers : d # "EXT3HI" => r.at[d] = c.at[d]
      /\ \A x \in Fields : x \notin {"at", "v", "called"} => r[x] = c[x]
      /\ \A x \in Sides : r.v[x].use_term = c.v[x].use_term /\ r.v[x].scratch = c.v[x].scratch
                          /\ r.v[x].stage0 = c.v[x].stage0 /\ r.v[x].tag = c.v[x].tag
  BY <1>2, <1>4, <1>5, InitIs
<1>7. Keeps(k, r) /\ r.cur = k.cur /\ r.mounted = k.mounted /\ r.ok = k.ok /\ r.panic = k.panic
  BY <1>1, <1>3, <1>6 DEF Keeps, Fields
<1>8. Good(r)
  BY <1>6, <1>7, KeepsTerm DEF Good
<1> QED BY <1>3, <1>6, <1>7, <1>8 DEF Up

LEMMA FetchedIs ==
  ASSUME NEW k, Good(k), k.filetab \/ Up(k), NEW f, IsName(f), f.name \in STRING, NEW r, r = Fetched(k, f)
  PROVE  /\ Keeps(k, r) /\ Good(r) /\ (~ k.filetab \/ r.ok \/ Up(k) => Up(r))
         /\ (k.ok => r.ok \/ r.panic) /\ (r.ok => k.ok) /\ (r.panic => k.panic \/ ~ r.ok)
         /\ r.at["EXT3HI"].code = IF r.ok THEN f.name ELSE k.at["EXT3HI"].code
<1>0. k.filetab \/ Live(k, Of(k).fs)
  BY DEF Up
<1>1. CASE ~ k.ok
  BY <1>1, KeepsSelf DEF Fetched, Good
<1>2. CASE k.ok
  <2> DEFINE a == freeldr_read(k)
             b == OpenOwn(a, RelOf(f))
  <2>1. Same(k, a) /\ Fits(a) /\ IsMachine(a) /\ (a.filetab \/ Live(a, Of(a).fs))
    <3>1. Same(k, a) /\ Fits(a)
      BY <1>0, ReadIs DEF Good
    <3> HIDE DEF a
    <3> QED BY <1>0, <3>1, QuietLive DEF Same, Quiet, Good
  <2>2. IsName(RelOf(f))
    BY DEF IsName, RelOf
  <2> HIDE DEF a
  <2>3. Quiet(a, b) /\ Fits(b)
    BY <2>1, <2>2, OpenOwnIs
  <2>4. r = IF ~ b.ok THEN [b EXCEPT !.panic = TRUE]
            ELSE Say(fsd_init([freeldr_read(b) EXCEPT !.at["EXT3HI"] = [code |-> f.name, base |-> "EXT3HI", lip |-> None]], "EXT3HI"))
    BY <1>2 DEF Fetched, a
  <2> HIDE DEF b
  <2>5. Quiet(k, b) /\ IsMachine(b) /\ DOMAIN b = Fields
    BY <2>1, <2>3, QuietTrans DEF Same, Quiet, IsMachine
  <2>6. Good(b) /\ (Up(k) <=> Up(b)) /\ (b.filetab \/ Live(b, Of(b).fs))
    <3>1. Good(b) /\ (Up(k) <=> Up(b))
      BY <2>3, <2>5, QuietGood
    <3> QED BY <3>1, <2>5 DEF Up, Quiet
  <2>7. CASE ~ b.ok
    <3>1. DOMAIN r = Fields /\ r.panic = TRUE /\ \A x \in Fields : x # "panic" => r[x] = b[x]
      BY <2>4, <2>5, <2>7 DEF Fields
    <3>2. IsMachine(r) /\ r.called = b.called /\ r.at = b.at /\ r.v = b.v /\ r.me = b.me /\ ~ r.ok /\ r.filetab = b.filetab
      BY <2>5, <2>7, <3>1 DEF IsMachine, Fields
    <3>3. Keeps(b, r)
      BY <3>1, <3>2 DEF Keeps, Fields
    <3>4. Keeps(k, r)
      BY <2>5, <3>3, QuietKeeps, KeepsTrans
    <3>5. Good(r) /\ (Up(b) <=> Up(r))
      BY <2>6, <3>2, SameFits DEF Good, Up, Live, Placed, Of
    <3> QED BY <2>5, <2>6, <3>1, <3>2, <3>4, <3>5 DEF Quiet
  <2>8. CASE b.ok
    <3> DEFINE c == freeldr_read(b)
               new == [code |-> f.name, base |-> "EXT3HI", lip |-> None]
               d == [c EXCEPT !.at["EXT3HI"] = new]
               e == fsd_init(d, "EXT3HI")
    <3>1. Same(b, c) /\ Fits(c)
      BY <2>6, ReadIs DEF Good
    <3>2. r = Say(e)
      BY <2>4, <2>8
    <3>3. new \in Codes /\ new # None /\ new.base = "EXT3HI" /\ new.code = f.name
      BY ConstantsAssumption DEF Codes, Buffers
    <3> HIDE DEF c, new
    <3>4. Quiet(k, c) /\ IsMachine(c) /\ DOMAIN c = Fields /\ c.ok = TRUE /\ Good(c)
      <4>1. Quiet(k, c) /\ c.ok = b.ok /\ b.ok \in BOOLEAN
        BY <2>5, <3>1, QuietTrans DEF Same, IsMachine
      <4>2. IsMachine(c) /\ DOMAIN c = Fields
        BY <4>1 DEF Quiet, IsMachine
      <4> QED BY <2>8, <3>1, <4>1, <4>2, QuietGood
    <3>5. /\ DOMAIN d = Fields /\ d.at = [c.at EXCEPT !["EXT3HI"] = new]
          /\ \A x \in Fields : x # "at" => d[x] = c[x]
      BY <3>4 DEF Fields
    <3> HIDE DEF d
    <3>6. "EXT3HI" \in Buffers /\ c.at \in [Buffers -> Codes \cup {None}]
      BY <3>4 DEF IsMachine, Buffers
    <3>7. /\ d.at \in [Buffers -> Codes \cup {None}] /\ d.at["EXT3HI"] = new
          /\ \A x \in Buffers : x # "EXT3HI" => d.at[x] = c.at[x]
      BY <3>3, <3>5, <3>6
    <3>8. IsMachine(d)
      BY <3>4, <3>5, <3>7 DEF IsMachine, Fields
    <3>9. Placed(d, "EXT3HI") /\ Fits(d)
      BY <3>1, <3>3, <3>5, <3>7, SameFits DEF Placed, Fields
    <3>10. /\ IsMachine(e) /\ Fits(e) /\ Live(e, "EXT3HI") /\ Of(e).fs = "EXT3HI" /\ e.at["EXT3HI"].code = d.at["EXT3HI"].code
           /\ \A x \in Buffers : x # "EXT3HI" => e.at[x] = d.at[x]
           /\ \A x \in Fields : x \notin {"at", "v", "called"} => e[x] = d[x]
           /\ \A x \in Sides : e.v[x].use_term = d.v[x].use_term /\ e.v[x].scratch = d.v[x].scratch
                               /\ e.v[x].stage0 = d.v[x].stage0 /\ e.v[x].tag = d.v[x].tag
      BY <3>8, <3>9, InitIs
    <3> HIDE DEF e
    <3>11. Keeps(c, e) /\ e.ok = c.ok /\ e.panic = c.panic
      BY <3>5, <3>7, <3>10 DEF Keeps, Fields
    <3>12. Keeps(k, e)
      BY <3>4, <3>11, QuietKeeps, KeepsTrans
    <3>13. Good(e) /\ Up(e)
      BY <3>10, <3>12, KeepsTerm DEF Good, Up
    <3>14. Same(e, r) /\ Fits(r)
      BY <3>2, <3>13, SayIs
    <3>15. Keeps(k, r) /\ Good(r) /\ Up(r)
      BY <3>12, <3>13, <3>14, QuietKeeps, KeepsTrans, QuietGood DEF Same
    <3>16. r.ok = TRUE /\ r.panic = k.panic /\ r.at["EXT3HI"].code = f.name
      BY <3>3, <3>4, <3>7, <3>10, <3>11, <3>14 DEF Same, Quiet
    <3> QED BY <1>2, <3>15, <3>16
  <2> QED BY <2>7, <2>8
<1> QED BY <1>1, <1>2

LEMMA FsysFileIs == ASSUME NEW d \in STRING PROVE IsName(FsysFile(d)) /\ FsysFile(d).name = d
<1> DEFINE S == {"boot", "loader", "fsd"}
<1>1. <<"boot", "loader">> \in Seq(S) /\ <<"fsd">> \in Seq(S)
  OBVIOUS
<1>2. Len(Preldr \o <<"fsd">>) \in Nat
  <2> HIDE DEF S
  <2> QED BY <1>1 DEF Preldr
<1> QED BY <1>2 DEF IsName, FsysFile, Name

\* A driver that has been fetched is the one in use.
LEMMA SetFsysIs ==
  ASSUME NEW k, Good(k), k.filetab \/ Spare(k), NEW driver \in STRING, NEW r, r = set_fsys(k, driver)
  PROVE  /\ Keeps(k, r) /\ Good(r) /\ (~ k.filetab \/ r.ok \/ Up(k) => Up(r)) /\ (r.panic => k.panic \/ ~ r.ok)
         /\ k.filetab /\ MuFiles(FsysFile(driver)) # {} => r.ok \/ r.panic
         /\ ~ k.filetab => r.at["EXT3HI"].code = IF r.ok THEN driver ELSE k.at["UFSD"].code
         /\ ~ k.filetab /\ <<k.at["UFSD"].code, k.saved>> \in Mountable =>
              /\ r.ok => Key(k.saved, FsysFile(driver)) \in DOMAIN Files
              /\ Key(k.saved, FsysFile(driver)) \in DOMAIN Files => r.ok \/ r.panic
<1> DEFINE f == FsysFile(driver)
           a == IF k.filetab THEN k ELSE set_boot_fsys(k)
           b == OpenOwn(a, f)
<1>0. IsName(f) /\ f.name = driver
  BY FsysFileIs
<1>1. /\ Keeps(k, a) /\ Good(a) /\ (~ k.filetab => Up(a) /\ a.at["EXT3HI"].code = k.at["UFSD"].code)
      /\ (k.filetab => a = k) /\ a.panic = k.panic
  <2>1. CASE k.filetab
    BY <2>1, KeepsSelf DEF Good
  <2>2. CASE ~ k.filetab
    <3>1. a = set_boot_fsys(k)
      BY <2>2
    <3> HIDE DEF a
    <3> QED BY <2>2, <3>1, BootIs
  <2> QED BY <2>1, <2>2
<1>2. r = Fetched(b, f)
  BY DEF set_fsys
<1> HIDE DEF f, a
<1>3. a.filetab = k.filetab /\ a.saved = k.saved /\ IsMachine(a) /\ Fits(a) /\ (a.filetab \/ Live(a, Of(a).fs))
  BY <1>1 DEF Keeps, Good, Up
<1>4. /\ Quiet(a, b) /\ Fits(b)
      /\ a.filetab => (b.ok <=> MuFiles(f) # {})
      /\ ~ a.filetab /\ <<a.at[Of(a).fs].code, a.saved>> \in Mountable => (b.ok <=> Key(a.saved, f) \in DOMAIN Files)
  BY <1>0, <1>3, OpenOwnIs
<1> HIDE DEF b
<1>5. Good(b) /\ (Up(a) <=> Up(b)) /\ (b.filetab \/ Up(b)) /\ Keeps(k, b) /\ b.filetab = k.filetab /\ b.panic = k.panic
  <2>1. Good(b) /\ (Up(a) <=> Up(b)) /\ b.filetab = k.filetab /\ b.panic = k.panic
    BY <1>1, <1>3, <1>4, QuietGood DEF Quiet
  <2>2. Keeps(k, b)
    BY <1>1, <1>4, QuietKeeps, KeepsTrans
  <2> QED BY <1>1, <2>1, <2>2
<1>6. /\ Keeps(b, r) /\ Good(r) /\ (~ b.filetab \/ r.ok \/ Up(b) => Up(r))
      /\ (b.ok => r.ok \/ r.panic) /\ (r.ok => b.ok) /\ (r.panic => b.panic \/ ~ r.ok)
      /\ r.at["EXT3HI"].code = IF r.ok THEN f.name ELSE b.at["EXT3HI"].code
  BY <1>0, <1>2, <1>5, FetchedIs
<1>7. Keeps(k, r)
  BY <1>5, <1>6, KeepsTrans
<1>8. ~ k.filetab => a.at[Of(a).fs].code = k.at["UFSD"].code /\ b.at = a.at /\ b.at["EXT3HI"].code = k.at["UFSD"].code
  BY <1>1, <1>4 DEF Up, Quiet
<1> QED BY <1>0, <1>1, <1>3, <1>4, <1>5, <1>6, <1>7, <1>8 DEF f
-------------------------------------------------------------------------------
(* Devices.                                                                    *)

LEMMA TriedIs ==
  ASSUME NEW k, Good(k), k.ok => Up(k), NEW dev, NEW r, r = Tried(k, dev)
  PROVE  /\ Quiet(k, r) /\ Good(r) /\ (Up(k) <=> Up(r)) /\ (r.mounted => r.cur = dev)
         /\ (r.mounted <=> k.ok /\ <<k.at["EXT3HI"].code, dev>> \in Mountable)
<1>0. DOMAIN k = Fields /\ IsMachine(k) /\ Fits(k)
  BY DEF Good, IsMachine
<1>1. CASE k.ok
  <2> DEFINE c == [k EXCEPT !.cur = dev]
  <2>1. DOMAIN c = Fields /\ c.cur = dev /\ \A x \in Fields : x # "cur" => c[x] = k[x]
    BY <1>0 DEF Fields
  <2>2. r = OpenDevice(c)
    BY <1>1 DEF Tried
  <2> HIDE DEF c
  <2>3. Quiet(k, c) /\ c.called = k.called
    BY <1>0, <2>1 DEF IsMachine, Quiet, Fields
  <2>4. IsMachine(c) /\ Fits(c) /\ Of(c).fs = "EXT3HI" /\ Live(c, Of(c).fs) /\ c.at = k.at
    BY <1>0, <1>1, <2>3, QuietLive, SameFits DEF Quiet, Up
  <2>5. /\ Quiet(c, r) /\ Fits(r) /\ r.cur = c.cur
        /\ (r.mounted <=> <<c.at[Of(c).fs].code, c.cur>> \in Mountable)
    BY <2>2, <2>4, OpenDeviceIs
  <2>6. Quiet(k, r) /\ Fits(r)
    BY <2>3, <2>5, QuietTrans
  <2>7. Good(r) /\ (Up(k) <=> Up(r))
    BY <2>6, QuietGood
  <2> QED BY <1>1, <2>1, <2>4, <2>5, <2>6, <2>7
<1>2. CASE ~ k.ok
  <2>1. DOMAIN r = Fields /\ r.mounted = FALSE /\ \A x \in Fields : x # "mounted" => r[x] = k[x]
    BY <1>0, <1>2 DEF Tried, Fields
  <2>2. Quiet(k, r) /\ r.called = k.called
    BY <1>0, <2>1 DEF IsMachine, Quiet, Fields
  <2> QED BY <1>0, <1>2, <2>1, <2>2, SameFits, QuietGood
<1> QED BY <1>1, <1>2

\* Whether a driver can be fetched from the root device.
Offered(root, d) == Key(root, FsysFile(d)) \in DOMAIN Files

\* The uFSD understands the root device.
Rooted(k) == ~ k.filetab /\ <<k.at["UFSD"].code, k.saved>> \in Mountable

ListStep(dev, a, driver) == IF a.mounted \/ a.panic THEN a ELSE Tried(set_fsys(a, driver), dev)

LEMMA ListStepIs ==
  ASSUME NEW a, Good(a), a.filetab \/ Spare(a), NEW driver \in STRING, NEW dev, NEW r, r = ListStep(dev, a, driver)
  PROVE  /\ Keeps(a, r) /\ Good(r) /\ (Up(a) => Up(r)) /\ (a.mounted => r = a)
         /\ r.mounted /\ ~ a.mounted => Up(r) /\ r.cur = dev /\ <<r.at["EXT3HI"].code, dev>> \in Mountable
         /\ ~ a.mounted /\ a.filetab /\ MuFiles(FsysFile(driver)) # {} => Up(r) \/ r.panic
         /\ Rooted(a) =>
              /\ \/ r.at["EXT3HI"].code \in {a.at["EXT3HI"].code, a.at["UFSD"].code}
                 \/ r.at["EXT3HI"].code = driver /\ Offered(a.saved, driver)
              /\ Offered(a.saved, driver) /\ <<driver, dev>> \in Mountable => r.mounted \/ r.panic
<1>1. CASE a.mounted \/ a.panic
  BY <1>1, KeepsSelf DEF ListStep, Good
<1>2. CASE ~ (a.mounted \/ a.panic)
  <2> DEFINE s == set_fsys(a, driver)
  <2>1. r = Tried(s, dev)
    BY <1>2 DEF ListStep
  <2>2. /\ Keeps(a, s) /\ Good(s) /\ (~ a.filetab \/ s.ok \/ Up(a) => Up(s))
        /\ a.filetab /\ MuFiles(FsysFile(driver)) # {} => s.ok \/ s.panic
        /\ ~ a.filetab => s.at["EXT3HI"].code = IF s.ok THEN driver ELSE a.at["UFSD"].code
        /\ ~ a.filetab /\ <<a.at["UFSD"].code, a.saved>> \in Mountable =>
             /\ s.ok => Key(a.saved, FsysFile(driver)) \in DOMAIN Files
             /\ Key(a.saved, FsysFile(driver)) \in DOMAIN Files => s.ok \/ s.panic
    BY SetFsysIs
  <2> HIDE DEF s
  <2>3. /\ Quiet(s, r) /\ Good(r) /\ (Up(s) <=> Up(r)) /\ (r.mounted => r.cur = dev)
        /\ (r.mounted <=> s.ok /\ <<s.at["EXT3HI"].code, dev>> \in Mountable)
    BY <2>1, <2>2, TriedIs
  <2>4. Keeps(a, r) /\ r.at = s.at /\ r.panic = s.panic
    BY <2>2, <2>3, QuietKeeps, KeepsTrans DEF Quiet
  <2>5. Rooted(a) =>
          /\ \/ r.at["EXT3HI"].code \in {a.at["EXT3HI"].code, a.at["UFSD"].code}
             \/ r.at["EXT3HI"].code = driver /\ Offered(a.saved, driver)
          /\ Offered(a.saved, driver) /\ <<driver, dev>> \in Mountable => r.mounted \/ r.panic
    BY <2>2, <2>3, <2>4 DEF Rooted, Offered
  <2> QED BY <1>2, <2>2, <2>3, <2>4, <2>5
<1> QED BY <1>1, <1>2

\* The drivers listed are tried one after another.
LEMMA ListSteps ==
  ASSUME IsConfiguration(conf), NEW st, NEW dev, NEW w, w = ListedTried(st, dev)
  PROVE  /\ Len(conf.fsys_list) \in Nat
         /\ \E f : /\ f[0] = st /\ f[Len(conf.fsys_list)] = w
                   /\ \A n \in 1..Len(conf.fsys_list) : f[n] = ListStep(dev, f[n - 1], conf.fsys_list[n])
<1> DEFINE Step(a, d) == ListStep(dev, a, d)
           q == conf.fsys_list
           N == Len(q)
           Iter(n, it) == it = [s \in SUBSET (1..n) |-> IF s = {} THEN st ELSE Step(it[s \ {Max(s)}], q[Max(s)])]
           T == {n \in Nat : \E it : Iter(n, it)}
<1>0. N \in Nat /\ DOMAIN q = 1..N
  BY DEF IsConfiguration
<1>1. w = LET it == CHOOSE it : Iter(N, it) IN it[1..N]
  BY <1>0, Zenon DEF ListedTried, FoldLeft, MapThenFoldSet, ListStep
<1> HIDE DEF Step, q, N
<1>2. 0 \in T
  <2> DEFINE it == [s \in SUBSET (1..0) |-> st]
  <2>1. Iter(0, it)
    OBVIOUS
  <2> QED BY <2>1
<1>3. \A n \in T : n < N => n + 1 \in T
  <2> SUFFICES ASSUME NEW n \in Nat, \E it : Iter(n, it) PROVE \E h : Iter(n + 1, h)
    <3> HIDE DEF Iter
    <3> QED OBVIOUS
  <2> PICK it : Iter(n, it)
    OBVIOUS
  <2> DEFINE h == [s \in SUBSET (1..(n + 1)) |-> IF n + 1 \in s THEN Step(it[s \ {n + 1}], q[n + 1]) ELSE it[s]]
  <2>1. ASSUME NEW s \in SUBSET (1..(n + 1))
        PROVE  h[s] = IF s = {} THEN st ELSE Step(h[s \ {Max(s)}], q[Max(s)])
    <3>1. CASE n + 1 \in s
      <4>1. Max(s) = n + 1
        BY <3>1, HighestIs
      <4>2. h[s \ {n + 1}] = it[s \ {n + 1}]
        OBVIOUS
      <4> QED BY <3>1, <4>1, <4>2
    <3>2. CASE n + 1 \notin s
      <4>1. s \in SUBSET (1..n) /\ h[s] = it[s] /\ \A x : n + 1 \notin s \ {x}
        BY <3>2
      <4>2. \A x : h[s \ {x}] = it[s \ {x}]
        BY <4>1
      <4>3. it[s] = IF s = {} THEN st ELSE Step(it[s \ {Max(s)}], q[Max(s)])
        BY <4>1, Zenon
      <4> QED BY <4>1, <4>2, <4>3
    <3> QED BY <3>1, <3>2
  <2>2. DOMAIN h = SUBSET (1..(n + 1)) /\ h = [s \in SUBSET (1..(n + 1)) |-> h[s]]
    OBVIOUS
  <2> HIDE DEF h
  <2>3. Iter(n + 1, h)
    BY <2>1, <2>2
  <2> QED BY <2>3
<1> DEFINE c == CHOOSE it : Iter(N, it)
<1>4. Iter(N, c)
  <2>1. T \in SUBSET Nat /\ N \in 0..N
    BY <1>0
  <2>2. N \in T
    <3> HIDE DEF T
    <3> QED BY <1>0, <1>2, <1>3, <2>1, Induction
  <2> QED BY <2>2
<1>5. w = c[1..N]
  BY <1>1, Zenon
<1> HIDE DEF c
<1>6. c[{}] = st
  BY <1>4
<1>7. ASSUME NEW n \in 1..N
      PROVE  c[1..n] = Step(c[1..(n - 1)], q[n])
  <2>1. n \in Nat /\ 1..n \in SUBSET (1..N) /\ n \in 1..n /\ (1..n) \ {n} = 1..(n - 1)
    BY <1>0
  <2>2. Max(1..n) = n
    BY <2>1, HighestIs
  <2>3. c[1..n] = Step(c[(1..n) \ {Max(1..n)}], q[Max(1..n)])
    BY <1>4, <2>1, Zenon
  <2> QED BY <2>1, <2>2, <2>3
<1> DEFINE f == [n \in 0..N |-> c[1..n]]
<1>8. f[0] = st /\ f[N] = w /\ \A n \in 1..N : f[n] = Step(f[n - 1], q[n])
  <2>1. 1..0 = {} /\ 0 \in 0..N /\ N \in 0..N /\ \A n \in 1..N : n \in 0..N /\ n - 1 \in 0..N
    BY <1>0
  <2> QED BY <1>5, <1>6, <1>7, <2>1
<1> QED BY <1>0, <1>8 DEF Step, q, N
\* The drivers that may be fetched, or are at hand.
Reach(k) == {k.at["UFSD"].code} \cup {d \in STRING : Offered(k.saved, d) /\ \E i \in 1..Len(conf.fsys_list) : conf.fsys_list[i] = d}

\* Where one of our own takes the place of a micro-FSD of 16 bits.
Served == \E i \in 1..Len(conf.fsys_list) : MuFiles(FsysFile(conf.fsys_list[i])) # {}

\* What has become of k when the first n drivers listed have been tried.
TriedUpTo(k, dev, n, a) ==
  /\ Keeps(k, a) /\ Good(a) /\ (Up(k) => Up(a)) /\ (k.mounted => a = k)
  /\ a.mounted /\ ~ k.mounted => Up(a) /\ a.cur = dev /\ <<a.at["EXT3HI"].code, dev>> \in Mountable
  /\ ~ k.mounted /\ k.filetab /\ (\E i \in 1..n : MuFiles(FsysFile(conf.fsys_list[i])) # {}) => Up(a) \/ a.panic
  /\ Rooted(k) =>
       /\ a.at["EXT3HI"].code \in Reach(k) \cup {k.at["EXT3HI"].code}
       /\ ~ a.mounted /\ ~ a.panic => \A i \in 1..n : Offered(k.saved, conf.fsys_list[i]) => <<conf.fsys_list[i], dev>> \notin Mountable

LEMMA TriedNext ==
  ASSUME IsConfiguration(conf), NEW k, k.filetab \/ Spare(k), NEW dev, NEW n \in Nat, n + 1 \in 1..Len(conf.fsys_list),
         NEW a, TriedUpTo(k, dev, n, a), NEW r, r = ListStep(dev, a, conf.fsys_list[n + 1]), IsMachine(k)
  PROVE  TriedUpTo(k, dev, n + 1, r)
<1> DEFINE driver == conf.fsys_list[n + 1]
<1>1. driver \in STRING
  BY DEF IsConfiguration
<1>2. /\ Keeps(k, a) /\ Good(a) /\ (Up(k) => Up(a)) /\ (k.mounted => a = k)
      /\ a.mounted /\ ~ k.mounted => Up(a) /\ a.cur = dev /\ <<a.at["EXT3HI"].code, dev>> \in Mountable
  BY DEF TriedUpTo
<1>3. a.filetab = k.filetab /\ a.saved = k.saved /\ a.at["UFSD"] = k.at["UFSD"] /\ (a.filetab \/ Spare(a))
  BY <1>2, KeepsTerm DEF Keeps, Buffers
<1>4. /\ Keeps(a, r) /\ Good(r) /\ (Up(a) => Up(r)) /\ (a.mounted => r = a)
      /\ r.mounted /\ ~ a.mounted => Up(r) /\ r.cur = dev /\ <<r.at["EXT3HI"].code, dev>> \in Mountable
      /\ ~ a.mounted /\ a.filetab /\ MuFiles(FsysFile(driver)) # {} => Up(r) \/ r.panic
      /\ Rooted(a) =>
           /\ \/ r.at["EXT3HI"].code \in {a.at["EXT3HI"].code, a.at["UFSD"].code}
              \/ r.at["EXT3HI"].code = driver /\ Offered(a.saved, driver)
           /\ Offered(a.saved, driver) /\ <<driver, dev>> \in Mountable => r.mounted \/ r.panic
  <2>1. r = ListStep(dev, a, driver)
    OBVIOUS
  <2> HIDE DEF driver
  <2> QED BY <1>1, <1>2, <1>3, <2>1, ListStepIs
<1>5. \A i \in 1..(n + 1) : i \in 1..n \/ i = n + 1
  OBVIOUS
<1>6. Keeps(k, r) /\ Good(r) /\ (Up(k) => Up(r)) /\ (k.mounted => r = k)
  BY <1>2, <1>4, KeepsTrans
<1>7. r.mounted /\ ~ k.mounted => Up(r) /\ r.cur = dev /\ <<r.at["EXT3HI"].code, dev>> \in Mountable
  BY <1>2, <1>4
<1>8. a.panic => r.panic
  BY <1>4 DEF Keeps
<1>9. ASSUME ~ k.mounted, k.filetab, NEW i \in 1..(n + 1), MuFiles(FsysFile(conf.fsys_list[i])) # {} PROVE Up(r) \/ r.panic
  <2>1. CASE i = n + 1
    BY <1>2, <1>3, <1>4, <1>9, <2>1
  <2>2. CASE i \in 1..n
    <3>1. Up(a) \/ a.panic
      BY <1>9, <2>2 DEF TriedUpTo
    <3> QED BY <1>4, <1>8, <3>1
  <2> QED BY <1>5, <2>1, <2>2
<1>10. ASSUME Rooted(k)
       PROVE  /\ r.at["EXT3HI"].code \in Reach(k) \cup {k.at["EXT3HI"].code}
              /\ ~ r.mounted /\ ~ r.panic =>
                   \A i \in 1..(n + 1) : Offered(k.saved, conf.fsys_list[i]) => <<conf.fsys_list[i], dev>> \notin Mountable
  <2>1. Rooted(a)
    BY <1>3, <1>10 DEF Rooted
  <2>2. /\ a.at["EXT3HI"].code \in Reach(k) \cup {k.at["EXT3HI"].code}
        /\ ~ a.mounted /\ ~ a.panic => \A i \in 1..n : Offered(k.saved, conf.fsys_list[i]) => <<conf.fsys_list[i], dev>> \notin Mountable
    BY <1>10 DEF TriedUpTo
  <2>3. Offered(k.saved, driver) => driver \in Reach(k)
    BY <1>1 DEF Reach
  <2>4. k.at["UFSD"].code \in Reach(k)
    BY DEF Reach
  <2>5. r.at["EXT3HI"].code \in Reach(k) \cup {k.at["EXT3HI"].code}
    BY <1>3, <1>4, <2>1, <2>2, <2>3, <2>4
  <2>6. ASSUME ~ r.mounted, ~ r.panic, NEW i \in 1..(n + 1), Offered(k.saved, conf.fsys_list[i])
        PROVE  <<conf.fsys_list[i], dev>> \notin Mountable
    <3>1. ~ a.mounted /\ ~ a.panic
      BY <1>4, <1>8, <2>6
    <3> QED BY <1>3, <1>4, <1>5, <2>1, <2>2, <2>6, <3>1
  <2> QED BY <2>5, <2>6
<1> QED BY <1>6, <1>7, <1>9, <1>10 DEF TriedUpTo

LEMMA ListedIs ==
  ASSUME IsConfiguration(conf), NEW k, Good(k), k.filetab \/ Spare(k), NEW dev, NEW r, r = ListedTried(k, dev)
  PROVE  TriedUpTo(k, dev, Len(conf.fsys_list), r)
<1> DEFINE N == Len(conf.fsys_list)
<1>1. N \in Nat /\ \E f : /\ f[0] = k /\ f[N] = r
                          /\ \A n \in 1..N : f[n] = ListStep(dev, f[n - 1], conf.fsys_list[n])
  BY ListSteps
<1>2. PICK f : /\ f[0] = k /\ f[N] = r
               /\ \A n \in 1..N : f[n] = ListStep(dev, f[n - 1], conf.fsys_list[n])
  BY <1>1
<1> DEFINE T == {n \in Nat : TriedUpTo(k, dev, n, f[n])}
<1>3. 0 \in T
  <2>1. TriedUpTo(k, dev, 0, k)
    BY KeepsSelf DEF TriedUpTo, Good
  <2> QED BY <1>2, <2>1
<1>4. ASSUME NEW n \in T, n < N PROVE n + 1 \in T
  <2>1. n \in Nat /\ n + 1 \in Nat /\ n + 1 \in 1..N /\ (n + 1) - 1 = n /\ TriedUpTo(k, dev, n, f[n])
    BY <1>1, <1>4
  <2>2. f[n + 1] = ListStep(dev, f[n], conf.fsys_list[n + 1])
    BY <1>2, <2>1
  <2> DEFINE b == f[n + 1]
             c == f[n]
  <2> HIDE DEF b, c
  <2>3. TriedUpTo(k, dev, n + 1, b)
    BY <2>1, <2>2, TriedNext DEF b, c, Good
  <2> QED BY <2>1, <2>3 DEF b
<1>5. T \in SUBSET Nat /\ \A n \in T : TriedUpTo(k, dev, n, f[n])
  OBVIOUS
<1> HIDE DEF T
<1>6. N \in T
  <2>1. \A n \in T : n < N => n + 1 \in T
    BY <1>4
  <2>2. \A n \in 0..N : n \in T
    BY <1>1, <1>3, <1>5, <2>1, Induction
  <2> QED BY <1>1, <2>2
<1> QED BY <1>2, <1>5, <1>6
LEMMA DevicesIs ==
  ASSUME IsConfiguration(conf), NEW k, Good(k), k.filetab \/ (Spare(k) /\ Up(k)), NEW r, r = open_device2(k)
  PROVE  /\ Keeps(k, r) /\ Good(r) /\ (Up(k) => Up(r)) /\ (k.filetab /\ Served => Up(r) \/ r.panic)
         /\ Rooted(k) /\ k.at["EXT3HI"].code \in Reach(k) =>
              /\ r.at["EXT3HI"].code \in Reach(k)
              /\ r.mounted => r.cur = k.cur /\ \E d \in Reach(k) : <<d, k.cur>> \in Mountable
              /\ ~ r.mounted /\ ~ r.panic => \A d \in Reach(k) : <<d, k.cur>> \notin Mountable
<1> DEFINE dev == k.cur
           o == OpenDevice(k)
           b == BootTried(o)
           s == IF k.filetab THEN [k EXCEPT !.mounted = FALSE] ELSE b
<1>0. DOMAIN k = Fields /\ IsMachine(k) /\ Fits(k)
  BY DEF Good, IsMachine
<1>1. r = ListedTried(s, dev)
  BY DEF open_device2
<1>2. ASSUME k.filetab
      PROVE  Keeps(k, s) /\ Good(s) /\ (Up(k) <=> Up(s)) /\ ~ s.mounted
  <2>1. DOMAIN s = Fields /\ s.mounted = FALSE /\ \A x \in Fields : x # "mounted" => s[x] = k[x]
    BY <1>0, <1>2 DEF Fields
  <2> HIDE DEF s
  <2>2. Quiet(k, s) /\ s.called = k.called
    BY <1>0, <2>1 DEF IsMachine, Quiet, Fields
  <2>3. Fits(s)
    BY <1>0, <2>2, SameFits
  <2> QED BY <2>1, <2>2, <2>3, QuietGood, QuietKeeps
<1>3. ASSUME ~ k.filetab
      PROVE  /\ Keeps(k, s) /\ Good(s) /\ Up(s) /\ s.cur = dev /\ s.panic = k.panic
             /\ s.at["EXT3HI"].code \in {k.at["EXT3HI"].code, k.at["UFSD"].code}
             /\ s.mounted => <<s.at["EXT3HI"].code, dev>> \in Mountable
             /\ ~ s.mounted => <<k.at["UFSD"].code, dev>> \notin Mountable
  <2>1. Up(k) /\ Spare(k) /\ Live(k, Of(k).fs)
    BY <1>3 DEF Up
  <2>2. /\ Quiet(k, o) /\ Fits(o) /\ o.cur = k.cur
        /\ (o.mounted <=> <<k.at["EXT3HI"].code, k.cur>> \in Mountable)
    BY <1>0, <2>1, OpenDeviceIs DEF Up
  <2>3. s = b
    BY <1>3
  <2> HIDE DEF o
  <2>4. Good(o) /\ Up(o) /\ o.at = k.at /\ Keeps(k, o) /\ Spare(o) /\ o.panic = k.panic
    BY <1>0, <2>1, <2>2, QuietGood, QuietKeeps, KeepsTerm DEF Quiet
  <2>5. CASE o.mounted
    BY <2>2, <2>3, <2>4, <2>5 DEF BootTried
  <2>6. CASE ~ o.mounted
    <3> DEFINE f == set_boot_fsys(o)
    <3>1. b = OpenDevice(f)
      BY <2>6 DEF BootTried
    <3>2. Keeps(o, f) /\ Good(f) /\ Up(f) /\ f.at["EXT3HI"].code = o.at["UFSD"].code /\ f.cur = o.cur /\ f.panic = o.panic
      BY <2>4, BootIs
    <3> HIDE DEF f, b
    <3>3. /\ Quiet(f, b) /\ Fits(b) /\ b.cur = f.cur /\ (b.mounted <=> <<f.at["EXT3HI"].code, f.cur>> \in Mountable)
      BY <3>1, <3>2, OpenDeviceIs DEF Good, Up
    <3>4. Good(b) /\ Up(b) /\ Keeps(k, b) /\ b.at = f.at /\ b.panic = k.panic
      <4>1. Good(b) /\ Up(b)
        BY <3>2, <3>3, QuietGood
      <4>2. b.at = f.at /\ b.panic = f.panic /\ Keeps(f, b)
        BY <3>3, QuietKeeps DEF Quiet
      <4>3. Keeps(k, b)
        BY <2>4, <3>2, <4>2, KeepsTrans
      <4> QED BY <2>4, <3>2, <4>1, <4>2, <4>3
    <3>5. Keeps(k, s) /\ Good(s) /\ Up(s) /\ s.cur = dev /\ s.panic = k.panic
      BY <2>2, <2>3, <3>2, <3>3, <3>4
    <3>6. s.at["EXT3HI"].code = k.at["UFSD"].code /\ (s.mounted <=> <<k.at["UFSD"].code, dev>> \in Mountable)
      BY <2>2, <2>3, <2>4, <3>2, <3>3, <3>4
    <3> QED BY <3>5, <3>6
  <2> QED BY <2>5, <2>6
<1>4. Keeps(k, s) /\ Good(s) /\ (Up(k) <=> Up(s)) /\ (s.filetab \/ Spare(s)) /\ s.filetab = k.filetab
  <2>1. Keeps(k, s) /\ Good(s) /\ (Up(k) <=> Up(s))
    <3> HIDE DEF s
    <3> QED BY <1>2, <1>3
  <2> HIDE DEF s
  <2> QED BY <1>0, <2>1, KeepsTerm DEF Keeps
<1> HIDE DEF s, dev
<1>5. TriedUpTo(s, dev, Len(conf.fsys_list), r)
  BY <1>1, <1>4, ListedIs
<1>6. Keeps(k, r) /\ Good(r) /\ (Up(k) => Up(r))
  BY <1>4, <1>5, KeepsTrans DEF TriedUpTo
<1>7. ASSUME k.filetab, Served PROVE Up(r) \/ r.panic
  BY <1>2, <1>4, <1>5, <1>7 DEF TriedUpTo, Served
<1>8. ASSUME Rooted(k), k.at["EXT3HI"].code \in Reach(k)
      PROVE  /\ r.at["EXT3HI"].code \in Reach(k)
             /\ r.mounted => r.cur = k.cur /\ \E d \in Reach(k) : <<d, k.cur>> \in Mountable
             /\ ~ r.mounted /\ ~ r.panic => \A d \in Reach(k) : <<d, k.cur>> \notin Mountable
  <2>1. ~ k.filetab /\ s.saved = k.saved /\ s.at["UFSD"] = k.at["UFSD"] /\ Rooted(s) /\ Reach(s) = Reach(k)
    <3>1. ~ k.filetab /\ s.saved = k.saved /\ s.at["UFSD"] = k.at["UFSD"]
      BY <1>4, <1>8 DEF Rooted, Keeps, Buffers
    <3> QED BY <1>4, <1>8, <3>1 DEF Rooted, Reach
  <2>2. k.at["UFSD"].code \in Reach(k)
    BY DEF Reach
  <2>3. /\ Keeps(s, r) /\ (s.mounted => r = s)
        /\ r.mounted /\ ~ s.mounted => r.cur = dev /\ <<r.at["EXT3HI"].code, dev>> \in Mountable
        /\ r.at["EXT3HI"].code \in Reach(s) \cup {s.at["EXT3HI"].code}
        /\ ~ r.mounted /\ ~ r.panic =>
             \A i \in 1..Len(conf.fsys_list) : Offered(s.saved, conf.fsys_list[i]) => <<conf.fsys_list[i], dev>> \notin Mountable
    BY <1>5, <2>1 DEF TriedUpTo
  <2>4. r.at["EXT3HI"].code \in Reach(k)
    BY <1>3, <1>8, <2>1, <2>2, <2>3
  <2>5. r.mounted => r.cur = dev /\ <<r.at["EXT3HI"].code, dev>> \in Mountable
    BY <1>3, <2>1, <2>3
  <2>6. ASSUME ~ r.mounted, ~ r.panic, NEW d \in Reach(k) PROVE <<d, dev>> \notin Mountable
    <3>1. ~ s.mounted /\ <<k.at["UFSD"].code, dev>> \notin Mountable
      BY <1>3, <2>1, <2>3, <2>6
    <3>2. d = k.at["UFSD"].code \/ (Offered(k.saved, d) /\ \E i \in 1..Len(conf.fsys_list) : conf.fsys_list[i] = d)
      BY <2>6 DEF Reach
    <3> QED BY <2>1, <2>3, <2>6, <3>1, <3>2
  <2> QED BY <2>4, <2>5, <2>6 DEF dev
<1> QED BY <1>6, <1>7, <1>8
-------------------------------------------------------------------------------
(* Files.                                                                      *)

\* What opening a file comes to, whichever driver is in use.
Mounts(k, dev) == \E d \in Reach(k) : <<d, dev>> \in Mountable
Target(k, f) == IF f.dev # None THEN f.dev ELSE k.saved
IsThere(k, f) == Mounts(k, Target(k, f)) /\ Key(Target(k, f), f) \in DOMAIN Files
LengthOf(k, f) ==
  IF Mounts(k, Target(k, f)) THEN IF Key(Target(k, f), f) \in DOMAIN Files THEN Files[Key(Target(k, f), f)] ELSE None ELSE 0

\* One of the drivers that may be fetched is in use, and the uFSD has its disk.
Native(k) == Rooted(k) /\ k.at["EXT3HI"].code \in Reach(k)

\* Files can be opened.
Ready(k) == Good(k) /\ (k.filetab \/ (Spare(k) /\ Up(k)))

LEMMA NativeKept ==
  ASSUME NEW k, NEW r, Keeps(k, r)
  PROVE  /\ Reach(r) = Reach(k) /\ (Rooted(k) <=> Rooted(r)) /\ (Ready(k) /\ Good(r) /\ (Up(k) => Up(r)) => Ready(r))
         /\ \A f : (IsThere(r, f) <=> IsThere(k, f)) /\ LengthOf(r, f) = LengthOf(k, f)
<1>1. r.saved = k.saved /\ r.at["UFSD"] = k.at["UFSD"] /\ r.filetab = k.filetab
  BY DEF Keeps, Buffers
<1>2. Reach(r) = Reach(k) /\ (Rooted(k) <=> Rooted(r))
  BY <1>1 DEF Reach, Rooted
<1>3. Ready(k) /\ Good(r) /\ (Up(k) => Up(r)) => Ready(r)
  BY <1>1 DEF Ready, Spare
<1>4. \A f : Target(r, f) = Target(k, f)
  BY <1>1 DEF Target
<1>5. \A d : Mounts(r, d) <=> Mounts(k, d)
  BY <1>2 DEF Mounts
<1>6. ASSUME NEW f PROVE (IsThere(r, f) <=> IsThere(k, f)) /\ LengthOf(r, f) = LengthOf(k, f)
  <2>1. Target(r, f) = Target(k, f) /\ (Mounts(r, Target(k, f)) <=> Mounts(k, Target(k, f)))
    BY <1>4, <1>5
  <2> QED BY <2>1 DEF IsThere, LengthOf
<1> QED BY <1>2, <1>3, <1>6

LEMMA SetupIs ==
  ASSUME IsConfiguration(conf), NEW k, Ready(k), ~ k.filetab, NEW f, NEW r, r = Setup(k, f.dev)
  PROVE  /\ Keeps(k, r) /\ Good(r) /\ Up(r)
         /\ Native(k) => /\ r.at["EXT3HI"].code \in Reach(k) /\ (r.mounted => r.cur = Target(k, f))
                         /\ ~ r.panic => (r.mounted <=> Mounts(k, Target(k, f)))
<1> DEFINE dev == Target(k, f)
           c == [k EXCEPT !.cur = dev]
<1>0. DOMAIN k = Fields /\ IsMachine(k) /\ Fits(k) /\ Good(k) /\ Up(k) /\ Spare(k)
  BY DEF Ready, Good, IsMachine
<1>1. CASE f.dev # None \/ k.saved # k.cur \/ Of(k).tag = None
  <2>1. DOMAIN c = Fields /\ c.cur = dev /\ \A x \in Fields : x # "cur" => c[x] = k[x]
    BY <1>0 DEF Fields
  <2>2. r = open_device2(c)
    BY <1>1 DEF Setup, Target
  <2> HIDE DEF c, dev
  <2>3. Quiet(k, c) /\ c.called = k.called
    BY <1>0, <2>1 DEF IsMachine, Quiet, Fields
  <2>4. Good(c) /\ Up(c) /\ Spare(c) /\ Keeps(k, c) /\ c.at = k.at
    <3>1. Fits(c)
      BY <1>0, <2>3, SameFits
    <3> QED BY <1>0, <2>3, <3>1, QuietGood, QuietKeeps, KeepsTerm DEF Quiet
  <2>5. /\ Keeps(c, r) /\ Good(r) /\ (Up(c) => Up(r))
        /\ Rooted(c) /\ c.at["EXT3HI"].code \in Reach(c) =>
              /\ r.at["EXT3HI"].code \in Reach(c)
              /\ r.mounted => r.cur = c.cur /\ \E d \in Reach(c) : <<d, c.cur>> \in Mountable
              /\ ~ r.mounted /\ ~ r.panic => \A d \in Reach(c) : <<d, c.cur>> \notin Mountable
    BY <2>2, <2>4, DevicesIs
  <2>6. Reach(c) = Reach(k) /\ (Rooted(k) <=> Rooted(c))
    BY <2>4, NativeKept
  <2>7. Keeps(k, r)
    BY <2>4, <2>5, KeepsTrans
  <2>8. ASSUME Native(k)
        PROVE  /\ r.at["EXT3HI"].code \in Reach(k) /\ (r.mounted => r.cur = dev)
               /\ ~ r.panic => (r.mounted <=> Mounts(k, dev))
    <3>1. Rooted(c) /\ c.at["EXT3HI"].code \in Reach(c)
      BY <2>4, <2>6, <2>8 DEF Native
    <3> QED BY <2>1, <2>5, <2>6, <3>1 DEF Mounts
  <2> QED BY <2>4, <2>5, <2>7, <2>8 DEF dev
<1>2. CASE ~ (f.dev # None \/ k.saved # k.cur \/ Of(k).tag = None)
  <2>1. DOMAIN r = Fields /\ r.mounted = TRUE /\ \A x \in Fields : x # "mounted" => r[x] = k[x]
    BY <1>0, <1>2 DEF Setup, Fields
  <2>2. Quiet(k, r) /\ r.called = k.called /\ r.cur = k.cur
    BY <1>0, <2>1 DEF IsMachine, Quiet, Fields
  <2>3. Good(r) /\ Up(r) /\ Keeps(k, r)
    BY <1>0, <2>2, SameFits, QuietGood, QuietKeeps
  <2>4. dev = k.saved /\ r.cur = dev
    BY <1>2, <2>2 DEF Target
  <2>5. Native(k) => Mounts(k, dev)
    BY <2>4 DEF Native, Rooted, Mounts, Reach
  <2> QED BY <2>1, <2>2, <2>3, <2>4, <2>5 DEF Native, Quiet
<1> QED BY <1>1, <1>2

LEMMA GrubOpenIs ==
  ASSUME IsConfiguration(conf), NEW k, Ready(k), ~ k.filetab, NEW f, IsName(f), NEW r, r = grub_open(k, f)
  PROVE  /\ Keeps(k, r) /\ Ready(r) /\ (r.ok => r.open.name = f.name /\ r.filemax \in Nat)
         /\ Native(k) => Native(r) /\ (~ r.panic => (r.ok <=> IsThere(k, f)) /\ r.filemax = LengthOf(k, f))
<1> DEFINE s == Setup(k, f.dev)
           t == Target(k, f)
<1>0. Len(f.dir) \in Nat
  BY DEF IsName
<1>1. /\ Keeps(k, s) /\ Good(s) /\ Up(s)
      /\ Native(k) => /\ s.at["EXT3HI"].code \in Reach(k) /\ (s.mounted => s.cur = t)
                      /\ ~ s.panic => (s.mounted <=> Mounts(k, t))
  BY SetupIs
<1>2. r = IF s.mounted THEN Dir(s, f) ELSE [s EXCEPT !.ok = FALSE, !.filemax = 0]
  BY DEF grub_open, InDir
<1> HIDE DEF s, t
<1>3. IsMachine(s) /\ Fits(s) /\ Live(s, Of(s).fs) /\ DOMAIN s = Fields
  BY <1>1 DEF Good, Up, IsMachine
<1>4. /\ Quiet(s, r) /\ Fits(r) /\ (r.ok => s.mounted /\ r.open.name = f.name /\ r.filemax \in Nat)
      /\ s.mounted => /\ r.ok <=> Key(s.cur, f) \in DOMAIN Files
                      /\ r.filemax = IF Key(s.cur, f) \in DOMAIN Files THEN Files[Key(s.cur, f)] ELSE None
      /\ ~ s.mounted => ~ r.ok /\ r.filemax = 0
  <2>1. CASE s.mounted
    <3> DEFINE g == Key(s.cur, f)
    <3>1. g.name = f.name
      BY DEF Key
    <3>2. Quiet(s, r) /\ Fits(r) /\ (r.ok <=> g \in DOMAIN Files)
          /\ (r.ok => r.open = g /\ r.filemax = Files[g]) /\ (~ r.ok => r.filemax = None)
      BY <1>0, <1>2, <1>3, <2>1, DirIs
    <3>3. \A x \in DOMAIN Files : Files[x] \in Nat
      BY ConstantsAssumption
    <3> HIDE DEF g
    <3> QED BY <2>1, <3>1, <3>2, <3>3 DEF g
  <2>2. CASE ~ s.mounted
    <3>1. DOMAIN r = Fields /\ r.ok = FALSE /\ r.filemax = 0 /\ \A x \in Fields : x \notin {"ok", "filemax"} => r[x] = s[x]
      BY <1>2, <1>3, <2>2 DEF Fields
    <3>2. Quiet(s, r) /\ r.called = s.called
      BY <1>3, <3>1 DEF IsMachine, Quiet, Fields
    <3> QED BY <1>3, <2>2, <3>1, <3>2, SameFits
  <2> QED BY <2>1, <2>2
<1>5. Keeps(k, r) /\ Good(r) /\ Up(r) /\ r.at = s.at /\ r.panic = s.panic
  <2>1. Quiet(s, r) /\ Fits(r)
    BY <1>4
  <2>2. Keeps(k, r)
    BY <1>1, <2>1, QuietKeeps, KeepsTrans
  <2>3. Good(r) /\ Up(r)
    BY <1>1, <2>1, QuietGood
  <2> QED BY <2>1, <2>2, <2>3 DEF Quiet
<1>6. Ready(r)
  BY <1>5, NativeKept DEF Ready
<1>7. ASSUME Native(k) PROVE Native(r) /\ (~ r.panic => (r.ok <=> IsThere(k, f)) /\ r.filemax = LengthOf(k, f))
  <2>1. Native(r)
    BY <1>1, <1>5, <1>7, NativeKept DEF Native
  <2>2. ASSUME ~ r.panic PROVE (r.ok <=> IsThere(k, f)) /\ r.filemax = LengthOf(k, f)
    <3>1. (s.mounted <=> Mounts(k, t)) /\ (s.mounted => s.cur = t)
      BY <1>1, <1>5, <1>7, <2>2
    <3>2. CASE s.mounted
      BY <1>4, <3>1, <3>2 DEF IsThere, LengthOf, t
    <3>3. CASE ~ s.mounted
      BY <1>4, <3>1, <3>3 DEF IsThere, LengthOf, t
    <3> QED BY <3>2, <3>3
  <2> QED BY <2>1, <2>2
<1> QED BY <1>4, <1>5, <1>6, <1>7
CaseOf(f, c) == [f EXCEPT !.case = c]

\* The length found when the cases a name may be written in are gone through.
SpeltLength(k, f) ==
  IF conf.ignorecase = 0 \/ IsThere(k, f) THEN LengthOf(k, f)
  ELSE IF IsThere(k, CaseOf(f, "up")) THEN LengthOf(k, CaseOf(f, "up")) ELSE LengthOf(k, CaseOf(f, "low"))

LEMMA RetriedIs ==
  ASSUME IsConfiguration(conf), NEW k, Ready(k), ~ k.filetab, NEW f, IsName(f), k.ok => k.open.name = f.name /\ k.filemax \in Nat,
         NEW c, NEW r, r = Retried(k, f, c)
  PROVE  /\ Keeps(k, r) /\ Ready(r) /\ (r.ok => r.open.name = f.name /\ r.filemax \in Nat)
         /\ k.ok \/ conf.ignorecase = 0 => r = k
         /\ Native(k) => /\ Native(r)
                         /\ ~ r.panic /\ ~ (k.ok \/ conf.ignorecase = 0) =>
                              (r.ok <=> IsThere(k, CaseOf(f, c))) /\ r.filemax = LengthOf(k, CaseOf(f, c))
<1>1. CASE k.ok \/ conf.ignorecase = 0
  BY <1>1, KeepsSelf DEF Retried, Ready, Good
<1>2. CASE ~ (k.ok \/ conf.ignorecase = 0)
  <2>1. r = grub_open(k, CaseOf(f, c))
    BY <1>2 DEF Retried, CaseOf
  <2>2. IsName(CaseOf(f, c)) /\ CaseOf(f, c).name = f.name
    BY DEF IsName, CaseOf
  <2>3. /\ Keeps(k, r) /\ Ready(r) /\ (r.ok => r.open.name = CaseOf(f, c).name /\ r.filemax \in Nat)
        /\ Native(k) => Native(r) /\ (~ r.panic => (r.ok <=> IsThere(k, CaseOf(f, c))) /\ r.filemax = LengthOf(k, CaseOf(f, c)))
    BY <2>1, <2>2, GrubOpenIs
  <2> QED BY <1>2, <2>2, <2>3
<1> QED BY <1>1, <1>2

LEMMA SpelledIs ==
  ASSUME IsConfiguration(conf), NEW k, Ready(k), ~ k.filetab, NEW f, IsName(f), NEW r, r = Spelled(k, f)
  PROVE  /\ Keeps(k, r) /\ Ready(r) /\ (r.ok => r.open.name = f.name /\ r.filemax \in Nat)
         /\ Native(k) => Native(r) /\ (~ r.panic => r.filemax = SpeltLength(k, f))
<1> DEFINE a == grub_open(k, f)
           b == Retried(a, f, "up")
<1>1. /\ Keeps(k, a) /\ Ready(a) /\ (a.ok => a.open.name = f.name /\ a.filemax \in Nat)
      /\ Native(k) => Native(a) /\ (~ a.panic => (a.ok <=> IsThere(k, f)) /\ a.filemax = LengthOf(k, f))
  BY GrubOpenIs
<1>2. r = Retried(b, f, "low")
  BY DEF Spelled
<1> HIDE DEF a
<1>3. ~ a.filetab
  BY <1>1 DEF Keeps
<1>4. /\ Keeps(a, b) /\ Ready(b) /\ (b.ok => b.open.name = f.name /\ b.filemax \in Nat)
      /\ a.ok \/ conf.ignorecase = 0 => b = a
      /\ Native(a) => /\ Native(b)
                      /\ ~ b.panic /\ ~ (a.ok \/ conf.ignorecase = 0) =>
                           (b.ok <=> IsThere(a, CaseOf(f, "up"))) /\ b.filemax = LengthOf(a, CaseOf(f, "up"))
  BY <1>1, <1>3, RetriedIs
<1> HIDE DEF b
<1>5. ~ b.filetab
  BY <1>3, <1>4 DEF Keeps
<1>6. /\ Keeps(b, r) /\ Ready(r) /\ (r.ok => r.open.name = f.name /\ r.filemax \in Nat)
      /\ b.ok \/ conf.ignorecase = 0 => r = b
      /\ Native(b) => /\ Native(r)
                      /\ ~ r.panic /\ ~ (b.ok \/ conf.ignorecase = 0) =>
                           (r.ok <=> IsThere(b, CaseOf(f, "low"))) /\ r.filemax = LengthOf(b, CaseOf(f, "low"))
  BY <1>2, <1>4, <1>5, RetriedIs
<1>7. Keeps(k, b) /\ Keeps(k, r)
  BY <1>1, <1>4, <1>6, KeepsTrans
<1>8. /\ \A g : (IsThere(a, g) <=> IsThere(k, g)) /\ LengthOf(a, g) = LengthOf(k, g)
      /\ \A g : (IsThere(b, g) <=> IsThere(k, g)) /\ LengthOf(b, g) = LengthOf(k, g)
  BY <1>1, <1>7, NativeKept
<1>9. ASSUME Native(k), ~ r.panic PROVE r.filemax = SpeltLength(k, f)
  <2>1. ~ a.panic /\ ~ b.panic
    BY <1>4, <1>6, <1>9 DEF Keeps
  <2>2. Native(a) /\ Native(b) /\ (a.ok <=> IsThere(k, f)) /\ a.filemax = LengthOf(k, f)
    BY <1>1, <1>4, <1>9, <2>1
  <2>3. CASE conf.ignorecase = 0 \/ IsThere(k, f)
    <3>1. b = a /\ r = b
      BY <1>4, <1>6, <2>2, <2>3
    <3> QED BY <2>2, <2>3, <3>1 DEF SpeltLength
  <2>4. CASE ~ (conf.ignorecase = 0 \/ IsThere(k, f))
    <3>1. (b.ok <=> IsThere(k, CaseOf(f, "up"))) /\ b.filemax = LengthOf(k, CaseOf(f, "up"))
      BY <1>4, <1>8, <2>1, <2>2, <2>4
    <3>2. CASE b.ok
      BY <1>6, <2>4, <3>1, <3>2 DEF SpeltLength
    <3>3. CASE ~ b.ok
      <4>1. r.filemax = LengthOf(k, CaseOf(f, "low"))
        BY <1>6, <1>8, <1>9, <2>2, <2>4, <3>3
      <4> QED BY <2>4, <3>1, <3>3, <4>1 DEF SpeltLength
    <3> QED BY <3>2, <3>3
  <2> QED BY <2>3, <2>4
<1> QED BY <1>1, <1>4, <1>6, <1>7, <1>9

LEMMA RedirectedIs ==
  ASSUME NEW k, NEW f, IsName(f), NEW r, r = Redirected(k, f) PROVE IsName(r) /\ r.name = f.name
<1>1. Len(<<k.prefix>>) \in Nat
  OBVIOUS
<1> QED BY <1>1 DEF Redirected, IsName

\* What is opened again is as long as it was.
LEMMA OpenIs ==
  ASSUME IsConfiguration(conf), NEW k, Ready(k), NEW f, f = None \/ IsName(f), NEW r, r = freeldr_open(k, f)
  PROVE  /\ Keeps(k, r) /\ Ready(r)
         /\ Native(k) => /\ Native(r)
                         /\ f # None /\ r.ok => r.open.name = f.name /\ r.filemax \in Nat
                         /\ f # None /\ ~ r.panic => r.filemax = SpeltLength(k, Redirected(k, f))
<1>0. DOMAIN k = Fields /\ IsMachine(k) /\ Fits(k)
  BY DEF Ready, Good, IsMachine
<1>1. CASE f = None
  <2>1. DOMAIN r = Fields /\ r.ok = TRUE /\ \A x \in Fields : x \notin {"ok", "filemax", "open"} => r[x] = k[x]
    BY <1>0, <1>1 DEF freeldr_open, Fields
  <2>2. Quiet(k, r) /\ r.called = k.called
    BY <1>0, <2>1 DEF IsMachine, Quiet, Fields
  <2>3. Keeps(k, r) /\ Good(r) /\ (Up(k) <=> Up(r)) /\ r.at = k.at
    BY <1>0, <2>2, SameFits, QuietGood, QuietKeeps DEF Ready, Quiet
  <2> QED BY <1>1, <2>3, NativeKept DEF Native
<1>2. CASE f # None /\ k.filetab
  <2>1. Quiet(k, r) /\ r.called = k.called
    BY <1>0, <1>2, MuOpenIs DEF freeldr_open
  <2>2. Keeps(k, r) /\ Good(r) /\ (Up(k) <=> Up(r))
    BY <1>0, <2>1, SameFits, QuietGood, QuietKeeps DEF Ready
  <2>3. ~ Native(k)
    BY <1>2 DEF Native, Rooted
  <2> QED BY <2>2, <2>3, NativeKept
<1>3. CASE f # None /\ ~ k.filetab
  <2> DEFINE g == Redirected(k, f)
  <2>1. r = Spelled(k, g)
    BY <1>3 DEF freeldr_open
  <2>2. IsName(g) /\ g.name = f.name
    BY <1>3, RedirectedIs
  <2> HIDE DEF g
  <2>3. /\ Keeps(k, r) /\ Ready(r) /\ (r.ok => r.open.name = g.name /\ r.filemax \in Nat)
        /\ Native(k) => Native(r) /\ (~ r.panic => r.filemax = SpeltLength(k, g))
    BY <1>3, <2>1, <2>2, SpelledIs
  <2> QED BY <2>2, <2>3 DEF g
<1> QED BY <1>1, <1>2, <1>3
-------------------------------------------------------------------------------
(* Terminals, and what is read for os2ldr.                                     *)

LEMMA QuietReady ==
  ASSUME NEW k, Ready(k), NEW r, Quiet(k, r), Fits(r) PROVE Ready(r) /\ Keeps(k, r) /\ (Native(k) => Native(r))
<1>1. Good(r) /\ (Up(k) <=> Up(r)) /\ Keeps(k, r) /\ r.at = k.at
  BY QuietGood, QuietKeeps DEF Ready, Quiet
<1> QED BY <1>1, NativeKept DEF Native

LEMMA ReadReady ==
  ASSUME NEW k, Ready(k), NEW r, r = freeldr_read(k) PROVE Same(k, r) /\ Ready(r) /\ Keeps(k, r) /\ (Native(k) => Native(r))
<1>1. IsMachine(k) /\ Fits(k) /\ (k.filetab \/ Live(k, Of(k).fs))
  BY DEF Ready, Good, Up
<1>2. Same(k, r) /\ Fits(r)
  BY <1>1, ReadIs
<1> QED BY <1>2, QuietReady DEF Same

\* What a change of the code in a buffer leaves alone.
Beside(k, b, r) ==
  /\ IsMachine(r) /\ Fits(r) /\ r.me = k.me /\ r.micro = k.micro /\ r.filetab = k.filetab /\ (k.panic => r.panic)
  /\ r.prefix = k.prefix /\ r.ldrlen = k.ldrlen /\ r.given = k.given /\ r.loaded = k.loaded /\ r.saved = k.saved
  /\ \A d \in Buffers : d # b => r.at[d] = k.at[d]
  /\ \A c \in Sides : r.v[c].fs = k.v[c].fs /\ r.v[c].use_term = k.v[c].use_term
                      /\ r.v[c].scratch = k.v[c].scratch /\ r.v[c].stage0 = k.v[c].stage0

LEMMA BesideTrans == ASSUME NEW b, NEW k, NEW r, NEW q, Beside(k, b, r), Beside(r, b, q) PROVE Beside(k, b, q)
BY DEF Beside

LEMMA QuietBeside == ASSUME NEW b, NEW k, NEW r, Quiet(k, r), Fits(r) PROVE Beside(k, b, r)
BY DEF Quiet, Beside

\* Code is put into a buffer.
Put(k, b, new) == [k EXCEPT !.at[b] = new]

LEMMA PutIs ==
  ASSUME NEW k, IsMachine(k), Fits(k), NEW b \in Buffers, NEW new \in Codes \cup {None}, NEW r, r = Put(k, b, new)
  PROVE  Beside(k, b, r) /\ r.at[b] = new /\ r.ok = k.ok /\ r.called = k.called /\ r.panic = k.panic /\ r.cur = k.cur
<1>1. DOMAIN k = Fields /\ k.at \in [Buffers -> Codes \cup {None}]
  BY DEF IsMachine
<1>2. DOMAIN r = Fields /\ r.at = [k.at EXCEPT ![b] = new] /\ \A x \in Fields : x # "at" => r[x] = k[x]
  BY <1>1 DEF Put, Fields
<1>3. r.at \in [Buffers -> Codes \cup {None}] /\ r.at[b] = new /\ \A d \in Buffers : d # b => r.at[d] = k.at[d]
  BY <1>1, <1>2
<1>4. IsMachine(r) /\ r.called = k.called /\ r.ok = k.ok /\ r.panic = k.panic /\ r.cur = k.cur
  BY <1>2, <1>3 DEF IsMachine, Fields
<1>5. Fits(r)
  BY <1>4, SameFits
<1> QED BY <1>2, <1>3, <1>4, <1>5 DEF Beside, Fields

LEMMA CopiedIs ==
  ASSUME NEW k, IsMachine(k), Fits(k), NEW to \in Buffers, NEW from \in Buffers, NEW r, r = Copied(k, to, from)
  PROVE  Beside(k, to, r) /\ r.at[to] = k.at[from]
<1> DEFINE new == k.at[from]
<1>1. new \in Codes \cup {None}
  BY DEF IsMachine
<1>2. r = Put(k, to, new)
  BY DEF Copied, Put
<1> HIDE DEF new
<1>3. Beside(k, to, r) /\ r.at[to] = new
  BY <1>1, <1>2, PutIs
<1> QED BY <1>3 DEF new

LEMMA RelocIs ==
  ASSUME NEW k, IsMachine(k), Fits(k), k.filetab \/ Live(k, Of(k).fs), NEW b \in Buffers, k.at[b] # None, NEW f, IsName(f),
         NEW r, r = reloc(k, b, f)
  PROVE  Beside(k, b, r) /\ (~ r.panic => Placed(r, b)) /\ (r.panic \/ r.at[b].code = k.at[b].code)
<1> DEFINE o == OpenOwn(k, RelOf(f))
           d == freeldr_read(o)
<1>1. IsName(RelOf(f))
  BY DEF IsName, RelOf
<1>2. Quiet(k, o) /\ Fits(o)
  BY <1>1, OpenOwnIs
<1>3. r = IF o.ok THEN [d EXCEPT !.at[b].base = b] ELSE [o EXCEPT !.panic = TRUE]
  BY DEF reloc, RelocatedFor
<1> HIDE DEF o
<1>4. IsMachine(o) /\ (o.filetab \/ Live(o, Of(o).fs)) /\ DOMAIN o = Fields /\ Beside(k, b, o)
  <2>1. IsMachine(o) /\ DOMAIN o = Fields /\ Beside(k, b, o)
    BY <1>2, QuietBeside DEF Quiet, IsMachine
  <2> QED BY <1>2, <2>1, QuietLive DEF Quiet
<1>5. CASE o.ok
  <2>1. Same(o, d) /\ Fits(d)
    BY <1>2, <1>4, ReadIs
  <2> HIDE DEF d
  <2>2. Beside(k, b, d) /\ IsMachine(d) /\ d.at = k.at
    BY <1>2, <1>4, <2>1, QuietBeside, BesideTrans DEF Same, Quiet
  <2>3. k.at[b] \in Codes /\ DOMAIN d = Fields /\ d.at[b] = k.at[b]
    BY <2>2 DEF IsMachine
  <2> DEFINE new == [d.at[b] EXCEPT !.base = b]
  <2>4. new \in Codes /\ new # None /\ new.base = b /\ new.code = k.at[b].code
    BY <2>3, ConstantsAssumption DEF Codes
  <2>5. r = Put(d, b, new)
    BY <1>3, <1>5, <2>2, <2>3 DEF Put
  <2> HIDE DEF new
  <2>6. Beside(d, b, r) /\ r.at[b] = new
    BY <2>1, <2>2, <2>4, <2>5, PutIs
  <2> QED BY <2>2, <2>4, <2>6, BesideTrans DEF Placed
<1>6. CASE ~ o.ok
  <2>1. DOMAIN r = Fields /\ r.panic = TRUE /\ \A x \in Fields : x # "panic" => r[x] = o[x]
    BY <1>3, <1>4, <1>6 DEF Fields
  <2>2. IsMachine(r) /\ r.called = o.called
    BY <1>4, <2>1 DEF IsMachine, Fields
  <2>3. Fits(r)
    BY <1>2, <2>2, SameFits
  <2>4. Beside(o, b, r)
    BY <1>4, <2>1, <2>2, <2>3 DEF Beside, Fields
  <2> QED BY <1>4, <2>1, <2>4, BesideTrans
<1> QED BY <1>5, <1>6

\* A terminal that is loaded can be called.
LEMMA LoadIs ==
  ASSUME NEW k, Ready(k), NEW f, IsName(f), f.name \in STRING, NEW r, r = blackbox_load(k, f)
  PROVE  Beside(k, "TERM", r) /\ (r.panic \/ Live(r, "TERM"))
<1>0. IsMachine(k) /\ Fits(k) /\ (k.filetab \/ Live(k, Of(k).fs)) /\ "TERM" \in Buffers /\ DOMAIN k = Fields
  BY DEF Ready, Good, Up, Buffers, IsMachine
<1>1. CASE ~ k.ok
  <2>1. DOMAIN r = Fields /\ r.panic = TRUE /\ \A x \in Fields : x # "panic" => r[x] = k[x]
    BY <1>0, <1>1 DEF blackbox_load, Fields
  <2>2. IsMachine(r) /\ r.called = k.called
    BY <1>0, <2>1 DEF IsMachine, Fields
  <2>3. Fits(r)
    BY <1>0, <2>2, SameFits
  <2> QED BY <2>1, <2>2, <2>3 DEF Beside, Fields
<1>2. CASE k.ok
  <2> DEFINE a == freeldr_read(k)
             new == [code |-> f.name, base |-> "EXT_BUF", lip |-> None]
             b == Put(a, "TERM", new)
             c == reloc(b, "TERM", f)
             g == Call(c, "TERM", "init")
  <2>1. r = IF c.panic THEN c ELSE Linked(g, "TERM")
    BY <1>2 DEF blackbox_load, Put
  <2>2. Same(k, a) /\ Fits(a)
    BY <1>0, ReadIs
  <2> HIDE DEF a
  <2>3. Beside(k, "TERM", a) /\ IsMachine(a) /\ (a.filetab \/ Live(a, Of(a).fs)) /\ Of(a).fs \in {"EXT_BUF", "EXT3HI"}
    <3>1. IsMachine(a) /\ a.filetab = k.filetab
      BY <2>2 DEF Same, Quiet
    <3> QED BY <1>0, <2>2, <3>1, QuietLive, QuietBeside DEF Same, IsMachine, Of
  <2>4. new \in Codes /\ new # None
    BY ConstantsAssumption DEF Codes, Buffers
  <2> HIDE DEF new
  <2>5. Beside(a, "TERM", b) /\ b.at["TERM"] = new
    BY <1>0, <2>2, <2>3, <2>4, PutIs
  <2> HIDE DEF b
  <2>6. IsMachine(b) /\ Fits(b) /\ (b.filetab \/ Live(b, Of(b).fs))
    <3>1. b.me \in Sides /\ b.me = a.me /\ a.v[a.me].fs \in {"EXT_BUF", "EXT3HI"} /\ IsMachine(b) /\ Fits(b) /\ b.filetab = a.filetab
      BY <2>3, <2>5 DEF Beside, IsMachine, Of
    <3>2. b.v[b.me].fs = a.v[a.me].fs /\ b.at[a.v[a.me].fs] = a.at[a.v[a.me].fs]
      BY <2>5, <3>1 DEF Beside, Buffers
    <3> QED BY <2>3, <3>1, <3>2 DEF Live, Placed, Of
  <2>7. Beside(b, "TERM", c) /\ (~ c.panic => Placed(c, "TERM"))
    BY <1>0, <2>4, <2>5, <2>6, RelocIs
  <2> HIDE DEF c
  <2>8. Beside(k, "TERM", c)
    BY <2>3, <2>5, <2>7, BesideTrans
  <2>9. CASE c.panic
    BY <2>1, <2>8, <2>9
  <2>10. CASE ~ c.panic
    <3>1. Same(c, g) /\ Fits(g)
      BY <2>7, <2>8, <2>10, CallIs DEF Beside
    <3> HIDE DEF g
    <3>2. Beside(k, "TERM", g) /\ IsMachine(g) /\ g.at = c.at /\ g.me = c.me /\ g.at["TERM"] \in Codes
      BY <1>0, <2>7, <2>8, <2>10, <3>1, QuietBeside, BesideTrans DEF Same, Quiet, Placed, IsMachine
    <3> DEFINE linked == [g.at["TERM"] EXCEPT !.lip = g.me]
    <3>3. linked \in Codes /\ linked # None /\ linked.base = "TERM" /\ linked.lip = g.me
      BY <2>7, <2>10, <3>2, ConstantsAssumption DEF Codes, Placed, IsMachine, Sides
    <3>4. r = Put(g, "TERM", linked)
      <4>1. g.at["TERM"] # None /\ DOMAIN g = Fields /\ DOMAIN g.at = Buffers
        BY <2>7, <2>10, <3>2 DEF Placed, IsMachine
      <4> QED BY <1>0, <2>1, <2>10, <4>1 DEF Linked, Put
    <3> HIDE DEF linked
    <3>5. Beside(g, "TERM", r) /\ r.at["TERM"] = linked
      BY <1>0, <3>1, <3>2, <3>3, <3>4, PutIs
    <3>6. Live(r, "TERM")
      BY <1>0, <3>3, <3>5 DEF Live, Placed, Beside
    <3> QED BY <3>2, <3>5, <3>6, BesideTrans
  <2> QED BY <2>9, <2>10
<1> QED BY <1>1, <1>2
\* What loading leaves alone.
Still(k, r) ==
  /\ IsMachine(r) /\ Fits(r) /\ r.me = k.me /\ r.micro = k.micro /\ r.filetab = k.filetab /\ (k.panic => r.panic)
  /\ r.prefix = k.prefix /\ r.ldrlen = k.ldrlen /\ r.given = k.given /\ r.saved = k.saved /\ r.at["UFSD"] = k.at["UFSD"]
  /\ \A c \in Sides : r.v[c].use_term = k.v[c].use_term /\ r.v[c].scratch = k.v[c].scratch /\ r.v[c].stage0 = k.v[c].stage0

LEMMA StillTrans == ASSUME NEW k, NEW r, NEW q, Still(k, r), Still(r, q) PROVE Still(k, q)
BY DEF Still

LEMMA KeepsStill == ASSUME NEW k, NEW r, Keeps(k, r), Fits(r) PROVE Still(k, r) /\ r.loaded = k.loaded
BY DEF Keeps, Still, Buffers

LEMMA BesideStill ==
  ASSUME NEW k, Ready(k), NEW r, Beside(k, "TERM", r)
  PROVE  /\ Still(k, r) /\ r.loaded = k.loaded
         /\ Live(r, "TERM") => Ready(r) /\ (Native(k) => Native(r))
<1>1. Still(k, r) /\ r.loaded = k.loaded
  BY DEF Beside, Still, Buffers
<1>2. k.me \in Sides
  BY DEF Ready, Good, IsMachine
<1>3. /\ r.at["EXT3HI"] = k.at["EXT3HI"] /\ r.at["UFSD"] = k.at["UFSD"] /\ r.me = k.me /\ r.saved = k.saved
      /\ r.filetab = k.filetab /\ r.v[k.me].fs = k.v[k.me].fs /\ IsMachine(r) /\ Fits(r)
  BY <1>2 DEF Beside, Buffers
<1>4. ASSUME Live(r, "TERM") PROVE Ready(r)
  BY <1>3, <1>4 DEF Ready, Good, Up, Spare, Live, Placed, Of
<1>5. Native(k) => Native(r)
  BY <1>3 DEF Native, Rooted, Reach
<1> QED BY <1>1, <1>4, <1>5

LEMMA TermFileIs ==
  ASSUME IsConfiguration(conf), NEW n, n + 1 \in DOMAIN conf.term_list
  PROVE  IsName(TermFile(conf, n)) /\ TermFile(conf, n).name \in STRING
<1> DEFINE S == {"boot", "loader", "term"}
<1>1. <<"boot", "loader">> \in Seq(S) /\ <<"term">> \in Seq(S)
  OBVIOUS
<1>2. Len(Preldr \o <<"term">>) \in Nat
  <2> HIDE DEF S
  <2> QED BY <1>1 DEF Preldr
<1>3. conf.term_list[n + 1] \in STRING
  BY DEF IsConfiguration
<1> QED BY <1>2, <1>3 DEF IsName, TermFile, Name

LEMMA TermIs ==
  ASSUME IsConfiguration(conf), NEW k, Ready(k), NEW n, n + 1 \in DOMAIN conf.term_list, NEW r, r = u_termctl(k, n)
  PROVE  Still(k, r) /\ r.loaded = k.loaded /\ (~ r.panic => Ready(r) /\ Live(r, "TERM") /\ (Native(k) => Native(r)))
<1> DEFINE f == TermFile(conf, n)
           o == freeldr_open(k, f)
           b == blackbox_load(o, f)
           s == Say(b)
<1>0. IsName(f) /\ f.name \in STRING
  BY TermFileIs
<1>1. r = IF b.panic THEN b ELSE Started(s, f.name)
  BY DEF u_termctl
<1> HIDE DEF f
<1>2. Keeps(k, o) /\ Ready(o) /\ (Native(k) => Native(o))
  BY <1>0, OpenIs
<1> HIDE DEF o
<1>3. Beside(o, "TERM", b) /\ (b.panic \/ Live(b, "TERM"))
  BY <1>0, <1>2, LoadIs
<1> HIDE DEF b
<1>4. Still(k, b) /\ b.loaded = k.loaded
  BY <1>2, <1>3, KeepsStill, BesideStill, StillTrans DEF Ready, Good
<1>5. CASE b.panic
  BY <1>1, <1>4, <1>5
<1>6. CASE ~ b.panic
  <2>1. Ready(b) /\ Live(b, "TERM") /\ (Native(k) => Native(b))
    BY <1>2, <1>3, <1>6, BesideStill
  <2>2. Same(b, s) /\ Fits(s)
    BY <2>1, SayIs DEF Ready
  <2> HIDE DEF s
  <2>3. Ready(s) /\ Keeps(b, s) /\ (Native(k) => Native(s)) /\ Live(s, "TERM") /\ IsMachine(s)
    BY <2>1, <2>2, QuietReady, QuietLive DEF Same, Ready, Good
  <2>4. Same(s, r) /\ Fits(r)
    <3>1. CASE f.name \in {"serial", "graphics"}
      BY <1>1, <1>6, <2>2, <2>3, <3>1, CallIs DEF Started, Live
    <3>2. CASE f.name \notin {"serial", "graphics"}
      BY <1>1, <1>6, <2>2, <2>3, <3>2, SameSelf DEF Started
    <3> QED BY <3>1, <3>2
  <2>5. Ready(r) /\ Keeps(s, r) /\ (Native(k) => Native(r)) /\ Live(r, "TERM")
    BY <2>3, <2>4, QuietReady, QuietLive DEF Same
  <2>6. Still(b, r) /\ r.loaded = b.loaded
    BY <2>3, <2>4, <2>5, KeepsStill, KeepsTrans
  <2> QED BY <1>4, <2>5, <2>6, StillTrans
<1> QED BY <1>5, <1>6

\* The parts of what is loaded.
Loads == {"loader", "mini"}

LEMMA ReadToIs ==
  ASSUME NEW k, Ready(k), NEW what, NEW base, NEW r, r = ReadTo(k, what, base)
  PROVE  /\ Still(k, r) /\ Ready(r) /\ (Native(k) => Native(r))
         /\ ~ r.panic => r.loaded = [k.loaded EXCEPT ![what] = [file |-> k.open, base |-> base, len |-> k.filemax]] /\ k.ok
<1>0. IsMachine(k) /\ Fits(k) /\ DOMAIN k = Fields
  BY DEF Ready, Good, IsMachine
<1>1. CASE k.ok
  <2> DEFINE a == freeldr_read(k)
             part == [file |-> k.open, base |-> base, len |-> k.filemax]
  <2>1. Same(k, a) /\ Ready(a) /\ Keeps(k, a) /\ (Native(k) => Native(a))
    BY ReadReady
  <2>2. r = [a EXCEPT !.loaded[what] = part]
    BY <1>1 DEF ReadTo
  <2> HIDE DEF a, part
  <2>3. DOMAIN a = Fields /\ a.loaded = k.loaded /\ IsMachine(a) /\ Fits(a)
    BY <2>1 DEF Same, Quiet, IsMachine, Ready, Good
  <2>4. DOMAIN r = Fields /\ r.loaded = [a.loaded EXCEPT ![what] = part] /\ \A x \in Fields : x # "loaded" => r[x] = a[x]
    BY <2>2, <2>3 DEF Fields
  <2>5. IsMachine(r) /\ r.called = a.called /\ r.me = a.me /\ r.at = a.at /\ r.v = a.v /\ r.filetab = a.filetab /\ r.saved = a.saved
    BY <2>3, <2>4 DEF IsMachine, Fields
  <2>6. Fits(r)
    BY <2>3, <2>5, SameFits
  <2>7. Ready(r) /\ (Native(a) => Native(r))
    BY <2>1, <2>5, <2>6 DEF Ready, Good, Up, Spare, Live, Placed, Of, Native, Rooted, Reach
  <2>8. Still(a, r)
    BY <2>3, <2>4, <2>5, <2>6 DEF Still, Fields
  <2>9. Still(k, r)
    BY <2>1, <2>3, <2>8, KeepsStill, StillTrans
  <2> QED BY <1>1, <2>1, <2>3, <2>4, <2>7, <2>9 DEF part
<1>2. CASE ~ k.ok
  <2>1. DOMAIN r = Fields /\ r.panic = TRUE /\ \A x \in Fields : x # "panic" => r[x] = k[x]
    BY <1>0, <1>2 DEF ReadTo, Fields
  <2>2. IsMachine(r) /\ r.called = k.called /\ r.me = k.me /\ r.at = k.at /\ r.v = k.v /\ r.filetab = k.filetab /\ r.saved = k.saved
    BY <1>0, <2>1 DEF IsMachine, Fields
  <2>3. Fits(r)
    BY <1>0, <2>2, SameFits
  <2>4. Ready(r) /\ (Native(k) => Native(r))
    BY <2>2, <2>3 DEF Ready, Good, Up, Spare, Live, Placed, Of, Native, Rooted, Reach
  <2>5. Still(k, r)
    BY <1>0, <2>1, <2>2, <2>3 DEF Still, Fields
  <2> QED BY <2>1, <2>4, <2>5
<1> QED BY <1>1, <1>2

LEMMA MiniIs ==
  ASSUME IsConfiguration(conf), NEW k, Ready(k), NEW r, r = MiniTo(k)
  PROVE  /\ Still(k, r) /\ Ready(r) /\ (Native(k) => Native(r))
         /\ ~ r.panic /\ DOMAIN k.loaded = Loads =>
              /\ DOMAIN r.loaded = Loads /\ r.loaded["loader"] = k.loaded["loader"]
              /\ conf.mini.name # None => r.loaded["mini"].base = conf.mini.base
<1>1. CASE k.panic \/ conf.mini.name = None
  <2>1. r = k
    BY <1>1 DEF MiniTo
  <2> QED BY <1>1, <2>1, KeepsSelf, KeepsStill DEF Ready, Good
<1>2. CASE ~ (k.panic \/ conf.mini.name = None)
  <2> DEFINE f == conf.mini.name
             o == freeldr_open(k, f)
  <2>1. IsName(f)
    BY <1>2 DEF IsConfiguration
  <2>2. r = ReadTo(o, "mini", conf.mini.base)
    BY <1>2 DEF MiniTo
  <2> HIDE DEF f
  <2>3. Keeps(k, o) /\ Ready(o) /\ (Native(k) => Native(o))
    BY <2>1, OpenIs
  <2> HIDE DEF o
  <2>4. /\ Still(o, r) /\ Ready(r) /\ (Native(o) => Native(r))
        /\ ~ r.panic => r.loaded = [o.loaded EXCEPT !["mini"] = [file |-> o.open, base |-> conf.mini.base, len |-> o.filemax]]
    BY <2>2, <2>3, ReadToIs
  <2>5. Still(k, o) /\ o.loaded = k.loaded
    BY <2>3, KeepsStill DEF Ready, Good
  <2>6. Still(k, r)
    BY <2>4, <2>5, StillTrans
  <2> QED BY <2>3, <2>4, <2>5, <2>6 DEF Loads
<1> QED BY <1>1, <1>2

\* What is loaded is what has been asked for, as long as it is on the disk.
LEMMA LoadedIs ==
  ASSUME IsConfiguration(conf), NEW k, Ready(k), NEW which, NEW r, r = Read(k, which),
         NEW l, l = IF which = 0 THEN conf.loader ELSE conf.extloader
  PROVE  /\ Still(k, r) /\ Ready(r) /\ (Native(k) => Native(r))
         /\ ~ r.panic /\ DOMAIN k.loaded = Loads =>
              /\ DOMAIN r.loaded = Loads /\ r.loaded["loader"].base = l.base
              /\ conf.mini.name # None => r.loaded["mini"].base = conf.mini.base
              /\ Native(k) /\ l.name # None =>
                   /\ r.loaded["loader"].file.name = l.name.name /\ r.loaded["loader"].len \in Nat
                   /\ r.loaded["loader"].len = SpeltLength(k, Redirected(k, l.name))
<1> DEFINE o == freeldr_open(k, l.name)
           t == ReadTo(o, "loader", l.base)
           f == l.name
<1>1. f = None \/ IsName(f)
  BY DEF IsConfiguration
<1>2. r = MiniTo(t)
  BY DEF Read
<1>3. /\ Keeps(k, o) /\ Ready(o)
      /\ Native(k) => /\ Native(o)
                      /\ f # None /\ o.ok => o.open.name = f.name /\ o.filemax \in Nat
                      /\ f # None /\ ~ o.panic => o.filemax = SpeltLength(k, Redirected(k, f))
  <2>1. o = freeldr_open(k, f)
    OBVIOUS
  <2> HIDE DEF f
  <2> QED BY <1>1, <2>1, OpenIs
<1> HIDE DEF o, f
<1>4. /\ Still(o, t) /\ Ready(t) /\ (Native(o) => Native(t))
      /\ ~ t.panic => t.loaded = [o.loaded EXCEPT !["loader"] = [file |-> o.open, base |-> l.base, len |-> o.filemax]] /\ o.ok
  BY <1>3, ReadToIs
<1> HIDE DEF t
<1>5. /\ Still(t, r) /\ Ready(r) /\ (Native(t) => Native(r))
      /\ ~ r.panic /\ DOMAIN t.loaded = Loads =>
           /\ DOMAIN r.loaded = Loads /\ r.loaded["loader"] = t.loaded["loader"]
           /\ conf.mini.name # None => r.loaded["mini"].base = conf.mini.base
  BY <1>2, <1>4, MiniIs
<1>6. Still(k, o) /\ o.loaded = k.loaded
  BY <1>3, KeepsStill DEF Ready, Good
<1>7. Still(k, r)
  BY <1>4, <1>5, <1>6, StillTrans
<1>8. ASSUME ~ r.panic, DOMAIN k.loaded = Loads
      PROVE  /\ DOMAIN r.loaded = Loads /\ r.loaded["loader"].base = l.base
             /\ conf.mini.name # None => r.loaded["mini"].base = conf.mini.base
             /\ Native(k) /\ f # None =>
                  /\ r.loaded["loader"].file.name = f.name /\ r.loaded["loader"].len \in Nat
                  /\ r.loaded["loader"].len = SpeltLength(k, Redirected(k, f))
  <2>1. ~ t.panic /\ ~ o.panic
    BY <1>4, <1>5, <1>8 DEF Still
  <2>2. t.loaded["loader"] = [file |-> o.open, base |-> l.base, len |-> o.filemax] /\ DOMAIN t.loaded = Loads /\ o.ok
    BY <1>4, <1>6, <1>8, <2>1 DEF Loads
  <2>3. r.loaded["loader"] = [file |-> o.open, base |-> l.base, len |-> o.filemax]
    BY <1>5, <1>8, <2>2
  <2> QED BY <1>3, <1>5, <1>8, <2>1, <2>2, <2>3
<1> QED BY <1>3, <1>4, <1>5, <1>7, <1>8 DEF f
-------------------------------------------------------------------------------
(* The steps of init() that are not only loading.                              *)

\* The uFSD opens preldr.ini.
LEMMA FirstOpenIs ==
  ASSUME conf = Defaults, NEW k, IsMachine(k), Fits(k), ~ k.filetab, Live(k, Of(k).fs), k.cur = None, Of(k).tag = None,
         <<k.at[Of(k).fs].code, k.saved>> \in Mountable,
         NEW f, f # None, f.dev = None, f.rooted = TRUE, IsName(f), NEW r, r = freeldr_open(k, f)
  PROVE  Quiet(k, r) /\ Fits(r) /\ r.cur = k.saved
<1> DEFINE c == [k EXCEPT !.cur = k.saved]
           o == OpenDevice(c)
<1>0. DOMAIN k = Fields /\ Len(f.dir) \in Nat
  BY DEF IsMachine, IsName
<1>1. /\ DOMAIN c = Fields /\ c.cur = k.saved /\ \A x \in Fields : x # "cur" => c[x] = k[x]
  BY <1>0 DEF Fields
<1>2. conf.fsys_list = <<>> /\ conf.ignorecase = 0
  BY DEF Defaults
<1>3. Quiet(k, c) /\ c.called = k.called
  BY <1>1 DEF IsMachine, Quiet, Fields
<1>4. Setup(k, f.dev) = open_device2(c)
  BY DEF Setup
<1> HIDE DEF c
<1>5. IsMachine(c) /\ Fits(c) /\ Of(c).fs = Of(k).fs /\ Live(c, Of(c).fs) /\ c.at = k.at /\ ~ c.filetab
  BY <1>3, QuietLive, SameFits DEF Quiet
<1>6. Quiet(c, o) /\ Fits(o) /\ o.cur = c.cur /\ o.mounted
  BY <1>1, <1>5, OpenDeviceIs
<1>7. open_device2(c) = ListedTried(BootTried(o), c.cur)
  BY <1>5 DEF open_device2
<1> HIDE DEF o
<1>8. BootTried(o) = o
  BY <1>6 DEF BootTried
<1>9. ListedTried(o, c.cur) = o
  <2>1. IsConfiguration(conf)
    <3>1. Preldr \in Seq({"boot", "loader"}) /\ <<>> \in Seq(STRING)
      BY DEF Preldr
    <3>2. Len(Preldr) \in Nat /\ Len(<<>>) \in Nat
      BY <3>1
    <3> QED BY <3>1, <3>2 DEF IsConfiguration, Defaults, IsName, Name
  <2>2. \E g : g[0] = o /\ g[Len(conf.fsys_list)] = ListedTried(o, c.cur)
    BY <2>1, ListSteps
  <2>3. Len(conf.fsys_list) = 0
    BY <1>2
  <2> QED BY <2>2, <2>3
<1>10. Setup(k, f.dev) = o
  BY <1>4, <1>7, <1>8, <1>9
<1>11. grub_open(k, f) = Dir(o, f)
  BY <1>6, <1>10 DEF grub_open, InDir
<1>12. Redirected(k, f) = f
  BY DEF Redirected
<1>13. r = grub_open(k, f)
  BY <1>2, <1>12 DEF freeldr_open, Spelled, Retried
<1>14. IsMachine(o) /\ Live(o, Of(o).fs)
  BY <1>5, <1>6, QuietLive DEF Quiet
<1>15. Quiet(o, r) /\ Fits(r) /\ r.cur = o.cur
  BY <1>0, <1>6, <1>11, <1>13, <1>14, DirIs
<1> QED BY <1>1, <1>3, <1>6, <1>15, QuietTrans

\* The uFSD moves up.
LEMMA PlaceIs ==
  ASSUME NEW k, IsMachine(k), Fits(k), ~ k.filetab, Of(k).fs = "EXT_BUF", Live(k, "EXT_BUF"), ~ Of(k).use_term,
         k.at["EXT_BUF"].code = BootDriver, k.saved = BootDevice, NEW r, r = Place(k)
  PROVE  /\ IsMachine(r) /\ Fits(r) /\ r.me = k.me /\ r.micro = k.micro /\ r.filetab = k.filetab
         /\ ~ r.panic => /\ Ready(r) /\ Native(r) /\ r.loaded = k.loaded /\ r.given = k.given /\ r.ldrlen = k.ldrlen
                         /\ \A c \in Sides : r.v[c].scratch = k.v[c].scratch /\ r.v[c].stage0 = k.v[c].stage0
<1> DEFINE f == DriverRel
           c == Copied(k, "EXT3HI", "EXT_BUF")
           d == reloc(c, "EXT3HI", f)
           e == fsd_init(d, "EXT3HI")
<1>0. /\ "EXT_BUF" \in Buffers /\ "EXT3HI" \in Buffers /\ "UFSD" \in Buffers /\ k.at["EXT_BUF"] \in Codes
      /\ k.at["EXT_BUF"] # None /\ k.me \in Sides /\ DOMAIN k = Fields
  BY DEF IsMachine, Buffers, Live, Placed
<1>1. IsName(f)
  <2> DEFINE S == {"boot", "loader", "fsd"}
  <2>1. <<"boot", "loader">> \in Seq(S) /\ <<"fsd">> \in Seq(S)
    OBVIOUS
  <2>2. Len(Preldr \o <<"fsd">>) \in Nat /\ Len(<<>>) \in Nat
    <3>1. Len(<<>>) = 0
      OBVIOUS
    <3> HIDE DEF S
    <3> QED BY <2>1, <3>1 DEF Preldr
  <2> QED BY <2>2 DEF DriverRel, Name, IsName
<1>2. r = IF d.panic THEN d ELSE Copied(e, "UFSD", "EXT3HI")
  BY DEF Place
<1> HIDE DEF f
<1>3. Beside(k, "EXT3HI", c) /\ c.at["EXT3HI"] = k.at["EXT_BUF"]
  BY <1>0, CopiedIs
<1> HIDE DEF c
<1>4. IsMachine(c) /\ Fits(c) /\ Live(c, Of(c).fs)
  <2>1. IsMachine(c) /\ Fits(c) /\ c.me = k.me /\ c.v[k.me].fs = "EXT_BUF" /\ c.at["EXT_BUF"] = k.at["EXT_BUF"]
    BY <1>0, <1>3 DEF Beside, Of
  <2> QED BY <2>1 DEF Live, Placed, Of
<1>5. Beside(c, "EXT3HI", d) /\ (~ d.panic => Placed(d, "EXT3HI")) /\ (d.panic \/ d.at["EXT3HI"].code = BootDriver)
  BY <1>0, <1>1, <1>3, <1>4, RelocIs
<1> HIDE DEF d
<1>6. Beside(k, "EXT3HI", d)
  BY <1>3, <1>5, BesideTrans
<1>7. CASE d.panic
  BY <1>2, <1>6, <1>7 DEF Beside
<1>8. CASE ~ d.panic
  <2>1. /\ IsMachine(e) /\ Fits(e) /\ Live(e, "EXT3HI") /\ Of(e).fs = "EXT3HI" /\ e.at["EXT3HI"].code = BootDriver
        /\ \A x \in Buffers : x # "EXT3HI" => e.at[x] = d.at[x]
        /\ \A x \in Fields : x \notin {"at", "v", "called"} => e[x] = d[x]
        /\ \A x \in Sides : e.v[x].use_term = d.v[x].use_term /\ e.v[x].scratch = d.v[x].scratch
                            /\ e.v[x].stage0 = d.v[x].stage0 /\ e.v[x].tag = d.v[x].tag
    BY <1>5, <1>6, <1>8, InitIs DEF Beside
  <2> HIDE DEF e
  <2>2. /\ e.me = k.me /\ e.micro = k.micro /\ e.filetab = k.filetab /\ e.loaded = k.loaded /\ e.given = k.given
        /\ e.ldrlen = k.ldrlen /\ e.saved = k.saved
        /\ \A x \in Sides : e.v[x].use_term = k.v[x].use_term /\ e.v[x].scratch = k.v[x].scratch /\ e.v[x].stage0 = k.v[x].stage0
    BY <1>6, <2>1 DEF Beside, Fields
  <2>3. e.at["EXT3HI"] \in Codes /\ e.at["EXT3HI"] # None /\ e.at["EXT3HI"].base = "EXT3HI"
    BY <1>0, <2>1 DEF IsMachine, Live, Placed
  <2>4. r = Copied(e, "UFSD", "EXT3HI")
    BY <1>2, <1>8
  <2>5. Beside(e, "UFSD", r) /\ r.at["UFSD"] = e.at["EXT3HI"]
    BY <1>0, <2>1, <2>4, CopiedIs
  <2>6. /\ IsMachine(r) /\ Fits(r) /\ r.me = k.me /\ r.micro = k.micro /\ r.filetab = k.filetab
        /\ r.loaded = k.loaded /\ r.given = k.given /\ r.ldrlen = k.ldrlen /\ r.saved = k.saved
        /\ \A x \in Sides : r.v[x].scratch = k.v[x].scratch /\ r.v[x].stage0 = k.v[x].stage0
                            /\ r.v[x].fs = e.v[x].fs /\ r.v[x].use_term = k.v[x].use_term
        /\ r.at["EXT3HI"] = e.at["EXT3HI"]
    BY <1>0, <2>2, <2>5 DEF Beside
  <2>7. Up(r) /\ Spare(r) /\ Good(r)
    BY <1>0, <2>1, <2>2, <2>3, <2>5, <2>6 DEF Up, Spare, Good, Live, Placed, Of
  <2>8. Native(r)
    BY <2>1, <2>5, <2>6, BootAssumption DEF Native, Rooted, Reach
  <2> QED BY <2>6, <2>7, <2>8 DEF Ready
<1> QED BY <1>7, <1>8
\* The pre-loader moves: the variables of the copy that is to run are those of
\* the other, but for where it lies.
LEMMA MovedIs ==
  ASSUME NEW k, Ready(k), ~ k.filetab, k.me = "low", NEW shift, NEW r, r = Moved(k, shift)
  PROVE  /\ IsMachine(r) /\ Fits(r)
         /\ ~ r.panic => /\ r.me = "high" /\ r.at = k.at /\ Placed(r, "EXT3HI")
                         /\ r.micro = k.micro /\ r.filetab = k.filetab /\ r.prefix = k.prefix /\ r.ldrlen = k.ldrlen
                         /\ r.given = k.given /\ r.loaded = k.loaded /\ r.saved = k.saved
                         /\ r.v["high"].scratch = k.v["low"].scratch + shift /\ r.v["high"].stage0 = k.v["low"].stage0
<1> DEFINE low == [Of(k) EXCEPT !.scratch = @ + shift]
           a == [k EXCEPT !.v["low"] = low, !.v["high"] = low]
           b == Say(a)
           c == [b EXCEPT !.v["low"].use_term = FALSE]
           f == Name(Preldr, "preldr0")
           o == OpenOwn(c, f)
           d == freeldr_read(o)
<1>0. /\ DOMAIN k = Fields /\ IsMachine(k) /\ Fits(k) /\ Up(k) /\ Of(k) = k.v["low"] /\ DOMAIN k.v = Sides
      /\ DOMAIN k.v["low"] = SideFields /\ k.v["low"].fs = "EXT3HI" /\ k.v["low"].use_term \in BOOLEAN
  BY DEF Ready, Good, IsMachine, Of, Up, Sides
<1>1. /\ DOMAIN low = SideFields /\ low.fs = "EXT3HI" /\ low.use_term = k.v["low"].use_term
      /\ low.scratch = k.v["low"].scratch + shift /\ low.stage0 = k.v["low"].stage0
  BY <1>0 DEF SideFields
<1>2. r = IF o.ok THEN [d EXCEPT !.me = "high"] ELSE [o EXCEPT !.panic = TRUE]
  BY DEF Moved
<1>3. IsName(f)
  <2>1. Preldr \in Seq({"boot", "loader"})
    BY DEF Preldr
  <2>2. Len(Preldr) \in Nat
    BY <2>1
  <2> QED BY <2>2 DEF Name, IsName
<1> HIDE DEF low, f
<1>4. DOMAIN a = Fields /\ a.v = [k.v EXCEPT !["low"] = low, !["high"] = low] /\ \A x \in Fields : x # "v" => a[x] = k[x]
  BY <1>0 DEF Fields
<1> HIDE DEF a
<1>5. DOMAIN a.v = Sides /\ \A x \in Sides : a.v[x] = low
  BY <1>0, <1>4 DEF Sides
<1>6. /\ IsMachine(a) /\ a.called = k.called /\ a.me = "low" /\ a.at = k.at /\ a.filetab = k.filetab
      /\ Of(a).use_term = Of(k).use_term /\ Of(a).fs = "EXT3HI"
  <2>1. a.me = k.me /\ a.filetab = k.filetab /\ a.panic = k.panic /\ a.ok = k.ok /\ a.mounted = k.mounted /\ a.at = k.at /\ a.called = k.called
    BY <1>4 DEF Fields
  <2>2. IsMachine(a)
    BY <1>0, <1>1, <1>4, <1>5, <2>1 DEF IsMachine
  <2> QED BY <1>0, <1>1, <1>5, <2>1, <2>2 DEF Of, Sides
<1>7. Good(a) /\ Up(a)
  BY <1>0, <1>6, SameFits DEF Good, Up, Live, Placed, Ready
<1>8. Same(a, b) /\ Fits(b)
  BY <1>7, SayIs
<1> HIDE DEF b
<1>9. /\ DOMAIN b = Fields /\ IsMachine(b) /\ DOMAIN b.v = Sides /\ DOMAIN b.v["low"] = SideFields /\ b.me = "low" /\ b.at = k.at
  BY <1>6, <1>8 DEF Same, Quiet, IsMachine, Sides
<1>10. /\ DOMAIN c = Fields /\ c.v = [b.v EXCEPT !["low"].use_term = FALSE] /\ \A x \in Fields : x # "v" => c[x] = b[x]
  BY <1>9 DEF Fields
<1> HIDE DEF c
<1>11. /\ DOMAIN c.v = Sides /\ c.v["high"] = b.v["high"] /\ c.v["low"].use_term = FALSE /\ DOMAIN c.v["low"] = SideFields
       /\ c.v["low"].fs = b.v["low"].fs
  BY <1>9, <1>10 DEF Sides, SideFields
<1>12. IsMachine(c) /\ c.called = b.called /\ c.me = "low" /\ c.at = k.at
  <2>1. c.me = b.me /\ c.filetab = b.filetab /\ c.panic = b.panic /\ c.ok = b.ok /\ c.mounted = b.mounted /\ c.at = b.at /\ c.called = b.called
    BY <1>10 DEF Fields
  <2> QED BY <1>9, <1>10, <1>11, <2>1 DEF IsMachine, Sides
<1>13. Fits(c) /\ Live(c, Of(c).fs) /\ Of(c).fs = "EXT3HI"
  <2>1. c.v["low"].fs = "EXT3HI"
    BY <1>1, <1>5, <1>8, <1>11 DEF Same, Quiet, Sides
  <2> QED BY <1>0, <1>8, <1>12, <2>1, SameFits DEF Live, Placed, Of, Up
<1>14. Quiet(c, o) /\ Fits(o)
  BY <1>3, <1>12, <1>13, OpenOwnIs
<1> HIDE DEF o
<1>15. IsMachine(o) /\ Live(o, Of(o).fs) /\ DOMAIN o = Fields
  BY <1>12, <1>13, <1>14, QuietLive DEF Quiet, IsMachine
<1>16. CASE ~ o.ok
  <2>1. DOMAIN r = Fields /\ r.panic = TRUE /\ \A x \in Fields : x # "panic" => r[x] = o[x]
    BY <1>2, <1>15, <1>16 DEF Fields
  <2>2. IsMachine(r) /\ r.called = o.called
    BY <1>15, <2>1 DEF IsMachine, Fields
  <2> QED BY <1>14, <2>1, <2>2, SameFits
<1>17. CASE o.ok
  <2>1. Same(o, d) /\ Fits(d)
    BY <1>14, <1>15, ReadIs
  <2> HIDE DEF d
  <2>2. Quiet(c, d) /\ DOMAIN d = Fields /\ IsMachine(d)
    BY <1>14, <2>1, QuietTrans DEF Same, Quiet, IsMachine
  <2>3. DOMAIN r = Fields /\ r.me = "high" /\ \A x \in Fields : x # "me" => r[x] = d[x]
    BY <1>2, <1>17, <2>2 DEF Fields
  <2>4. IsMachine(r) /\ r.called = d.called
    BY <2>2, <2>3 DEF IsMachine, Fields, Sides
  <2>5. Fits(r)
    BY <2>1, <2>4, SameFits
  <2>6. /\ r.at = k.at /\ r.v = d.v /\ r.micro = k.micro /\ r.filetab = k.filetab /\ r.prefix = k.prefix /\ r.ldrlen = k.ldrlen
        /\ r.given = k.given /\ r.loaded = k.loaded /\ r.saved = k.saved
    <3>1. /\ d.at = c.at /\ d.micro = c.micro /\ d.filetab = c.filetab /\ d.prefix = c.prefix /\ d.ldrlen = c.ldrlen
          /\ d.given = c.given /\ d.loaded = c.loaded /\ d.saved = c.saved
      BY <2>2 DEF Quiet
    <3>2. /\ b.micro = a.micro /\ b.filetab = a.filetab /\ b.prefix = a.prefix /\ b.ldrlen = a.ldrlen
          /\ b.given = a.given /\ b.loaded = a.loaded /\ b.saved = a.saved
      BY <1>8 DEF Same, Quiet
    <3> QED BY <1>4, <1>10, <1>12, <2>3, <3>1, <3>2 DEF Fields
  <2>7. r.v["high"].scratch = k.v["low"].scratch + shift /\ r.v["high"].stage0 = k.v["low"].stage0
    <3>1. d.v["high"].scratch = c.v["high"].scratch /\ d.v["high"].stage0 = c.v["high"].stage0
      BY <2>2 DEF Quiet, Sides
    <3>2. b.v["high"].scratch = a.v["high"].scratch /\ b.v["high"].stage0 = a.v["high"].stage0
      BY <1>8 DEF Same, Quiet, Sides
    <3>3. c.v["high"] = b.v["high"] /\ a.v["high"] = low
      BY <1>5, <1>11 DEF Sides
    <3> QED BY <1>1, <2>6, <3>1, <3>2, <3>3
  <2>8. Placed(r, "EXT3HI")
    BY <1>0, <2>6 DEF Up, Live, Placed
  <2> QED BY <2>3, <2>4, <2>5, <2>6, <2>7, <2>8
<1> QED BY <1>16, <1>17

\* What has become of k when the copy above it goes on.
Arrives(k, shift, r) ==
  /\ Ready(r) /\ (Native(k) => Native(r)) /\ r.me = "high" /\ r.micro = k.micro /\ r.filetab = k.filetab
  /\ r.panic = k.panic /\ r.prefix = k.prefix /\ r.given = k.given /\ r.loaded = k.loaded
  /\ r.saved = k.saved /\ r.at["UFSD"] = k.at["UFSD"]
  /\ r.v["high"].scratch = k.v["high"].scratch /\ r.v["high"].stage0 = k.v["high"].stage0 + shift

LEMMA ArrivedIs ==
  ASSUME NEW k, IsMachine(k), Fits(k), k.me = "high", ~ k.filetab, Placed(k, "EXT3HI"), Spare(k), NEW shift,
         NEW r, r = Arrived(k, shift)
  PROVE  Arrives(k, shift, r)
<1> DEFINE c == [k EXCEPT !.v["high"].use_term = FALSE, !.v["high"].stage0 = @ + shift]
<1>0. /\ DOMAIN k = Fields /\ DOMAIN k.v = Sides /\ DOMAIN k.v["high"] = SideFields /\ "UFSD" \in Buffers /\ "EXT3HI" \in Buffers
  BY DEF IsMachine, Sides, Buffers
<1>1. DOMAIN c = Fields /\ c.v = [k.v EXCEPT !["high"].use_term = FALSE, !["high"].stage0 = @ + shift]
      /\ \A x \in Fields : x # "v" => c[x] = k[x]
  BY <1>0 DEF Fields
<1>2. r = fsd_init(c, "EXT3HI")
  BY DEF Arrived
<1> HIDE DEF c
<1>3. /\ DOMAIN c.v = Sides /\ c.v["low"] = k.v["low"] /\ DOMAIN c.v["high"] = SideFields /\ c.v["high"].fs = k.v["high"].fs
      /\ c.v["high"].use_term = FALSE /\ c.v["high"].scratch = k.v["high"].scratch
      /\ c.v["high"].stage0 = k.v["high"].stage0 + shift
  BY <1>0, <1>1 DEF Sides, SideFields
<1>4. /\ c.me = k.me /\ c.filetab = k.filetab /\ c.panic = k.panic /\ c.ok = k.ok /\ c.mounted = k.mounted /\ c.at = k.at /\ c.called = k.called
  BY <1>1 DEF Fields
<1>5. IsMachine(c)
  BY <1>1, <1>3, <1>4 DEF IsMachine, Sides
<1>6. Fits(c) /\ Placed(c, "EXT3HI")
  BY <1>4, SameFits DEF Placed
<1>7. /\ IsMachine(r) /\ Fits(r) /\ Live(r, "EXT3HI") /\ Of(r).fs = "EXT3HI" /\ r.at["EXT3HI"].code = c.at["EXT3HI"].code
      /\ \A d \in Buffers : d # "EXT3HI" => r.at[d] = c.at[d]
      /\ \A x \in Fields : x \notin {"at", "v", "called"} => r[x] = c[x]
      /\ \A x \in Sides : r.v[x].use_term = c.v[x].use_term /\ r.v[x].scratch = c.v[x].scratch
                          /\ r.v[x].stage0 = c.v[x].stage0 /\ r.v[x].tag = c.v[x].tag
  BY <1>2, <1>5, <1>6, InitIs
<1>8. /\ r.me = "high" /\ r.micro = k.micro /\ r.filetab = k.filetab
      /\ r.panic = k.panic /\ r.prefix = k.prefix /\ r.ldrlen = k.ldrlen /\ r.given = k.given /\ r.loaded = k.loaded
      /\ r.saved = k.saved /\ r.at["UFSD"] = k.at["UFSD"] /\ r.at["EXT3HI"].code = k.at["EXT3HI"].code
      /\ r.v["high"].scratch = k.v["high"].scratch /\ r.v["high"].stage0 = k.v["high"].stage0 + shift
      /\ Of(r).use_term = FALSE
  <2>1. \A x \in Fields : x \notin {"at", "v", "called"} => r[x] = k[x]
    BY <1>1, <1>7
  <2>2. /\ r.me = "high" /\ r.micro = k.micro /\ r.filetab = k.filetab
        /\ r.panic = k.panic /\ r.prefix = k.prefix /\ r.ldrlen = k.ldrlen /\ r.given = k.given /\ r.loaded = k.loaded
        /\ r.saved = k.saved
    BY <2>1 DEF Fields
  <2>3. r.at["UFSD"] = k.at["UFSD"] /\ r.at["EXT3HI"].code = k.at["EXT3HI"].code
    BY <1>0, <1>4, <1>7
  <2>4. /\ r.v["high"].scratch = k.v["high"].scratch /\ r.v["high"].stage0 = k.v["high"].stage0 + shift
        /\ r.v["high"].use_term = FALSE
    BY <1>3, <1>7 DEF Sides
  <2> QED BY <2>2, <2>3, <2>4 DEF Of
<1>9. Ready(r)
  BY <1>7, <1>8 DEF Ready, Good, Up, Spare
<1>10. Native(k) => Native(r)
  BY <1>8 DEF Native, Rooted, Reach
<1> QED BY <1>8, <1>9, <1>10 DEF Arrives
-------------------------------------------------------------------------------
(* Where the pre-loader lies.                                                  *)

\* How long os2ldr is found to be.
LdrLength(k) == SpeltLength(k, Redirected(k, conf.extloader.name))

\* Before the move; the loader may have given the room that os2ldr needs.
Low(k) == k.v["low"].scratch = PREFERRED_BASE /\ k.v["low"].stage0 = STAGE0_BASE /\ k.ldrlen \in Nat /\ (k.given \/ k.ldrlen = 0)

\* After it: what is above the pre-loader is enough for os2ldr.
High(k) ==
  conf.extloader.name # None =>
    /\ k.v["high"].scratch \in Int /\ k.v["high"].stage0 = k.v["high"].scratch + (STAGE0_BASE - PREFERRED_BASE)
    /\ k.given \/ (LdrLength(k) \in Nat => k.v["high"].scratch + LowSize + Room(LdrLength(k)) <= MemLower * 8)

\* From the moment the uFSD has moved up.
Running(k) ==
  /\ Ready(k) /\ DOMAIN k.loaded = Loads /\ (k.filetab => k.micro) /\ (~ k.micro => Native(k))
  /\ k.me = "low" => Low(k)
  /\ k.me = "high" => High(k) /\ ~ k.micro

LEMMA LengthKept ==
  ASSUME NEW k, NEW r, r.saved = k.saved, r.at["UFSD"] = k.at["UFSD"], r.prefix = k.prefix PROVE LdrLength(r) = LdrLength(k)
<1> DEFINE n == conf.extloader.name
<1>1. Redirected(r, n) = Redirected(k, n)
  BY DEF Redirected
<1> HIDE DEF n
<1>2. Reach(r) = Reach(k) /\ \A f : Target(r, f) = Target(k, f)
  BY DEF Reach, Target
<1>3. \A d : Mounts(r, d) <=> Mounts(k, d)
  BY <1>2 DEF Mounts
<1>4. ASSUME NEW f PROVE (IsThere(r, f) <=> IsThere(k, f)) /\ LengthOf(r, f) = LengthOf(k, f)
  <2>1. Target(r, f) = Target(k, f) /\ (Mounts(r, Target(k, f)) <=> Mounts(k, Target(k, f)))
    BY <1>2, <1>3
  <2> QED BY <2>1 DEF IsThere, LengthOf
<1>5. \A f : SpeltLength(r, f) = SpeltLength(k, f)
  BY <1>4 DEF SpeltLength
<1> QED BY <1>1, <1>5 DEF LdrLength, n

LEMMA LengthIs == ASSUME NEW k PROVE LdrLength(k) \in Nat \cup {None}
<1>1. \A f : LengthOf(k, f) \in Nat \cup {None}
  BY ConstantsAssumption DEF LengthOf
<1> QED BY <1>1 DEF LdrLength, SpeltLength

LEMMA RunningStill ==
  ASSUME NEW k, Running(k), NEW r, Still(k, r), Ready(r), Native(k) => Native(r), DOMAIN r.loaded = Loads PROVE Running(r)
<1>1. LdrLength(r) = LdrLength(k)
  BY LengthKept DEF Still
<1>2. /\ r.me = k.me /\ r.micro = k.micro /\ r.filetab = k.filetab /\ r.given = k.given /\ r.ldrlen = k.ldrlen
      /\ \A c \in {"low", "high"} : r.v[c].scratch = k.v[c].scratch /\ r.v[c].stage0 = k.v[c].stage0
  BY DEF Still, Sides
<1> QED BY <1>1, <1>2 DEF Running, Low, High

\* The terminal that has been loaded is used.
LEMMA TermOnIs ==
  ASSUME NEW k, Running(k), Live(k, "TERM"), NEW r, r = [k EXCEPT !.v[k.me].use_term = TRUE]
  PROVE  Running(r) /\ r.me = k.me /\ r.micro = k.micro /\ r.panic = k.panic
<1>0. DOMAIN k = Fields /\ IsMachine(k) /\ k.me \in Sides /\ DOMAIN k.v = Sides /\ \A c \in Sides : DOMAIN k.v[c] = SideFields
  BY DEF Running, Ready, Good, IsMachine
<1>1. DOMAIN r = Fields /\ r.v = [k.v EXCEPT ![k.me].use_term = TRUE] /\ \A x \in Fields : x # "v" => r[x] = k[x]
  BY <1>0 DEF Fields
<1>2. /\ DOMAIN r.v = Sides /\ Of(r).use_term = TRUE
      /\ \A c \in Sides : /\ DOMAIN r.v[c] = SideFields /\ r.v[c].use_term \in {k.v[c].use_term, TRUE}
                          /\ r.v[c].fs = k.v[c].fs /\ r.v[c].scratch = k.v[c].scratch /\ r.v[c].stage0 = k.v[c].stage0
  <2>1. r.me = k.me
    BY <1>1 DEF Fields
  <2>2. r.v[k.me] = [k.v[k.me] EXCEPT !.use_term = TRUE] /\ \A c \in Sides : c # k.me => r.v[c] = k.v[c]
    BY <1>0, <1>1
  <2>3. /\ DOMAIN r.v[k.me] = SideFields /\ r.v[k.me].use_term = TRUE /\ r.v[k.me].fs = k.v[k.me].fs
        /\ r.v[k.me].scratch = k.v[k.me].scratch /\ r.v[k.me].stage0 = k.v[k.me].stage0
    BY <1>0, <2>2 DEF SideFields
  <2>4. DOMAIN r.v = Sides
    BY <1>0, <1>1
  <2> QED BY <1>0, <2>1, <2>2, <2>3, <2>4 DEF Of
<1>3. /\ r.me = k.me /\ r.micro = k.micro /\ r.filetab = k.filetab /\ r.panic = k.panic /\ r.ok = k.ok /\ r.mounted = k.mounted /\ r.at = k.at
      /\ r.called = k.called /\ r.prefix = k.prefix /\ r.ldrlen = k.ldrlen /\ r.given = k.given /\ r.saved = k.saved /\ r.loaded = k.loaded
  BY <1>1 DEF Fields
<1>4. IsMachine(r)
  BY <1>0, <1>1, <1>2, <1>3 DEF IsMachine
<1>5. Fits(r)
  BY <1>3, SameFits DEF Running, Ready, Good
<1>6. Ready(r)
  BY <1>0, <1>2, <1>3, <1>4, <1>5 DEF Running, Ready, Good, Up, Spare, Live, Placed, Of
<1>7. Native(k) => Native(r)
  BY <1>3 DEF Native, Rooted, Reach
<1>8. LdrLength(r) = LdrLength(k)
  BY <1>3, LengthKept
<1>9. \A c \in {"low", "high"} : r.v[c].scratch = k.v[c].scratch /\ r.v[c].stage0 = k.v[c].stage0
  BY <1>2 DEF Sides
<1> QED BY <1>3, <1>6, <1>7, <1>8, <1>9 DEF Running, Low, High

\* The room is noted before the move.
Roomy(k) == [k EXCEPT !.ldrlen = Pages(k)]

\* The move, as set_addr() makes it.
LEMMA MoveIs ==
  ASSUME IsConfiguration(conf), NEW k, Running(k), k.me = "low", ~ k.micro,
         NEW f, f = IF conf.extloader.name # None THEN conf.extloader.name ELSE LoaderName, f = None \/ IsName(f),
         NEW o, o = freeldr_open(k, f), ~ o.panic, ~ (o.ldrlen = 0 /\ o.filemax = None),
         NEW shift, shift = LdrBase(o) - (PREFERRED_BASE + LowSize),
         NEW q, q = Moved(Say(Roomy(o)), shift), NEW r, r = Arrived(q, shift)
  PROVE  IsMachine(q) /\ Fits(q) /\ (~ q.panic => Running(r) /\ r.me = "high" /\ ~ r.panic)
<1> DEFINE c == Roomy(o)
           s == Say(c)
<1>0. Ready(k) /\ Native(k) /\ Low(k) /\ ~ k.filetab /\ DOMAIN k.loaded = Loads
  BY DEF Running
<1>1. /\ Keeps(k, o) /\ Ready(o) /\ Native(o)
      /\ f # None => o.filemax = SpeltLength(k, Redirected(k, f))
  BY <1>0, OpenIs
<1>2. Still(k, o) /\ o.loaded = k.loaded /\ DOMAIN o = Fields /\ IsMachine(o) /\ Fits(o)
  BY <1>1, KeepsStill DEF Ready, Good, IsMachine
<1>3. DOMAIN c = Fields /\ \A x \in Fields : x # "ldrlen" => c[x] = o[x]
  BY <1>2 DEF Roomy, Fields
<1> HIDE DEF c
<1>4. /\ c.me = o.me /\ c.micro = o.micro /\ c.filetab = o.filetab /\ c.panic = o.panic /\ c.ok = o.ok /\ c.mounted = o.mounted /\ c.at = o.at
      /\ c.called = o.called /\ c.prefix = o.prefix /\ c.given = o.given /\ c.saved = o.saved /\ c.loaded = o.loaded /\ c.v = o.v
  BY <1>3 DEF Fields
<1>5. IsMachine(c) /\ Fits(c)
  <2>1. IsMachine(c)
    BY <1>2, <1>3, <1>4 DEF IsMachine
  <2> QED BY <1>2, <1>4, <2>1, SameFits
<1>6. Ready(c) /\ Native(c)
  <2>1. Of(c) = Of(o) /\ \A b : Live(c, b) <=> Live(o, b)
    BY <1>4 DEF Of, Live, Placed
  <2>2. Ready(c)
    BY <1>1, <1>4, <1>5, <2>1 DEF Ready, Good, Up, Spare
  <2>3. Rooted(c) /\ Reach(c) = Reach(o)
    BY <1>1, <1>4 DEF Native, Rooted, Reach
  <2> QED BY <1>1, <1>4, <2>2, <2>3 DEF Native
<1>7. Same(c, s) /\ Fits(s)
  BY <1>6, SayIs DEF Ready
<1> HIDE DEF s
<1>8. /\ s.me = "low" /\ s.micro = k.micro /\ ~ s.filetab /\ s.saved = k.saved /\ s.at["UFSD"] = k.at["UFSD"] /\ s.prefix = k.prefix
      /\ s.given = k.given /\ s.loaded = k.loaded
      /\ s.v["low"].scratch = k.v["low"].scratch /\ s.v["low"].stage0 = k.v["low"].stage0
  <2>1. /\ o.me = k.me /\ o.micro = k.micro /\ o.filetab = k.filetab /\ o.saved = k.saved /\ o.at["UFSD"] = k.at["UFSD"] /\ o.prefix = k.prefix
        /\ o.given = k.given /\ o.v["low"].scratch = k.v["low"].scratch /\ o.v["low"].stage0 = k.v["low"].stage0
    BY <1>2 DEF Still, Sides
  <2>2. /\ s.me = c.me /\ s.micro = c.micro /\ s.filetab = c.filetab /\ s.saved = c.saved /\ s.at = c.at /\ s.prefix = c.prefix
        /\ s.given = c.given /\ s.loaded = c.loaded /\ s.v["low"].scratch = c.v["low"].scratch /\ s.v["low"].stage0 = c.v["low"].stage0
    BY <1>7 DEF Same, Quiet, Sides
  <2> QED BY <1>0, <1>2, <1>4, <2>1, <2>2
<1>9. Ready(s) /\ Native(s)
  BY <1>6, <1>7, QuietReady DEF Same
<1>10. q = Moved(s, shift)
  BY DEF s, c
<1>11. /\ IsMachine(q) /\ Fits(q)
       /\ ~ q.panic => /\ q.me = "high" /\ q.at = s.at /\ Placed(q, "EXT3HI")
                       /\ q.micro = s.micro /\ q.filetab = s.filetab /\ q.prefix = s.prefix /\ q.ldrlen = s.ldrlen
                       /\ q.given = s.given /\ q.loaded = s.loaded /\ q.saved = s.saved
                       /\ q.v["high"].scratch = s.v["low"].scratch + shift /\ q.v["high"].stage0 = s.v["low"].stage0
  BY <1>8, <1>9, <1>10, MovedIs
<1>12. ASSUME ~ q.panic PROVE Running(r) /\ r.me = "high" /\ ~ r.panic
  <2>0. /\ q.me = "high" /\ q.at = s.at /\ Placed(q, "EXT3HI") /\ q.micro = s.micro /\ q.filetab = s.filetab /\ q.prefix = s.prefix
        /\ q.ldrlen = s.ldrlen /\ q.given = s.given /\ q.loaded = s.loaded /\ q.saved = s.saved
        /\ q.v["high"].scratch = s.v["low"].scratch + shift /\ q.v["high"].stage0 = s.v["low"].stage0
    BY <1>11, <1>12
  <2>7. Spare(s) /\ ~ s.filetab
    BY <1>8, <1>9 DEF Ready
  <2>1. Spare(q) /\ ~ q.filetab
    BY <2>0, <2>7 DEF Spare
  <2>2. Native(q)
    <3>1. Rooted(q) /\ Reach(q) = Reach(s)
      BY <1>9, <2>0 DEF Native, Rooted, Reach
    <3> QED BY <1>9, <2>0, <3>1 DEF Native
  <2>3. /\ Ready(r) /\ Native(r) /\ r.me = "high" /\ r.micro = q.micro /\ r.filetab = q.filetab
        /\ r.panic = q.panic /\ r.prefix = q.prefix /\ r.given = q.given /\ r.loaded = q.loaded
        /\ r.saved = q.saved /\ r.at["UFSD"] = q.at["UFSD"]
        /\ r.v["high"].scratch = q.v["high"].scratch /\ r.v["high"].stage0 = q.v["high"].stage0 + shift
    <3>1. IsMachine(q) /\ Fits(q) /\ q.me = "high" /\ Placed(q, "EXT3HI")
      BY <1>11, <2>0
    <3>2. Arrives(q, shift, r)
      BY <2>1, <3>1, ArrivedIs
    <3> QED BY <2>2, <3>1, <3>2 DEF Arrives
  <2>4. LdrLength(r) = LdrLength(k)
    <3>1. q.saved = k.saved /\ q.at["UFSD"] = k.at["UFSD"] /\ q.prefix = k.prefix
      BY <1>8, <2>0
    <3>2. r.saved = q.saved /\ r.at["UFSD"] = q.at["UFSD"] /\ r.prefix = q.prefix
      BY <2>3
    <3>3. r.saved = k.saved /\ r.at["UFSD"] = k.at["UFSD"] /\ r.prefix = k.prefix
      BY <3>1, <3>2
    <3> QED BY <3>3, LengthKept
  <2>5. High(r)
    <3> SUFFICES ASSUME conf.extloader.name # None
                 PROVE  /\ r.v["high"].scratch \in Int /\ r.v["high"].stage0 = r.v["high"].scratch + (STAGE0_BASE - PREFERRED_BASE)
                        /\ r.given \/ (LdrLength(r) \in Nat => r.v["high"].scratch + LowSize + Room(LdrLength(r)) <= MemLower * 8)
      BY DEF High
    <3> DEFINE L == LdrLength(k)
               P == Pages(o)
               M == MemLower
    <3>1. o.filemax = L
      BY <1>1 DEF LdrLength
    <3>2. L \in Nat \cup {None} /\ M \in Nat
      BY LengthIs, ConstantsAssumption
    <3>3. o.ldrlen = k.ldrlen /\ r.given = k.given /\ k.ldrlen \in Nat
      <4>1. o.ldrlen = k.ldrlen
        BY <1>2 DEF Still
      <4> QED BY <1>0, <1>8, <2>0, <2>3, <4>1 DEF Low
    <3>4. LdrBase(o) = ((M \div 4) - P) * 32
      BY DEF LdrBase, PAGE
    <3> HIDE DEF L, M
    <3>5. P \in Int /\ (k.ldrlen = 0 => L \in Nat /\ P = (L + 69 + 31) \div 32)
      <4>1. CASE k.ldrlen # 0
        BY <3>3, <4>1 DEF Pages
      <4>2. CASE k.ldrlen = 0
        <5>1. L \in Nat
          BY <3>1, <3>2, <3>3, <4>2
        <5>2. P = (L + 37 + 32 + 32 - 1) \div 32
          BY <3>1, <3>3, <4>2 DEF Pages, Room, PAGE
        <5> HIDE DEF P
        <5>3. L + 37 + 32 + 32 - 1 = L + 69 + 31
          BY <5>1
        <5> QED BY <5>1, <5>2, <5>3
      <4> QED BY <4>1, <4>2
    <3> HIDE DEF P
    <3> DEFINE B == LdrBase(o)
               R == r.v["high"].scratch
               E == r.v["high"].stage0
    <3>6. R = 2944 + shift /\ E = 3196 + shift /\ shift = B - 3260
      BY <1>0, <1>8, <2>0, <2>3 DEF Low, PREFERRED_BASE, STAGE0_BASE, LowSize
    <3>7. B \in Int
      BY <3>2, <3>4, <3>5
    <3> HIDE DEF B, R, E
    <3>8. R = B - 316 /\ R \in Int /\ E = R + 252
      BY <3>6, <3>7
    <3>9. k.given \/ (L \in Nat => R + 316 + (L + 37 + 32) <= M * 8)
      <4> SUFFICES ASSUME ~ k.given, L \in Nat PROVE R + 316 + (L + 37 + 32) <= M * 8
        OBVIOUS
      <4>1. P = (L + 69 + 31) \div 32
        BY <1>0, <3>5 DEF Low
      <4>2. B = ((M \div 4) - P) * 32
        BY <3>4 DEF B
      <4>3. P * 32 >= L + 69
        BY <4>1
      <4>4. (M \div 4) * 32 <= M * 8 /\ M \div 4 \in Nat
        BY <3>2
      <4>5. B = (M \div 4) * 32 - P * 32
        BY <3>5, <4>2, <4>4
      <4> QED BY <3>2, <3>5, <3>7, <3>8, <4>3, <4>4, <4>5
    <3>10. LdrLength(r) = L
      BY <2>4 DEF L
    <3> QED BY <3>3, <3>8, <3>9, <3>10 DEF R, E, M, Room, LowSize, PREFERRED_BASE, STAGE0_BASE
  <2>6. ~ r.micro /\ DOMAIN r.loaded = Loads /\ ~ r.filetab
    <3>1. ~ q.micro /\ DOMAIN q.loaded = Loads
      BY <1>0, <1>8, <2>0
    <3> QED BY <2>1, <2>3, <3>1
  <2> QED BY <1>12, <2>3, <2>5, <2>6 DEF Running
<1> QED BY <1>11, <1>12
-------------------------------------------------------------------------------
(* The invariant.                                                              *)

Places ==
  {"begin", "configure", "backup", "place", "terminal", "table", "loader", "leave", "os2table", "os2", "os2micro", "panic", "lost"}
Later == {"terminal", "table", "loader", "leave", "os2table", "os2"}

\* Until the uFSD has moved up.
Early(k) ==
  /\ IsMachine(k) /\ k.me = "low" /\ k.micro \in Starters /\ k.filetab = k.micro /\ k.saved = BootDevice
  /\ Of(k).fs = "EXT_BUF" /\ ~ Of(k).use_term /\ DOMAIN k.loaded = Loads /\ Low(k)
  /\ ~ k.filetab => k.at["EXT_BUF"].code = BootDriver /\ Placed(k, "EXT_BUF")

\* A micro-FSD of 16 bits has started the pre-loader.
Micro(k) ==
  /\ IsMachine(k) /\ k.me = "low" /\ k.micro /\ ~ Of(k).use_term /\ DOMAIN k.loaded = Loads /\ Low(k)
  /\ conf.microfsd = 1 => Spare(k) /\ Up(k)

Machine == pc \in Places /\ requests \in 0..MaxRequests /\ IsMachine(m) /\ Fits(m) /\ (m.panic <=> pc = "panic")

Configured ==
  IF pc \in {"begin", "configure"} THEN conf = Defaults ELSE IsConfiguration(conf) /\ conf.default + 1 \in DOMAIN conf.term_list

Starting ==
  /\ pc \in {"begin", "configure", "backup"} => Early(m)
  /\ pc \in {"begin", "configure"} => m.cur = None /\ Of(m).tag = None
  /\ pc \in {"configure", "backup", "place"} /\ ~ m.filetab => Live(m, "EXT_BUF")
  /\ pc = "backup" => (~ m.filetab => m.cur = BootDevice) /\ (m.filetab /\ conf.microfsd = 1 => Served)
  /\ pc = "place" => IF m.filetab THEN Micro(m) ELSE Early(m)

Going ==
  /\ pc \in Later => Running(m)
  /\ pc \in {"table", "loader", "leave"} => m.me = "low"
  /\ pc \in {"os2table", "os2"} => m.me = "high"

TableFits ==
  pc = "os2" /\ conf.extloader.name # None =>
    /\ ft.ldrseg = m.loaded["loader"].base /\ ft.ldrlen = m.loaded["loader"].len
    /\ m.loaded["loader"].file.name = conf.extloader.name.name
    /\ ft.minifsd => ft.mfsseg = m.loaded["mini"].base /\ ft.mfslen = m.loaded["mini"].len
    /\ ft.museg = Of(m).scratch /\ ft.entries \in ft.museg .. ft.museg + ft.mulen - 1
    /\ m.given \/ ft.museg + ft.mulen + Room(ft.ldrlen) <= MemLower * 8

Inv == Machine /\ Configured /\ Starting /\ Going /\ TableFits

LEMMA RunningPrime ==
  ASSUME conf'.fsys_list = conf.fsys_list, conf'.ignorecase = conf.ignorecase, conf'.extloader = conf.extloader, Running(m')
  PROVE  Running(m)'
<1>1. Reach(m)' = Reach(m')
  BY DEF Reach
<1>2. \A d : Mounts(m, d)' <=> Mounts(m', d)
  BY <1>1 DEF Mounts
<1>3. \A f : Target(m, f)' = Target(m', f)
  BY DEF Target
<1>4. ASSUME NEW f PROVE (IsThere(m, f)' <=> IsThere(m', f)) /\ LengthOf(m, f)' = LengthOf(m', f)
  BY <1>2, <1>3 DEF IsThere, LengthOf
<1>5. ASSUME NEW f PROVE SpeltLength(m, f)' = SpeltLength(m', f)
  BY <1>4 DEF SpeltLength
<1>6. LdrLength(m)' = LdrLength(m')
  BY <1>5 DEF LdrLength
<1>7. Native(m') => Native(m)'
  BY <1>1 DEF Native
<1>8. High(m') => High(m)'
  BY <1>6 DEF High
<1> QED BY <1>7, <1>8 DEF Running

LEMMA FreshIs ==
  ASSUME IsMachine(m), NEW k, k = Fresh
  PROVE  /\ IsMachine(k) /\ Fits(k) /\ Of(k) = Of(m) /\ k.me = m.me /\ k.at = m.at /\ k.v = m.v /\ k.filetab = m.filetab /\ k.micro = m.micro
         /\ k.cur = m.cur /\ k.saved = m.saved /\ k.panic = m.panic /\ k.loaded = m.loaded /\ k.given = m.given
         /\ k.ldrlen = m.ldrlen /\ k.prefix = m.prefix
         /\ \A b : (Live(m, b) <=> Live(k, b)) /\ (Placed(m, b) <=> Placed(k, b))
         /\ (Early(m) => Early(k)) /\ (Micro(m) => Micro(k)) /\ (Running(m) => Running(k))
<1>0. DOMAIN m = Fields
  BY DEF IsMachine
<1>1. DOMAIN k = Fields /\ k.called = {} /\ \A x \in Fields : x # "called" => k[x] = m[x]
  BY <1>0 DEF Fresh, Fields
<1>2. /\ k.me = m.me /\ k.at = m.at /\ k.v = m.v /\ k.filetab = m.filetab /\ k.micro = m.micro
      /\ k.cur = m.cur /\ k.saved = m.saved /\ k.panic = m.panic /\ k.loaded = m.loaded /\ k.given = m.given
      /\ k.ldrlen = m.ldrlen /\ k.prefix = m.prefix /\ k.ok = m.ok /\ k.mounted = m.mounted
  BY <1>1 DEF Fields
<1>3. IsMachine(k) /\ Fits(k)
  BY <1>1, <1>2 DEF IsMachine, Fits
<1>4. Of(k) = Of(m) /\ \A b : (Live(m, b) <=> Live(k, b)) /\ (Placed(m, b) <=> Placed(k, b))
  BY <1>2 DEF Of, Live, Placed
<1>5. (Early(m) => Early(k)) /\ (Micro(m) => Micro(k))
  BY <1>2, <1>3, <1>4 DEF Early, Micro, Low, Spare, Up
<1>6. Ready(m) => Ready(k)
  BY <1>2, <1>3, <1>4 DEF Ready, Good, Spare, Up
<1>7. Native(m) => Native(k)
  BY <1>2 DEF Native, Rooted, Reach
<1>8. LdrLength(k) = LdrLength(m)
  BY <1>2, LengthKept
<1>9. Running(m) => Running(k)
  BY <1>2, <1>6, <1>7, <1>8 DEF Running, Low, High
<1> QED BY <1>2, <1>3, <1>4, <1>5, <1>9
LEMMA LaterStep ==
  ASSUME pc' \in Later, requests' \in 0..MaxRequests, IsConfiguration(conf'), (conf').default + 1 \in DOMAIN (conf').term_list,
         conf'.fsys_list = conf.fsys_list, conf'.ignorecase = conf.ignorecase, conf'.extloader = conf.extloader,
         Running(m'), ~ (m').panic,
         pc' \in {"table", "loader", "leave"} => (m').me = "low", pc' \in {"os2table", "os2"} => (m').me = "high",
         pc' = "os2" => TableFits'
  PROVE  Inv'
<1>1. Running(m)'
  BY RunningPrime
<1>2. IsMachine(m') /\ Fits(m')
  BY DEF Running, Ready, Good
<1>3. pc' \in {"terminal", "table", "loader", "leave", "os2table", "os2"}
  BY DEF Later
<1>4. Machine'
  BY <1>2, <1>3 DEF Machine, Places
<1>5. Configured'
  BY <1>3 DEF Configured
<1>6. Starting'
  BY <1>3 DEF Starting
<1>7. Going'
  BY <1>1, <1>3 DEF Going
<1>8. TableFits'
  BY <1>3 DEF TableFits
<1> QED BY <1>4, <1>5, <1>6, <1>7, <1>8 DEF Inv

LEMMA EndStep ==
  ASSUME pc' \in {"panic", "lost", "os2micro"}, requests' \in 0..MaxRequests,
         IsConfiguration(conf'), (conf').default + 1 \in DOMAIN (conf').term_list,
         IsMachine(m'), Fits(m'), (m').panic <=> pc' = "panic"
  PROVE  Inv'
<1>1. Machine'
  BY DEF Machine, Places
<1>2. Configured' /\ Starting' /\ Going' /\ TableFits'
  BY DEF Configured, Starting, Going, TableFits, Later
<1> QED BY <1>1, <1>2 DEF Inv

LEMMA InitInv == Init => Inv
<1> SUFFICES ASSUME Init PROVE Inv
  OBVIOUS
<1> USE DEF Init
<1>1. PICK micro \in Starters :
        m = [me |-> "low", micro |-> micro, filetab |-> micro,
            at |-> [b \in Buffers |-> IF b = "EXT_BUF" /\ ~micro THEN [code |-> BootDriver, base |-> "EXT_BUF", lip |-> None] ELSE None],
            v |-> [c \in {"low", "high"} |->
                     [fs |-> "EXT_BUF", use_term |-> FALSE, tag |-> None, scratch |-> PREFERRED_BASE, stage0 |-> STAGE0_BASE]],
            cur |-> None, saved |-> BootDevice, mounted |-> FALSE, ok |-> FALSE, filemax |-> 0, open |-> None,
            buffer |-> None, misread |-> FALSE, panic |-> FALSE, called |-> {}, prefix |-> None, ldrlen |-> 0, given |-> FALSE,
            loaded |-> [f \in {"loader", "mini"} |-> None]]
  OBVIOUS
<1> DEFINE code == [code |-> BootDriver, base |-> "EXT_BUF", lip |-> None]
<1>2. micro \in BOOLEAN /\ code \in Codes /\ code # None /\ code.base = "EXT_BUF" /\ code.code = BootDriver
  BY ConstantsAssumption DEF Codes, Buffers
<1> HIDE DEF code
<1>3. DOMAIN m = Fields
  BY <1>1 DEF Fields
<1>4. /\ m.me = "low" /\ m.micro = micro /\ m.filetab = micro /\ m.cur = None /\ m.saved = BootDevice /\ m.mounted = FALSE
      /\ m.ok = FALSE /\ m.panic = FALSE /\ m.called = {} /\ m.ldrlen = 0 /\ DOMAIN m.loaded = Loads
  BY <1>1 DEF Loads
<1>5. /\ m.at \in [Buffers -> Codes \cup {None}]
      /\ ~ micro => m.at["EXT_BUF"] = code
  <2>1. m.at = [b \in Buffers |-> IF b = "EXT_BUF" /\ ~ micro THEN code ELSE None]
    BY <1>1 DEF code
  <2>2. "EXT_BUF" \in Buffers
    BY DEF Buffers
  <2> QED BY <1>2, <2>1, <2>2
<1>6. /\ DOMAIN m.v = Sides
      /\ \A c \in Sides : /\ DOMAIN m.v[c] = SideFields /\ m.v[c].fs = "EXT_BUF" /\ m.v[c].use_term = FALSE
                          /\ m.v[c].tag = None /\ m.v[c].scratch = PREFERRED_BASE /\ m.v[c].stage0 = STAGE0_BASE
  BY <1>1 DEF Sides, SideFields
<1>7. IsMachine(m) /\ Fits(m)
  <2>1. m.me \in Sides
    BY <1>4 DEF Sides
  <2> QED BY <1>2, <1>3, <1>4, <1>5, <1>6, <2>1 DEF IsMachine, Fits
<1>8. Low(m)
  BY <1>4, <1>6 DEF Low, Sides
<1>9. ~ m.filetab => m.at["EXT_BUF"].code = BootDriver /\ Placed(m, "EXT_BUF")
  BY <1>2, <1>4, <1>5 DEF Placed
<1>10. Of(m).fs = "EXT_BUF" /\ ~ Of(m).use_term /\ Of(m).tag = None
  BY <1>4, <1>6 DEF Of, Sides
<1>11. Early(m)
  BY <1>4, <1>7, <1>8, <1>9, <1>10 DEF Early
<1>12. Machine
  BY <1>4, <1>7, ConstantsAssumption DEF Machine, Places
<1> QED BY <1>4, <1>10, <1>11, <1>12 DEF Inv, Configured, Starting, Going, TableFits, Later

\* The driver that has been loaded is linked.
LEMMA BeginStep == ASSUME Inv, Begin PROVE Inv'
<1> DEFINE k == IF m.filetab THEN m ELSE fsd_init(m, "EXT_BUF")
<1>1. pc = "begin" /\ conf' = conf /\ requests' = requests /\ m' = k /\ pc' = IF k.panic THEN "panic" ELSE "configure"
  BY DEF Begin, Goes
<1>2. Early(m) /\ Fits(m) /\ m.cur = None /\ Of(m).tag = None /\ ~ m.panic /\ conf = Defaults /\ requests \in 0..MaxRequests
  BY <1>1 DEF Inv, Machine, Starting, Configured
<1>3. /\ Early(k) /\ Fits(k) /\ k.cur = None /\ Of(k).tag = None /\ ~ k.panic
      /\ ~ k.filetab => Live(k, "EXT_BUF")
  <2>1. CASE m.filetab
    BY <1>2, <2>1
  <2>2. CASE ~ m.filetab
    <3>1. IsMachine(m) /\ Placed(m, "EXT_BUF") /\ m.me = "low" /\ "EXT_BUF" \in Buffers
      BY <1>2, <2>2 DEF Early, Buffers
    <3>2. k = fsd_init(m, "EXT_BUF")
      BY <2>2
    <3> HIDE DEF k
    <3>3. /\ IsMachine(k) /\ Fits(k) /\ Live(k, "EXT_BUF") /\ Of(k).fs = "EXT_BUF" /\ k.at["EXT_BUF"].code = m.at["EXT_BUF"].code
          /\ \A x \in Fields : x \notin {"at", "v", "called"} => k[x] = m[x]
          /\ \A c \in Sides : k.v[c].use_term = m.v[c].use_term /\ k.v[c].scratch = m.v[c].scratch
                              /\ k.v[c].stage0 = m.v[c].stage0 /\ k.v[c].tag = m.v[c].tag
      BY <1>2, <3>1, <3>2, InitIs
    <3>4. /\ k.me = m.me /\ k.micro = m.micro /\ k.filetab = m.filetab /\ k.saved = m.saved /\ k.loaded = m.loaded /\ k.ldrlen = m.ldrlen
          /\ k.given = m.given /\ k.cur = m.cur /\ k.panic = m.panic
      BY <3>3 DEF Fields
    <3>5. Low(k) /\ Of(k).use_term = Of(m).use_term /\ Of(k).tag = Of(m).tag
      BY <1>2, <3>1, <3>3, <3>4 DEF Low, Of, Early, Sides
    <3>6. Early(k)
      BY <1>2, <2>2, <3>3, <3>4, <3>5 DEF Early, Live
    <3> QED BY <1>2, <3>3, <3>4, <3>5, <3>6
  <2> QED BY <2>1, <2>2
<1> HIDE DEF k
<1>4. pc' = "configure"
  BY <1>1, <1>3
<1>5. Machine'
  BY <1>1, <1>2, <1>3, <1>4 DEF Machine, Places, Early
<1>6. Starting'
  BY <1>1, <1>3, <1>4 DEF Starting
<1> QED BY <1>1, <1>2, <1>4, <1>5, <1>6 DEF Inv, Configured, Going, TableFits, Later
LEMMA QuietEarly == ASSUME NEW k, Early(k), NEW r, Quiet(k, r) PROVE Early(r) /\ (Live(k, "EXT_BUF") <=> Live(r, "EXT_BUF"))
<1>1. /\ IsMachine(r) /\ r.me = k.me /\ r.micro = k.micro /\ r.filetab = k.filetab /\ r.saved = k.saved /\ r.loaded = k.loaded
      /\ r.at = k.at /\ r.ldrlen = k.ldrlen /\ r.given = k.given
      /\ r.v["low"].scratch = k.v["low"].scratch /\ r.v["low"].stage0 = k.v["low"].stage0
  BY DEF Quiet, Sides
<1>2. IsMachine(k)
  BY DEF Early
<1>3. Of(r).fs = Of(k).fs /\ Of(r).use_term = Of(k).use_term /\ \A b : (Live(k, b) <=> Live(r, b)) /\ (Placed(k, b) <=> Placed(r, b))
  BY <1>2, QuietLive
<1> QED BY <1>1, <1>3 DEF Early, Low

\* preldr.ini is read by the driver that has been loaded.
LEMMA ConfigureStep == ASSUME Inv, Configure PROVE Inv'
<1> DEFINE f == CfgFile
           h == Fresh
           o == freeldr_open(h, f)
           k == IF o.ok THEN freeldr_read(o) ELSE [o EXCEPT !.panic = TRUE]
<1>1. /\ pc = "configure" /\ requests' = requests /\ m' = k /\ pc' = IF k.panic THEN "panic" ELSE "backup"
      /\ conf' \in {FoldLeft(process_cfg_line1, conf, ini) : ini \in Inis}
  BY DEF Configure, Goes
<1>2. /\ Early(m) /\ m.cur = None /\ Of(m).tag = None /\ ~ m.panic /\ conf = Defaults /\ requests \in 0..MaxRequests
      /\ ~ m.filetab => Live(m, "EXT_BUF")
  BY <1>1 DEF Inv, Machine, Starting, Configured
<1>3. conf' \in Configurations
  BY <1>1, <1>2 DEF Configurations
<1>4. IsConfiguration(conf') /\ (conf').default + 1 \in DOMAIN (conf').term_list
  BY <1>3, ConstantsAssumption
<1>5. /\ Early(h) /\ IsMachine(h) /\ Fits(h) /\ h.cur = None /\ Of(h).tag = None /\ ~ h.panic /\ h.saved = BootDevice /\ Of(h).fs = "EXT_BUF"
      /\ ~ h.filetab => Live(h, "EXT_BUF") /\ h.at["EXT_BUF"].code = BootDriver
      /\ h.filetab = m.filetab
  <2>1. IsMachine(m)
    BY <1>2 DEF Early
  <2> DEFINE g == Fresh
  <2>2. g = Fresh
    OBVIOUS
  <2> HIDE DEF g
  <2>3. /\ IsMachine(g) /\ Fits(g) /\ Of(g) = Of(m) /\ g.filetab = m.filetab /\ g.cur = m.cur /\ g.panic = m.panic
        /\ (\A b : Live(m, b) <=> Live(g, b)) /\ Early(g)
    BY <1>2, <2>1, <2>2, FreshIs
  <2> QED BY <1>2, <2>2, <2>3 DEF Early
<1>6. IsName(f) /\ f # None /\ f.dev = None /\ f.rooted = TRUE
  <2>1. Preldr \in Seq({"boot", "loader"})
    BY DEF Preldr
  <2>2. Len(Preldr) \in Nat /\ Len(<<>>) = 0
    BY <2>1
  <2> QED BY <2>2, ConstantsAssumption DEF CfgFile, Name, IsName
<1> HIDE DEF h, f
<1>7. Quiet(h, o) /\ Fits(o) /\ (~ h.filetab => o.cur = BootDevice)
  <2>1. CASE h.filetab
    <3>1. o = MuOpen(h, f)
      BY <1>6, <2>1 DEF freeldr_open
    <3> QED BY <1>5, <2>1, <3>1, MuOpenIs, SameFits
  <2>2. CASE ~ h.filetab
    BY <1>2, <1>5, <1>6, <2>2, FirstOpenIs, BootAssumption
  <2> QED BY <2>1, <2>2
<1> HIDE DEF o
<1>8. IsMachine(o) /\ Early(o) /\ (~ o.filetab => Live(o, "EXT_BUF")) /\ o.filetab = h.filetab /\ ~ o.panic /\ DOMAIN o = Fields
  BY <1>5, <1>7, QuietEarly DEF Quiet, IsMachine
<1>9. CASE ~ o.ok
  <2>1. DOMAIN k = Fields /\ k.panic = TRUE /\ \A x \in Fields : x # "panic" => k[x] = o[x]
    BY <1>8, <1>9 DEF Fields
  <2> HIDE DEF k
  <2>2. IsMachine(k) /\ k.called = o.called
    BY <1>8, <2>1 DEF IsMachine, Fields
  <2>3. Fits(k)
    BY <1>7, <2>2, SameFits
  <2> QED BY <1>1, <1>2, <1>4, <2>1, <2>2, <2>3, EndStep
<1>10. CASE o.ok
  <2>1. Same(o, k) /\ Fits(k)
    <3>1. k = freeldr_read(o) /\ (o.filetab \/ Live(o, Of(o).fs))
      BY <1>8, <1>10 DEF Early
    <3> HIDE DEF k
    <3> QED BY <1>7, <1>8, <3>1, ReadIs
  <2> HIDE DEF k
  <2>2. /\ Early(k) /\ IsMachine(k) /\ ~ k.panic /\ (~ k.filetab => Live(k, "EXT_BUF") /\ k.cur = BootDevice)
        /\ k.filetab = h.filetab
    BY <1>7, <1>8, <2>1, QuietEarly DEF Same, Quiet
  <2>3. pc' = "backup"
    BY <1>1, <2>2
  <2>4. (m').filetab /\ (conf').microfsd = 1 => Served'
    <3> SUFFICES ASSUME (m').filetab, (conf').microfsd = 1 PROVE Served'
      OBVIOUS
    <3>1. TRUE \in Starters
      BY <1>1, <2>2 DEF Early, IsMachine
    <3>2. \E i \in DOMAIN (conf').fsys_list : MuFiles(FsysFile((conf').fsys_list[i])) # {}
      BY <1>3, <3>1, BootAssumption
    <3>3. DOMAIN (conf').fsys_list = 1..Len((conf').fsys_list)
      BY <1>4 DEF IsConfiguration
    <3> QED BY <3>2, <3>3 DEF Served
  <2>5. Starting'
    BY <1>1, <2>2, <2>3, <2>4 DEF Starting
  <2>6. Machine'
    BY <1>1, <1>2, <2>1, <2>2, <2>3 DEF Machine, Places
  <2> QED BY <1>4, <2>3, <2>5, <2>6 DEF Inv, Configured, Going, TableFits, Later
<1> QED BY <1>9, <1>10
\* The uFSD is noted, and the device.
Noting(k, from) == LET c == Copied(k, "UFSD", from) IN [c EXCEPT !.saved = c.cur]

Notes(k, from, r) ==
  /\ IsMachine(r) /\ Fits(r) /\ r.at["UFSD"] = k.at[from] /\ r.saved = k.cur /\ Of(r) = Of(k) /\ r.me = k.me
  /\ r.micro = k.micro /\ r.filetab = k.filetab /\ r.panic = k.panic /\ r.v = k.v /\ r.ldrlen = k.ldrlen /\ r.given = k.given
  /\ r.loaded = k.loaded /\ r.cur = k.cur /\ \A b \in Buffers : b # "UFSD" => r.at[b] = k.at[b]

LEMMA NotingIs ==
  ASSUME NEW k, IsMachine(k), Fits(k), NEW from \in Buffers, NEW r, r = Noting(k, from) PROVE Notes(k, from, r)
<1> DEFINE c == Copied(k, "UFSD", from)
<1>0. DOMAIN k = Fields /\ k.at \in [Buffers -> Codes \cup {None}] /\ "UFSD" \in Buffers
  BY DEF IsMachine, Buffers
<1>a. r = [c EXCEPT !.saved = c.cur]
  BY DEF Noting
<1>1. DOMAIN c = Fields /\ c.at = [k.at EXCEPT !["UFSD"] = k.at[from]] /\ \A x \in Fields : x # "at" => c[x] = k[x]
  BY <1>0 DEF Copied, Fields
<1> HIDE DEF c
<1>2. DOMAIN r = Fields /\ r.saved = c.cur /\ \A x \in Fields : x # "saved" => r[x] = c[x]
  BY <1>a, <1>1 DEF Fields
<1>3. /\ r.me = k.me /\ r.micro = k.micro /\ r.filetab = k.filetab /\ r.panic = k.panic /\ r.v = k.v /\ r.ldrlen = k.ldrlen
      /\ r.given = k.given /\ r.loaded = k.loaded /\ r.cur = k.cur /\ r.saved = k.cur /\ r.at = c.at /\ r.called = k.called
      /\ r.ok = k.ok /\ r.mounted = k.mounted
  BY <1>1, <1>2 DEF Fields
<1>4. /\ r.at \in [Buffers -> Codes \cup {None}] /\ r.at["UFSD"] = k.at[from]
      /\ \A b \in Buffers : b # "UFSD" => r.at[b] = k.at[b]
  BY <1>0, <1>1, <1>3
<1>5. IsMachine(r)
  BY <1>2, <1>3, <1>4 DEF IsMachine
<1>6. Fits(r) /\ Of(r) = Of(k)
  BY <1>3, SameFits DEF Of
<1> QED BY <1>3, <1>4, <1>5, <1>6 DEF Notes

LEMMA BackupStep == ASSUME Inv, Backup PROVE Inv'
<1> DEFINE h == Fresh
           k == Own(h)
           r == [k EXCEPT !.saved = k.cur]
<1>1. pc = "backup" /\ conf' = conf /\ requests' = requests /\ m' = r /\ pc' = IF r.panic THEN "panic" ELSE "place"
  BY DEF Backup, Goes
<1>2. /\ Early(m) /\ ~ m.panic /\ IsConfiguration(conf) /\ conf.default + 1 \in DOMAIN conf.term_list /\ requests \in 0..MaxRequests
      /\ ~ m.filetab => Live(m, "EXT_BUF") /\ m.cur = BootDevice
      /\ m.filetab /\ conf.microfsd = 1 => Served
  BY <1>1 DEF Inv, Machine, Starting, Configured
<1>3. h = Fresh /\ r = [k EXCEPT !.saved = k.cur]
  OBVIOUS
<1> HIDE DEF h, r
<1>4. /\ Early(h) /\ IsMachine(h) /\ Fits(h) /\ ~ h.panic /\ h.filetab = m.filetab /\ h.cur = m.cur
      /\ ~ h.filetab => Live(h, "EXT_BUF") /\ h.cur = BootDevice
  BY <1>2, <1>3, FreshIs DEF Early
<1>5. /\ h.me = "low" /\ h.micro \in Starters /\ h.filetab = h.micro /\ h.filetab \in BOOLEAN /\ Of(h).fs = "EXT_BUF"
      /\ ~ Of(h).use_term /\ DOMAIN h.loaded = Loads /\ Low(h) /\ DOMAIN h = Fields
      /\ ~ h.filetab => h.at["EXT_BUF"].code = BootDriver /\ Placed(h, "EXT_BUF")
  BY <1>4 DEF Early, IsMachine
<1>6. "EXT_BUF" \in Buffers /\ "EXT3HI" \in Buffers
  BY DEF Buffers
<1>7. CASE h.filetab /\ conf.microfsd = 1
  <2> DEFINE a == [h EXCEPT !.cur = BootDevice]
             d == open_device2(a)
  <2>1. r = Noting(d, "EXT3HI")
    BY <1>3, <1>7 DEF Own, Noting
  <2>2. DOMAIN a = Fields /\ \A x \in Fields : x # "cur" => a[x] = h[x]
    BY <1>5 DEF Fields
  <2> HIDE DEF a
  <2>3. Quiet(h, a) /\ a.called = h.called
    BY <1>4, <2>2 DEF IsMachine, Quiet, Fields
  <2>4. Good(a) /\ a.filetab
    BY <1>4, <1>5, <1>7, <2>3, SameFits, QuietGood DEF Good, Quiet
  <2>5. Keeps(a, d) /\ Good(d) /\ (Up(d) \/ d.panic)
    BY <1>2, <1>4, <1>7, <2>4, DevicesIs
  <2> HIDE DEF d
  <2>6. /\ IsMachine(r) /\ Fits(r) /\ r.at["UFSD"] = d.at["EXT3HI"] /\ r.saved = d.cur /\ Of(r) = Of(d) /\ r.me = d.me
        /\ r.micro = d.micro /\ r.filetab = d.filetab /\ r.panic = d.panic /\ r.v = d.v /\ r.ldrlen = d.ldrlen /\ r.given = d.given
        /\ r.loaded = d.loaded /\ \A b \in Buffers : b # "UFSD" => r.at[b] = d.at[b]
    <3>1. IsMachine(d) /\ Fits(d)
      BY <2>5 DEF Good
    <3>2. Notes(d, "EXT3HI", r)
      BY <1>6, <2>1, <3>1, NotingIs
    <3> QED BY <3>2 DEF Notes
  <2>7. CASE r.panic
    BY <1>1, <1>2, <2>6, <2>7, EndStep
  <2>8. CASE ~ r.panic
    <3>1. /\ d.me = "low" /\ d.micro = h.micro /\ d.filetab /\ d.ldrlen = h.ldrlen /\ d.given = h.given /\ d.loaded = h.loaded
          /\ d.v["low"].scratch = h.v["low"].scratch /\ d.v["low"].stage0 = h.v["low"].stage0
          /\ d.v["low"].use_term = h.v["low"].use_term
      BY <1>5, <2>3, <2>4, <2>5 DEF Keeps, Quiet, Sides
    <3>2. Low(r) /\ ~ Of(r).use_term /\ DOMAIN r.loaded = Loads /\ r.micro /\ r.filetab /\ r.me = "low"
      BY <1>5, <1>7, <2>6, <3>1 DEF Low, Of
    <3>3. Spare(r) /\ Up(r)
      BY <1>6, <2>5, <2>6, <2>8 DEF Spare, Up, Live, Placed
    <3>4. Micro(r)
      BY <2>6, <3>2, <3>3 DEF Micro
    <3>5. pc' = "place"
      BY <1>1, <2>8
    <3>6. Micro(m)'
      BY <1>1, <3>4 DEF Micro
    <3>7. Starting'
      BY <1>1, <3>2, <3>5, <3>6 DEF Starting
    <3>8. Machine'
      BY <1>1, <1>2, <2>6, <2>8, <3>5 DEF Machine, Places
    <3> QED BY <1>1, <1>2, <3>5, <3>7, <3>8 DEF Inv, Configured, Going, TableFits, Later
  <2> QED BY <2>7, <2>8
<1>8. CASE ~ (h.filetab /\ conf.microfsd = 1)
  <2>1. r = Noting(h, "EXT_BUF")
    BY <1>3, <1>8 DEF Own, Noting
  <2>2. /\ IsMachine(r) /\ Fits(r) /\ r.saved = h.cur /\ Of(r) = Of(h) /\ r.me = h.me
        /\ r.micro = h.micro /\ r.filetab = h.filetab /\ r.panic = h.panic /\ r.v = h.v /\ r.ldrlen = h.ldrlen /\ r.given = h.given
        /\ r.loaded = h.loaded /\ \A b \in Buffers : b # "UFSD" => r.at[b] = h.at[b]
    <3>1. Notes(h, "EXT_BUF", r)
      BY <1>4, <1>6, <2>1, NotingIs
    <3> QED BY <3>1 DEF Notes
  <2>3. ~ r.panic /\ pc' = "place"
    BY <1>1, <1>4, <2>2
  <2>4. Low(r) /\ ~ Of(r).use_term /\ DOMAIN r.loaded = Loads /\ r.me = "low"
    BY <1>5, <2>2 DEF Low
  <2>5. r.filetab => Micro(m)'
    BY <1>1, <1>5, <1>8, <2>2, <2>4 DEF Micro
  <2>6. ~ r.filetab => Early(r) /\ Live(r, "EXT_BUF")
    BY <1>4, <1>5, <1>6, <2>2, <2>4 DEF Early, Live, Placed
  <2>7. Starting'
    BY <1>1, <2>3, <2>5, <2>6 DEF Starting
  <2>8. Machine'
    BY <1>1, <1>2, <2>2, <2>3 DEF Machine, Places
  <2> QED BY <1>1, <1>2, <2>3, <2>7, <2>8 DEF Inv, Configured, Going, TableFits, Later
<1> QED BY <1>7, <1>8

\* Whatever has been started, what runs from here on can call what it has.
LEMMA MoveDriverStep == ASSUME Inv, MoveDriver PROVE Inv'
<1> DEFINE h == Fresh
           r == IF ~ m.filetab THEN Place(h) ELSE IF conf.microfsd = 1 THEN [h EXCEPT !.filetab = FALSE] ELSE h
<1>1. pc = "place" /\ conf' = conf /\ requests' = requests /\ m' = r /\ pc' = IF r.panic THEN "panic" ELSE "terminal"
  BY DEF MoveDriver, Goes
<1>2. /\ IsMachine(m) /\ ~ m.panic /\ IsConfiguration(conf) /\ conf.default + 1 \in DOMAIN conf.term_list /\ requests \in 0..MaxRequests
      /\ ~ m.filetab => Live(m, "EXT_BUF") /\ Early(m)
      /\ m.filetab => Micro(m)
  BY <1>1 DEF Inv, Machine, Starting, Configured
<1>3. h = Fresh
  OBVIOUS
<1> HIDE DEF h
<1>4. /\ IsMachine(h) /\ Fits(h) /\ ~ h.panic /\ h.filetab = m.filetab /\ DOMAIN h = Fields
      /\ ~ h.filetab => Live(h, "EXT_BUF") /\ Early(h)
      /\ h.filetab => Micro(h)
  BY <1>2, <1>3, FreshIs DEF IsMachine
<1>5. /\ IsMachine(r) /\ Fits(r)
      /\ ~ r.panic => Running(r)
  <2>1. CASE ~ m.filetab
    <3>1. /\ h.me = "low" /\ ~ h.micro /\ Of(h).fs = "EXT_BUF" /\ ~ Of(h).use_term /\ DOMAIN h.loaded = Loads /\ Low(h)
          /\ h.at["EXT_BUF"].code = BootDriver /\ h.saved = BootDevice /\ ~ h.filetab
      BY <1>4, <2>1 DEF Early
    <3>2. r = Place(h)
      BY <2>1
    <3> HIDE DEF r
    <3>3. /\ IsMachine(r) /\ Fits(r) /\ r.me = h.me /\ r.micro = h.micro /\ r.filetab = h.filetab
          /\ ~ r.panic => /\ Ready(r) /\ Native(r) /\ r.loaded = h.loaded /\ r.given = h.given /\ r.ldrlen = h.ldrlen
                          /\ \A c \in Sides : r.v[c].scratch = h.v[c].scratch /\ r.v[c].stage0 = h.v[c].stage0
      BY <1>4, <3>1, <3>2, PlaceIs
    <3> QED BY <3>1, <3>3 DEF Running, Low, Sides
  <2>2. CASE m.filetab /\ conf.microfsd = 1
    <3>1. r = [h EXCEPT !.filetab = FALSE]
      BY <2>2
    <3> HIDE DEF r
    <3>2. DOMAIN r = Fields /\ r.filetab = FALSE /\ \A x \in Fields : x # "filetab" => r[x] = h[x]
      BY <1>4, <3>1 DEF Fields
    <3>3. /\ r.me = h.me /\ r.micro = h.micro /\ r.at = h.at /\ r.v = h.v /\ r.panic = h.panic /\ r.called = h.called /\ r.loaded = h.loaded
          /\ r.ldrlen = h.ldrlen /\ r.given = h.given /\ r.ok = h.ok /\ r.mounted = h.mounted
      BY <3>2 DEF Fields
    <3>4. IsMachine(r)
      BY <1>4, <3>2, <3>3 DEF IsMachine
    <3>5. Fits(r)
      BY <1>4, <3>3, SameFits
    <3>6. Good(r) /\ Up(r) /\ Spare(r) /\ Low(r) /\ r.micro /\ DOMAIN r.loaded = Loads /\ r.me = "low"
      BY <1>4, <2>2, <3>3, <3>4, <3>5 DEF Micro, Good, Up, Spare, Low, Live, Placed, Of
    <3> QED BY <3>2, <3>4, <3>5, <3>6 DEF Running, Ready
  <2>3. CASE m.filetab /\ conf.microfsd # 1
    <3>1. r = h
      BY <2>3
    <3> HIDE DEF r
    <3> QED BY <1>4, <2>3, <3>1 DEF Running, Ready, Good, Micro
  <2> QED BY <2>1, <2>2, <2>3
<1> HIDE DEF r
<1>6. CASE r.panic
  BY <1>1, <1>2, <1>5, <1>6, EndStep
<1>7. CASE ~ r.panic
  BY <1>1, <1>2, <1>5, <1>7, LaterStep DEF Later
<1> QED BY <1>6, <1>7
LEMMA LaterFresh ==
  ASSUME Inv, pc \in Later, NEW h, h = Fresh
  PROVE  /\ Running(h) /\ IsMachine(h) /\ Fits(h) /\ DOMAIN h = Fields /\ ~ h.panic /\ IsConfiguration(conf) /\ conf.default + 1 \in DOMAIN conf.term_list
         /\ requests \in 0..MaxRequests /\ h.me = m.me /\ h.micro = m.micro /\ h.v = m.v /\ h.loaded = m.loaded /\ h.given = m.given
         /\ pc \in {"table", "loader", "leave"} => h.me = "low"
         /\ pc \in {"os2table", "os2"} => h.me = "high"
<1>1. /\ Running(m) /\ IsMachine(m) /\ ~ m.panic /\ IsConfiguration(conf) /\ conf.default + 1 \in DOMAIN conf.term_list
      /\ requests \in 0..MaxRequests
      /\ pc \in {"table", "loader", "leave"} => m.me = "low"
      /\ pc \in {"os2table", "os2"} => m.me = "high"
  BY DEF Inv, Machine, Configured, Going, Later
<1>2. /\ IsMachine(h) /\ Fits(h) /\ Of(h) = Of(m) /\ h.me = m.me /\ h.v = m.v /\ h.micro = m.micro
      /\ h.panic = m.panic /\ h.loaded = m.loaded /\ h.given = m.given /\ (Running(m) => Running(h))
  BY <1>1, FreshIs
<1> QED BY <1>1, <1>2 DEF IsMachine

LEMMA TermStep == ASSUME Inv, init_term PROVE Inv'
<1> DEFINE h == Fresh
           u == u_termctl(h, conf.default)
           r == WithTerm(u)
<1>1. /\ pc = "terminal" /\ conf' = conf /\ requests' = requests /\ m' = r
      /\ pc' = IF r.panic THEN "panic" ELSE IF m.me = "low" THEN "table" ELSE "os2table"
  BY DEF init_term, Goes
<1>2. h = Fresh
  OBVIOUS
<1> HIDE DEF h
<1>3. /\ Running(h) /\ IsConfiguration(conf) /\ conf.default + 1 \in DOMAIN conf.term_list /\ requests \in 0..MaxRequests
      /\ h.me = m.me /\ h.me \in Sides
  BY <1>1, <1>2, LaterFresh DEF Later, IsMachine
<1>4. Still(h, u) /\ u.loaded = h.loaded /\ (~ u.panic => Ready(u) /\ Live(u, "TERM") /\ (Native(h) => Native(u)))
  BY <1>3, TermIs DEF Running
<1> HIDE DEF u
<1>5. CASE u.panic
  <2>1. r = u
    BY <1>5 DEF WithTerm
  <2> HIDE DEF r
  <2> QED BY <1>1, <1>3, <1>4, <1>5, <2>1, EndStep DEF Still
<1>6. CASE ~ u.panic
  <2>1. r = [u EXCEPT !.v[u.me].use_term = TRUE]
    BY <1>6 DEF WithTerm
  <2> HIDE DEF r
  <2>2. Running(u)
    BY <1>3, <1>4, <1>6, RunningStill DEF Running
  <2>3. Running(r) /\ r.me = h.me /\ ~ r.panic
    BY <1>4, <1>6, <2>1, <2>2, TermOnIs DEF Still
  <2>4. pc' = IF r.me = "low" THEN "table" ELSE "os2table"
    BY <1>1, <1>3, <2>3
  <2> QED BY <1>1, <1>3, <2>3, <2>4, LaterStep DEF Later, Sides
<1> QED BY <1>5, <1>6

LEMMA TableStep == ASSUME Inv, LoaderTable PROVE Inv'
<1> DEFINE h == Fresh
           k == Read(h, 0)
           r == Say(k)
<1>1. /\ pc = "table" /\ conf' = conf /\ requests' = requests /\ m' = r
      /\ pc' = IF r.panic THEN "panic" ELSE IF conf.multiboot = 1 THEN "loader" ELSE "leave"
  BY DEF LoaderTable, Goes
<1>2. h = Fresh
  OBVIOUS
<1> HIDE DEF h
<1>3. /\ Running(h) /\ IsConfiguration(conf) /\ conf.default + 1 \in DOMAIN conf.term_list /\ requests \in 0..MaxRequests
      /\ h.me = "low"
  BY <1>1, <1>2, LaterFresh DEF Later
<1>4. /\ Still(h, k) /\ Ready(k) /\ (Native(h) => Native(k))
      /\ ~ k.panic => DOMAIN k.loaded = Loads
  <2>1. k = Read(h, 0)
    OBVIOUS
  <2> HIDE DEF k
  <2> QED BY <1>3, <2>1, LoadedIs DEF Running
<1> HIDE DEF k
<1>5. Same(k, r) /\ Fits(r)
  BY <1>4, SayIs DEF Ready
<1> HIDE DEF r
<1>6. Ready(r) /\ Keeps(k, r) /\ (Native(k) => Native(r)) /\ r.panic = k.panic
  BY <1>4, <1>5, QuietReady DEF Same, Quiet
<1>7. CASE r.panic
  BY <1>1, <1>3, <1>6, <1>7, EndStep DEF Ready, Good
<1>8. CASE ~ r.panic
  <2>1. Still(h, r) /\ r.loaded = k.loaded
    BY <1>4, <1>5, <1>6, KeepsStill, StillTrans
  <2>2. Running(r) /\ r.me = "low"
    BY <1>3, <1>4, <1>6, <1>8, <2>1, RunningStill DEF Still
  <2> QED BY <1>1, <1>3, <1>8, <2>2, LaterStep DEF Later
<1> QED BY <1>7, <1>8

\* The table goes on to tell where os2ldr is when only files are opened.
LEMMA StillFits ==
  ASSUME Inv, pc = "os2", NEW r, r.v["high"].scratch = m.v["high"].scratch, r.me = m.me, r.loaded = m.loaded, r.given = m.given,
         m' = r, UNCHANGED <<conf, ft>>
  PROVE  TableFits'
<1>1. m.me = "high"
  BY DEF Inv, Going
<1> QED BY <1>1 DEF Inv, TableFits, Of

LEMMA OpenStep == ASSUME Inv, u_open PROVE Inv'
<1> DEFINE h == Fresh
<1>1. pc \in {"loader", "os2"} /\ conf' = conf /\ ft' = ft /\ requests < MaxRequests /\ requests' = requests + 1
  BY DEF u_open, Asked
<1>2. PICK f \in Requests : LET o == freeldr_open(h, f) IN Goes(pc, pc, IF o.ok THEN freeldr_read(o) ELSE o)
  BY DEF u_open
<1> DEFINE o == freeldr_open(h, f)
           r == IF o.ok THEN freeldr_read(o) ELSE o
<1>3. m' = r /\ pc' = IF r.panic THEN "panic" ELSE pc
  BY <1>2 DEF Goes
<1>4. h = Fresh
  OBVIOUS
<1> HIDE DEF h
<1>5. /\ Running(h) /\ IsConfiguration(conf) /\ conf.default + 1 \in DOMAIN conf.term_list /\ requests \in 0..MaxRequests
      /\ h.me = m.me /\ h.v = m.v /\ h.loaded = m.loaded /\ h.given = m.given
      /\ (pc = "loader" => h.me = "low") /\ (pc = "os2" => h.me = "high")
  BY <1>1, <1>4, LaterFresh DEF Later
<1>6. Keeps(h, o) /\ Ready(o) /\ (Native(h) => Native(o))
  BY <1>5, OpenIs, ConstantsAssumption DEF Running
<1> HIDE DEF o
<1>7. Keeps(h, r) /\ Ready(r) /\ (Native(h) => Native(r))
  <2>1. CASE o.ok
    <3>1. r = freeldr_read(o)
      BY <2>1
    <3> HIDE DEF r
    <3> QED BY <1>6, <3>1, ReadReady, KeepsTrans
  <2>2. CASE ~ o.ok
    BY <1>6, <2>2
  <2> QED BY <2>1, <2>2
<1> HIDE DEF r
<1>8. requests' \in 0..MaxRequests
  BY <1>1, <1>5, ConstantsAssumption
<1>9. Still(h, r) /\ r.loaded = h.loaded
  BY <1>7, KeepsStill DEF Ready, Good
<1>10. CASE r.panic
  BY <1>1, <1>3, <1>5, <1>7, <1>8, <1>10, EndStep DEF Ready, Good
<1>11. CASE ~ r.panic
  <2>1. Running(r) /\ r.me = h.me
    BY <1>5, <1>7, <1>9, RunningStill DEF Running, Still
  <2>2. pc = "os2" => TableFits'
    <3>1. r.v["high"].scratch = m.v["high"].scratch /\ r.given = m.given /\ r.loaded = m.loaded /\ r.me = m.me
      BY <1>5, <1>9 DEF Still, Sides
    <3> QED BY <1>1, <1>3, <3>1, StillFits
  <2> QED BY <1>1, <1>3, <1>5, <1>8, <1>11, <2>1, <2>2, LaterStep DEF Later
<1> QED BY <1>10, <1>11

LEMMA TermCallStep == ASSUME Inv, u_term PROVE Inv'
<1> DEFINE h == Fresh
<1>1. conf' = conf /\ requests < MaxRequests /\ requests' = requests + 1
  BY DEF u_term, Asked
<1>2. PICK n \in Serials : n < Len(conf.term_list) /\ Goes("loader", "loader", u_termctl(h, n))
  BY DEF u_term
<1> DEFINE r == u_termctl(h, n)
<1>3. pc = "loader" /\ m' = r /\ pc' = IF r.panic THEN "panic" ELSE "loader"
  BY <1>2 DEF Goes
<1>4. h = Fresh
  OBVIOUS
<1> HIDE DEF h
<1>5. /\ Running(h) /\ IsConfiguration(conf) /\ conf.default + 1 \in DOMAIN conf.term_list /\ requests \in 0..MaxRequests /\ h.me = "low"
  BY <1>3, <1>4, LaterFresh DEF Later
<1>6. n + 1 \in DOMAIN conf.term_list
  <2>1. n \in Nat
    BY ConstantsAssumption
  <2>2. Len(conf.term_list) \in Nat /\ DOMAIN conf.term_list = 1..Len(conf.term_list)
    BY <1>5 DEF IsConfiguration
  <2>3. n < Len(conf.term_list)
    BY <1>2
  <2> QED BY <2>1, <2>2, <2>3
<1>7. Still(h, r) /\ r.loaded = h.loaded /\ (~ r.panic => Ready(r) /\ (Native(h) => Native(r)))
  BY <1>5, <1>6, TermIs DEF Running
<1> HIDE DEF r
<1>8. requests' \in 0..MaxRequests
  BY <1>1, <1>5, ConstantsAssumption
<1>9. CASE r.panic
  BY <1>1, <1>3, <1>5, <1>7, <1>8, <1>9, EndStep DEF Still
<1>10. CASE ~ r.panic
  <2>1. Running(r) /\ r.me = "low"
    BY <1>5, <1>7, <1>10, RunningStill DEF Running, Still
  <2> QED BY <1>1, <1>3, <1>5, <1>8, <1>10, <2>1, LaterStep DEF Later
<1> QED BY <1>9, <1>10
\* What the loader may tell the pre-loader.
LEMMA ParmStep == ASSUME Inv, u_parm PROVE Inv'
<1> DEFINE h == Fresh
<1>1. conf' = conf /\ requests < MaxRequests /\ requests' = requests + 1 /\ pc = "loader"
  BY DEF u_parm, Asked, Goes
<1>2. h = Fresh
  OBVIOUS
<1>3. \/ \E prefix \in PrefixesGiven : m' = [h EXCEPT !.prefix = prefix]
      \/ \E n \in LdrLens : m' = [h EXCEPT !.ldrlen = n, !.given = TRUE]
      \/ m' = [h EXCEPT !.v[m.me].tag = None]
  BY DEF u_parm, Goes
<1>4. pc' = IF (m').panic THEN "panic" ELSE "loader"
  BY DEF u_parm, Goes
<1> HIDE DEF h
<1>5. /\ Running(h) /\ DOMAIN h = Fields /\ IsConfiguration(conf) /\ conf.default + 1 \in DOMAIN conf.term_list /\ requests \in 0..MaxRequests
      /\ h.me = "low" /\ h.me = m.me /\ ~ h.panic
  BY <1>1, <1>2, LaterFresh DEF Later
<1>6. IsMachine(h) /\ Fits(h) /\ Ready(h) /\ Low(h) /\ DOMAIN h.v = Sides /\ \A c \in Sides : DOMAIN h.v[c] = SideFields
  BY <1>5 DEF Running, Ready, Good, IsMachine
<1> DEFINE r == m'
<1>7. /\ DOMAIN r = Fields /\ r.me = h.me /\ r.micro = h.micro /\ r.filetab = h.filetab /\ r.panic = h.panic /\ r.ok = h.ok /\ r.mounted = h.mounted
      /\ r.at = h.at /\ r.called = h.called /\ r.saved = h.saved /\ r.loaded = h.loaded
      /\ DOMAIN r.v = Sides
      /\ \A c \in Sides : /\ DOMAIN r.v[c] = SideFields /\ r.v[c].use_term = h.v[c].use_term /\ r.v[c].fs = h.v[c].fs
                          /\ r.v[c].scratch = h.v[c].scratch /\ r.v[c].stage0 = h.v[c].stage0
      /\ r.ldrlen \in Nat /\ (r.given \/ r.ldrlen = 0)
  <2>1. CASE \E prefix \in PrefixesGiven : r = [h EXCEPT !.prefix = prefix]
    <3>1. DOMAIN r = Fields /\ \A x \in Fields : x # "prefix" => r[x] = h[x]
      BY <1>5, <2>1 DEF Fields
    <3> HIDE DEF r
    <3> QED BY <1>6, <3>1 DEF Low, Fields
  <2>2. CASE \E n \in LdrLens : r = [h EXCEPT !.ldrlen = n, !.given = TRUE]
    <3>1. /\ DOMAIN r = Fields /\ r.given = TRUE /\ r.ldrlen \in LdrLens
          /\ \A x \in Fields : x \notin {"ldrlen", "given"} => r[x] = h[x]
      BY <1>5, <2>2 DEF Fields
    <3>2. r.ldrlen \in Nat
      BY <3>1, ConstantsAssumption
    <3> HIDE DEF r
    <3> QED BY <1>6, <3>1, <3>2 DEF Fields
  <2>3. CASE r = [h EXCEPT !.v[m.me].tag = None]
    <3>1. DOMAIN r = Fields /\ r.v = [h.v EXCEPT !["low"].tag = None] /\ \A x \in Fields : x # "v" => r[x] = h[x]
      BY <1>5, <2>3 DEF Fields
    <3> HIDE DEF r
    <3>2. r.v["low"] = [h.v["low"] EXCEPT !.tag = None] /\ DOMAIN r.v = Sides /\ r.v["high"] = h.v["high"]
      BY <1>6, <3>1 DEF Sides
    <3>3. DOMAIN r.v["low"] = SideFields /\ \A x \in SideFields : x # "tag" => r.v["low"][x] = h.v["low"][x]
      BY <1>6, <3>2 DEF SideFields, Sides
    <3>4. \A c \in Sides : /\ DOMAIN r.v[c] = SideFields /\ r.v[c].use_term = h.v[c].use_term /\ r.v[c].fs = h.v[c].fs
                           /\ r.v[c].scratch = h.v[c].scratch /\ r.v[c].stage0 = h.v[c].stage0
      BY <1>6, <3>2, <3>3 DEF SideFields, Sides
    <3> QED BY <1>6, <3>1, <3>2, <3>4 DEF Low, Fields
  <2> QED BY <1>3, <2>1, <2>2, <2>3
<1> HIDE DEF r
<1>8. IsMachine(r) /\ Fits(r)
  <2>1. IsMachine(r)
    BY <1>6, <1>7 DEF IsMachine
  <2> QED BY <1>6, <1>7, <2>1, SameFits
<1>9. Running(r)
  <2>1. h.me \in Sides /\ Of(r).use_term = Of(h).use_term /\ Of(r).fs = Of(h).fs
    BY <1>5, <1>7 DEF Of, Sides
  <2>2. Ready(r)
    BY <1>6, <1>7, <1>8, <2>1 DEF Ready, Good, Up, Spare, Live, Placed
  <2>3. Native(h) => Native(r)
    BY <1>7 DEF Native, Rooted, Reach
  <2>4. Low(r)
    BY <1>6, <1>7 DEF Low, Sides
  <2> QED BY <1>5, <1>7, <2>2, <2>3, <2>4 DEF Running
<1>10. requests' \in 0..MaxRequests
  BY <1>1, <1>5, ConstantsAssumption
<1>11. pc' = "loader" /\ r.me = "low" /\ ~ r.panic
  BY <1>4, <1>5, <1>7 DEF r
<1> QED BY <1>1, <1>5, <1>9, <1>10, <1>11, LaterStep DEF Later, r

LEMMA ReturnStep == ASSUME Inv, LoaderReturns PROVE Inv'
<1> DEFINE h == Fresh
<1>1. pc = "loader" /\ conf' = conf /\ requests' = requests /\ m' = h /\ pc' = IF h.panic THEN "panic" ELSE "leave"
  BY DEF LoaderReturns, Goes
<1>2. h = Fresh
  OBVIOUS
<1> HIDE DEF h
<1>3. /\ Running(h) /\ IsConfiguration(conf) /\ conf.default + 1 \in DOMAIN conf.term_list /\ requests \in 0..MaxRequests
      /\ h.me = "low" /\ ~ h.panic
  BY <1>1, <1>2, LaterFresh DEF Later
<1> QED BY <1>1, <1>3, LaterStep DEF Later

LEMMA Leave16Step == ASSUME Inv, Leave16 PROVE Inv'
<1> DEFINE h == Fresh
           k == Read(h, 2)
           r == [k EXCEPT !.filetab = TRUE]
<1>1. pc = "leave" /\ conf' = conf /\ requests' = requests /\ m' = r /\ pc' = IF r.panic THEN "panic" ELSE "os2micro"
  BY DEF Leave16, Goes
<1>2. h = Fresh /\ r = [k EXCEPT !.filetab = TRUE]
  OBVIOUS
<1> HIDE DEF h, r
<1>3. /\ Running(h) /\ IsConfiguration(conf) /\ conf.default + 1 \in DOMAIN conf.term_list /\ requests \in 0..MaxRequests
  BY <1>1, <1>2, LaterFresh DEF Later
<1>4. IsMachine(k) /\ Fits(k)
  <2>1. k = Read(h, 2)
    OBVIOUS
  <2> HIDE DEF k
  <2> QED BY <1>3, <2>1, LoadedIs DEF Running, Still
<1> HIDE DEF k
<1>5. DOMAIN r = Fields /\ r.filetab = TRUE /\ \A x \in Fields : x # "filetab" => r[x] = k[x]
  BY <1>2, <1>4 DEF IsMachine, Fields
<1>6. IsMachine(r) /\ r.called = k.called
  BY <1>4, <1>5 DEF IsMachine, Fields
<1>7. Fits(r) /\ r.panic \in BOOLEAN
  BY <1>4, <1>6, SameFits DEF IsMachine
<1> QED BY <1>1, <1>3, <1>6, <1>7, EndStep
LEMMA LoaderNameIs == ASSUME IsConfiguration(conf) PROVE LoaderName = None \/ IsName(LoaderName)
<1>1. \A d \in {Preldr, <<>>} : \A n : IsName(Name(d, n))
  BY DEF IsName, Name, Preldr
<1>2. conf.loader.name = None \/ IsName(conf.loader.name)
  BY DEF IsConfiguration
<1> QED BY <1>1, <1>2 DEF LoaderName

LEMMA SetAddrStep == ASSUME Inv, set_addr PROVE Inv'
<1> DEFINE h == Fresh
           f == IF conf.extloader.name # None THEN conf.extloader.name ELSE LoaderName
           o == freeldr_open(h, f)
           shift == LdrBase(o) - (PREFERRED_BASE + LowSize)
           k == Moved(Say([o EXCEPT !.ldrlen = Pages(o)]), shift)
           r == Arrived(k, shift)
<1>1. /\ pc = "leave" /\ ~ m.micro /\ conf' = [conf EXCEPT !.loader.name = LoaderName] /\ requests' = requests
      /\ IF o.panic THEN Goes("leave", "panic", o)
         ELSE IF (o.ldrlen = 0 /\ o.filemax = None) \/ Overwrites(LdrBase(o)) THEN pc' = "lost" /\ m' = o
         ELSE Goes("leave", "terminal", IF k.panic THEN k ELSE r)
  BY DEF set_addr
<1>2. h = Fresh
  OBVIOUS
<1> HIDE DEF h
<1>3. /\ Running(h) /\ IsConfiguration(conf) /\ conf.default + 1 \in DOMAIN conf.term_list /\ requests \in 0..MaxRequests
      /\ h.me = "low" /\ ~ h.micro
  BY <1>1, <1>2, LaterFresh DEF Later
<1>4. f = None \/ IsName(f)
  BY <1>3, LoaderNameIs DEF IsConfiguration
<1>5. /\ IsConfiguration(conf') /\ (conf').default + 1 \in DOMAIN (conf').term_list
      /\ conf'.fsys_list = conf.fsys_list /\ conf'.ignorecase = conf.ignorecase /\ conf'.extloader = conf.extloader
  <2> DEFINE c == conf'
             n == LoaderName
  <2>1. n = None \/ IsName(n)
    BY <1>3, LoaderNameIs
  <2>2. c = [conf EXCEPT !.loader.name = n]
    BY <1>1
  <2> HIDE DEF c, n
  <2>3. DOMAIN conf = DOMAIN Defaults /\ DOMAIN conf.loader = {"name", "base"}
    BY <1>3 DEF IsConfiguration
  <2>4. "loader" \in DOMAIN Defaults /\ DOMAIN Defaults = {"driveletter", "multiboot", "root", "microfsd", "ignorecase", "fsys_list",
          "term_list", "default", "section", "loader", "extloader", "mini"}
    BY DEF Defaults
  <2>5. DOMAIN c = DOMAIN Defaults /\ c.loader = [conf.loader EXCEPT !.name = n]
    BY <2>2, <2>3, <2>4
  <2>6. \A x \in DOMAIN Defaults : x # "loader" => c[x] = conf[x]
    BY <2>2, <2>3, <2>4
  <2>7. DOMAIN c.loader = {"name", "base"} /\ c.loader.name = n
    BY <2>3, <2>5
  <2>8. /\ c.fsys_list = conf.fsys_list /\ c.ignorecase = conf.ignorecase /\ c.extloader = conf.extloader /\ c.mini = conf.mini
        /\ c.default = conf.default /\ c.term_list = conf.term_list
    BY <2>4, <2>6
  <2>9. IsConfiguration(c)
    BY <1>3, <2>1, <2>5, <2>7, <2>8 DEF IsConfiguration
  <2> QED BY <1>3, <2>8, <2>9 DEF c
<1> HIDE DEF f
<1>6. IsMachine(o) /\ Fits(o) /\ o.panic \in BOOLEAN
  BY <1>3, <1>4, OpenIs DEF Running, Ready, Good, IsMachine
<1>7. CASE o.panic
  <2>1. m' = o /\ pc' = "panic"
    BY <1>1, <1>7 DEF Goes
  <2> HIDE DEF o
  <2> QED BY <1>1, <1>3, <1>5, <1>6, <1>7, <2>1, EndStep
<1>8. CASE ~ o.panic /\ ((o.ldrlen = 0 /\ o.filemax = None) \/ Overwrites(LdrBase(o)))
  <2>1. m' = o /\ pc' = "lost"
    BY <1>1, <1>8
  <2> HIDE DEF o
  <2> QED BY <1>1, <1>3, <1>5, <1>6, <1>8, <2>1, EndStep
<1>9. CASE ~ o.panic /\ ~ ((o.ldrlen = 0 /\ o.filemax = None) \/ Overwrites(LdrBase(o)))
  <2>1. Goes("leave", "terminal", IF k.panic THEN k ELSE r)
    BY <1>1, <1>9
  <2>2. IsMachine(k) /\ Fits(k) /\ (~ k.panic => Running(r) /\ r.me = "high" /\ ~ r.panic)
    <3>1. /\ o = freeldr_open(h, f) /\ ~ o.panic /\ ~ (o.ldrlen = 0 /\ o.filemax = None)
          /\ shift = LdrBase(o) - (PREFERRED_BASE + LowSize)
          /\ k = Moved(Say(Roomy(o)), shift) /\ r = Arrived(k, shift)
      BY <1>9 DEF Roomy
    <3>2. f = IF conf.extloader.name # None THEN conf.extloader.name ELSE LoaderName
      BY DEF f
    <3> HIDE DEF o, shift, k, r
    <3> QED BY <1>3, <1>4, <3>1, <3>2, MoveIs
  <2> HIDE DEF o, shift, k, r
  <2>3. CASE k.panic
    <3>1. m' = k /\ pc' = "panic"
      BY <2>1, <2>3 DEF Goes
    <3> QED BY <1>1, <1>3, <1>5, <2>2, <2>3, <3>1, EndStep
  <2>4. CASE ~ k.panic
    <3>1. m' = r /\ pc' = "terminal"
      BY <2>1, <2>2, <2>4 DEF Goes
    <3> QED BY <1>1, <1>3, <1>5, <2>2, <2>4, <3>1, LaterStep DEF Later
  <2> QED BY <2>3, <2>4
<1> QED BY <1>7, <1>8, <1>9

\* The table is made after os2ldr has been loaded, by the copy above it.
LEMMA Os2Step == ASSUME Inv, Os2Table PROVE Inv'
<1> DEFINE h == Fresh
           r == Read(h, 1)
<1>1. /\ pc = "os2table" /\ conf' = conf /\ requests' = requests /\ m' = r
      /\ pc' = (IF r.panic THEN "panic" ELSE "os2") /\ ft' = (IF r.panic THEN ft ELSE Table(r, 1))
  BY DEF Os2Table, Goes
<1>2. h = Fresh
  OBVIOUS
<1> HIDE DEF h
<1>3. /\ Running(h) /\ IsConfiguration(conf) /\ conf.default + 1 \in DOMAIN conf.term_list /\ requests \in 0..MaxRequests
      /\ h.me = "high"
  BY <1>1, <1>2, LaterFresh DEF Later
<1>4. Ready(h) /\ High(h) /\ Native(h) /\ DOMAIN h.loaded = Loads
  BY <1>3 DEF Running
<1>5. r = Read(h, 1)
  OBVIOUS
<1> HIDE DEF r
<1>6. /\ Still(h, r) /\ Ready(r) /\ Native(r)
      /\ ~ r.panic => /\ DOMAIN r.loaded = Loads /\ r.loaded["loader"].base = conf.extloader.base
                      /\ conf.mini.name # None => r.loaded["mini"].base = conf.mini.base
                      /\ conf.extloader.name # None =>
                           /\ r.loaded["loader"].file.name = conf.extloader.name.name /\ r.loaded["loader"].len \in Nat
                           /\ r.loaded["loader"].len = LdrLength(h)
  BY <1>3, <1>4, <1>5, LoadedIs DEF LdrLength
<1>7. CASE r.panic
  BY <1>1, <1>3, <1>6, <1>7, EndStep DEF Still
<1>8. CASE ~ r.panic
  <2>1. Running(r) /\ r.me = "high"
    BY <1>3, <1>6, <1>8, RunningStill DEF Still
  <2>2. TableFits'
    <3> DEFINE t == ft'
               q == conf.extloader.name
               L == LdrLength(h)
    <3>1. /\ t.ldrseg = conf.extloader.base /\ t.ldrlen = r.loaded["loader"].len
          /\ (t.minifsd <=> conf.mini.name # None)
          /\ t.mfsseg = conf.mini.base /\ (conf.mini.name # None => t.mfslen = r.loaded["mini"].len)
          /\ t.museg = Of(r).scratch /\ t.mulen = LowSize /\ t.entries = Of(r).stage0
      <4>1. t = Table(r, 1)
        BY <1>1, <1>8
      <4> HIDE DEF t
      <4>2. /\ t.ldrseg = conf.extloader.base /\ t.ldrlen = r.loaded["loader"].len
            /\ t.mfsseg = conf.mini.base /\ (conf.mini.name # None => t.mfslen = r.loaded["mini"].len)
            /\ t.museg = Of(r).scratch /\ t.mulen = LowSize /\ t.entries = Of(r).stage0
        BY <4>1 DEF Table
      <4>3. t.minifsd = (conf.mini.name # None)
        BY <4>1, Zenon DEF Table
      <4> QED BY <4>2, <4>3
    <3> HIDE DEF t
    <3>2. /\ Of(r).scratch = h.v["high"].scratch /\ Of(r).stage0 = h.v["high"].stage0 /\ r.given = h.given
      BY <1>3, <1>6 DEF Still, Sides, Of
    <3>3. q # None =>
            /\ t.ldrseg = r.loaded["loader"].base /\ t.ldrlen = r.loaded["loader"].len
            /\ r.loaded["loader"].file.name = q.name
            /\ t.minifsd => t.mfsseg = r.loaded["mini"].base /\ t.mfslen = r.loaded["mini"].len
            /\ t.museg = Of(r).scratch /\ t.entries \in t.museg .. t.museg + t.mulen - 1
            /\ r.given \/ t.museg + t.mulen + Room(t.ldrlen) <= MemLower * 8
      <4> SUFFICES ASSUME q # None
                   PROVE  /\ t.ldrseg = r.loaded["loader"].base /\ t.ldrlen = r.loaded["loader"].len
                          /\ r.loaded["loader"].file.name = q.name
                          /\ t.minifsd => t.mfsseg = r.loaded["mini"].base /\ t.mfslen = r.loaded["mini"].len
                          /\ t.museg = Of(r).scratch /\ t.entries \in t.museg .. t.museg + t.mulen - 1
                          /\ r.given \/ t.museg + t.mulen + Room(t.ldrlen) <= MemLower * 8
        OBVIOUS
      <4>1. /\ t.museg \in Int /\ t.entries = t.museg + (STAGE0_BASE - PREFERRED_BASE)
            /\ h.given \/ (L \in Nat => t.museg + LowSize + Room(L) <= MemLower * 8)
        BY <1>4, <3>1, <3>2 DEF High
      <4>2. t.ldrlen = L /\ L \in Nat
        BY <1>6, <1>8, <3>1
      <4> HIDE DEF L
      <4>3. t.entries \in t.museg .. t.museg + t.mulen - 1
        BY <3>1, <4>1 DEF STAGE0_BASE, PREFERRED_BASE, LowSize
      <4>4. r.given \/ t.museg + t.mulen + Room(t.ldrlen) <= MemLower * 8
        BY <3>1, <3>2, <4>1, <4>2
      <4> QED BY <1>6, <1>8, <3>1, <4>3, <4>4
    <3>4. Of(m') = Of(r)
      BY <1>1
    <3> QED BY <1>1, <3>3, <3>4 DEF TableFits, t, Of
  <2> QED BY <1>1, <1>3, <1>8, <2>1, <2>2, LaterStep DEF Later
<1> QED BY <1>7, <1>8

-------------------------------------------------------------------------------

LEMMA NextInv == ASSUME Inv, [Next]_pvars PROVE Inv'
<1>1. CASE UNCHANGED pvars
  <2>1. /\ pc' = pc /\ conf' = conf /\ m' = m /\ ft' = ft /\ requests' = requests
    BY <1>1 DEF pvars
  <2>2. Machine' /\ Configured'
    BY <2>1 DEF Inv, Machine, Configured
  <2>3. Served' <=> Served
    BY <2>1 DEF Served
  <2>4. Micro(m)' <=> Micro(m)
    BY <2>1 DEF Micro
  <2>5. Early(m)' <=> Early(m)
    BY <2>1 DEF Early
  <2>6. Starting'
    BY <2>1, <2>3, <2>4, <2>5 DEF Inv, Starting
  <2>7. Running(m) => Running(m)'
    BY <2>1, RunningPrime
  <2>8. Going'
    BY <2>1, <2>7 DEF Inv, Going
  <2>9. TableFits'
    BY <2>1 DEF Inv, TableFits, Of
  <2> QED BY <2>2, <2>6, <2>8, <2>9 DEF Inv
<1> QED BY <1>1, BeginStep, ConfigureStep, BackupStep, MoveDriverStep, TermStep, TableStep, OpenStep, TermCallStep, ParmStep,
           ReturnStep, Leave16Step, SetAddrStep, Os2Step DEF Next

LEMMA InvAlways == Spec => []Inv
<1>1. Init => Inv
  BY InitInv
<1>2. Inv /\ [Next]_pvars => Inv'
  BY NextInv
<1> QED BY <1>1, <1>2, PTL DEF Spec

\* init() is always at one of its steps, the code in every buffer says what it
\* was relocated for, and the driver in use is in one of two buffers.
THEOREM StartTypeCorrect == Spec => []TypeOK
<1>1. Inv => TypeOK
  <2> SUFFICES ASSUME Inv PROVE TypeOK
    OBVIOUS
  <2>1. IsMachine(m) /\ pc \in Places /\ requests \in 0..MaxRequests /\ (m.panic <=> pc = "panic")
    BY DEF Inv, Machine
  <2>2. m.me \in Sides /\ m.panic \in BOOLEAN /\ m.at \in [Buffers -> Codes \cup {None}]
        /\ \A c \in Sides : m.v[c].fs \in {"EXT_BUF", "EXT3HI"}
    BY <2>1 DEF IsMachine
  <2>3. m.panic = (pc = "panic")
    BY <2>1, <2>2
  <2>4. \A b \in Buffers : m.at[b] # None => m.at[b].base \in Buffers /\ m.at[b].lip \in {"low", "high", None}
    <3> SUFFICES ASSUME NEW b \in Buffers, m.at[b] # None PROVE m.at[b].base \in Buffers /\ m.at[b].lip \in {"low", "high", None}
      OBVIOUS
    <3>1. m.at[b] \in Codes
      BY <2>2
    <3> QED BY <3>1 DEF Codes
  <2> QED BY <2>1, <2>2, <2>3, <2>4 DEF TypeOK, Sides, Places
<1> QED BY <1>1, InvAlways, PTL

\* Whatever preldr.ini says, whichever drivers understand which devices and
\* whatever is opened: a driver or a terminal that is called is in its buffer,
\* lies where it was relocated for and calls back the copy that runs.
THEOREM CodeFits == Spec => []CalledCodeFits
<1>1. Inv => CalledCodeFits
  BY DEF Inv, Machine, Fits, CalledCodeFits
<1> QED BY <1>1, InvAlways, PTL

\* The file table OS/2 is started with tells what has been loaded; the
\* pre-loader lies below the room that os2ldr needs, however long it is.
THEOREM TableTells == Spec => []TableIsTrue
<1>1. Inv => TableIsTrue
  BY DEF Inv, TableFits, TableIsTrue
<1> QED BY <1>1, InvAlways, PTL

===============================================================================
