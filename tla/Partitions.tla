------------------------------ MODULE Partitions -------------------------------
(***************************************************************************)
(* Finding a partition on a disk (loader/preldr/part.c): next_pc_slice(),  *)
(* next_bsd_partition() and next_partition() enumerate the partition       *)
(* tables and BSD labels, real_open_partition() stops at the partition     *)
(* asked for, and open_partition_hiddensecs() finds the number of the      *)
(* partition the machine was booted from by where it starts.               *)
(*                                                                         *)
(* A disk is what its tables say: the chain of extended partition tables   *)
(* is a list linked by sector numbers.  Numbers start at 0; None stands    *)
(* for the 0xFF of "no slice" and "no BSD partition".                      *)
(***************************************************************************)
EXTENDS Integers, Sequences, FiniteSets

CONSTANTS
  Disks,         \* [table : sector -> partition table, label : sector -> BSD label];
                 \* <<>> where a sector holds none
  PC_SLICE_MAX,  \* entries of a table
  Dests,         \* partitions asked for: [slice, bsd]
  Floppies,      \* those of them that are floppies
  ReadErrors,    \* TRUE: a sector may fail to be read
  MaxNumber,     \* bound of the slice numbers counted
  Sectors,       \* length of the whole disk
  None

Types == {"none", "ext", "bsd", "fat"}
Entry == [type : Types, start : Nat, len : Nat]

ASSUME ConstantsAssumption ==
  /\ PC_SLICE_MAX \in Nat /\ PC_SLICE_MAX >= 2
  /\ None \notin Nat
  /\ ReadErrors \in BOOLEAN
  /\ MaxNumber \in Nat /\ MaxNumber > PC_SLICE_MAX
  /\ Sectors \in Nat
  /\ \A d \in Disks :
       /\ \A s \in DOMAIN d.table : /\ d.table[s] \in Seq(Entry)
                                    /\ Len(d.table[s]) \in {0, PC_SLICE_MAX}
       /\ \A s \in DOMAIN d.label : d.label[s] \in Seq(Entry)
  /\ Floppies \subseteq Disks
  /\ \A p \in Dests : p \in [slice : Nat \cup {None}, bsd : Nat \cup {None}]

VARIABLES
  disk,        \* the disk (never changes)
  floppy,      \* is it a floppy (never changes)
  pc,          \* what comes next
  dest,        \* the partition asked for
  part,        \* current_partition: [slice, bsd]
  type,        \* current_slice: the slice's type
  start, len,  \* part_start, part_length
  offset,      \* sector of the table being walked
  entry,       \* the entry in it, -1 before the first
  ext_offset,  \* start of the extended partition, 0 before it is met
  label,       \* the BSD label in buf
  errnum,
  n            \* open_partition_hiddensecs()'s slice number

place == <<part, type, start, len>>
walk  == <<offset, entry, ext_offset, label>>
vars  == <<disk, floppy, pc, dest, place, walk, errnum, n>>

Whole == [slice |-> None, bsd |-> None]
Table(s) == IF s \in DOMAIN disk.table THEN disk.table[s] ELSE <<>>
Label(s) == IF s \in DOMAIN disk.label THEN disk.label[s] ELSE <<>>

\* Entry i, counted from 0, of table t.
Slice(t, i) == t[i + 1]

Init ==
  /\ disk \in Disks
  /\ floppy = (disk \in Floppies)
  /\ pc = "idle"
  /\ dest = Whole
  /\ part = Whole
  /\ type = "none"
  /\ start = 0 /\ len = 0
  /\ offset = 0 /\ entry = -1 /\ ext_offset = 0 /\ label = <<>>
  /\ errnum = "none"
  /\ n = None

Idle == pc \in {"idle", "opened", "failed", "found"}
Fail(e) == pc' = "failed" /\ errnum' = e

-------------------------------------------------------------------------------
(* What the tables say, without a walk. *)

MaxTables == Cardinality(DOMAIN disk.table)

FirstExtended(t) ==
  LET links == {i \in 0..PC_SLICE_MAX-1 : Slice(t, i).type = "ext"}
  IN  IF links = {} THEN None ELSE CHOOSE i \in links : \A j \in links : i <= j

\* The extended partition, if there is one; its tables are a chain from there.
Base == IF Table(0) = <<>> \/ FirstExtended(Table(0)) = None THEN 0
        ELSE Slice(Table(0), FirstExtended(Table(0))).start

ChainTable[k \in 1..MaxTables] ==
  IF k = 1 THEN Base
  ELSE LET before == ChainTable[k - 1]
       IN  IF before = 0 \/ Table(before) = <<>> \/ FirstExtended(Table(before)) = None THEN 0
           ELSE Base + Slice(Table(before), FirstExtended(Table(before))).start

Used(e) == e.type \notin {"none", "ext"}

\* The places of the logical partitions: table and entry.
Logical == {<<k, i>> \in (1..MaxTables) \X (0..PC_SLICE_MAX-1) :
              /\ ChainTable[k] # 0 /\ Table(ChainTable[k]) # <<>>
              /\ Used(Slice(Table(ChainTable[k]), i))}

Before(p, q) == p[1] < q[1] \/ (p[1] = q[1] /\ p[2] < q[2])

At(off, i, number) ==
  [part |-> [slice |-> number, bsd |-> None], type |-> Slice(Table(off), i).type,
   start |-> off + Slice(Table(off), i).start, len |-> Slice(Table(off), i).len]

Slices ==
  (IF Table(0) = <<>> THEN {}
   ELSE {At(0, i, i) : i \in {j \in 0..PC_SLICE_MAX-1 : Slice(Table(0), j).type # "none"}})
  \cup {At(ChainTable[p[1]], p[2],
           PC_SLICE_MAX + Cardinality({q \in Logical : Before(q, p)})) : p \in Logical}

Labelled == {s \in Slices : (floppy \/ s.type = "bsd") /\ s.len >= 2 /\ Label(s.start + 1) # <<>>}

InLabel(s, l) ==
  {[part |-> [slice |-> s, bsd |-> i], type |-> "bsd", start |-> l[i + 1].start,
    len |-> l[i + 1].len] : i \in {j \in 0..Len(l)-1 : l[j + 1].type # "none"}}

There ==
  Slices \cup UNION {InLabel(s.part.slice, Label(s.start + 1)) : s \in Labelled}
         \cup (IF floppy THEN InLabel(None, Label(1)) ELSE {})

-------------------------------------------------------------------------------
(* real_open_partition(0). *)

\* The locals of a call.
Locals == /\ offset' = 0 /\ entry' = -1 /\ ext_offset' = 0 /\ label' = <<>>

\* The caller's error number is clear.  A whole disk needs no table.
Open(d) ==
  /\ Idle
  /\ Locals
  /\ n' = None
  /\ dest' = d
  /\ part' = Whole
  /\ type' = "none"
  /\ start' = 0
  /\ len' = Sectors
  /\ errnum' = "none"
  /\ pc' = IF d = Whole THEN "opened" ELSE "next"

\* next_partition() looks for a BSD partition first, on a floppy and in a BSD slice.
InBSD == floppy \/ (part # Whole /\ type = "bsd")

\* The next partition of the label l that is in use, after b; None if none is.
NextUsed(l, b) ==
  LET used == {i \in 0..Len(l)-1 : i > b /\ l[i + 1].type # "none"}
  IN  IF used = {} THEN None ELSE CHOOSE i \in used : \A j \in used : i <= j

\* An error in the label that holds, or should hold, the partition asked for
\* ends the search; another one is ignored.
BSDFails(e) ==
  IF dest.bsd # None /\ dest.slice \in {None, part.slice}
  THEN Fail(e)
  ELSE pc' = "slice" /\ errnum' = "none"

TakeBSD(l, b) ==
  LET i == NextUsed(l, b)
  IN  IF i = None
      THEN BSDFails("no_part") /\ UNCHANGED place
      ELSE /\ start' = l[i + 1].start
           /\ len' = l[i + 1].len
           /\ part' = [part EXCEPT !.bsd = i]
           /\ type' = "bsd"
           /\ pc' = "check"
           /\ UNCHANGED errnum

\* next_bsd_partition(): the label is read once and stays in the buffer.
FirstBSD ==
  /\ pc = "next"
  /\ InBSD
  /\ part.bsd = None
  /\ \/ /\ len < 2 \/ Label(start + 1) = <<>>
        /\ BSDFails("bad_table")
        /\ UNCHANGED <<label, place>>
     \/ /\ len >= 2
        /\ Label(start + 1) # <<>>
        /\ label' = Label(start + 1)
        /\ TakeBSD(label', -1)
     \/ /\ ReadErrors
        /\ BSDFails("read")
        /\ UNCHANGED <<label, place>>
  /\ UNCHANGED <<dest, offset, entry, ext_offset, n>>

NextBSD ==
  /\ pc = "next"
  /\ InBSD
  /\ part.bsd # None
  /\ TakeBSD(label, part.bsd)
  /\ UNCHANGED <<dest, walk, n>>

\* The number of the slice in an entry of this type, after slice number k.
NumberEvery(k, t) == k + 1
Number(k, t) == IF k < PC_SLICE_MAX \/ t \notin {"ext", "none"} THEN k + 1 ELSE k

\* Where the next table is: links count from the extended partition, whose own
\* entry counts from the start of the disk.
Linked(off, ext, link) == ext + link

\* next_pc_slice(): the next entry of the table, or the first of the next table.
NextSlice ==
  /\ pc = "slice" \/ (pc = "next" /\ ~ InBSD)
  /\ LET first == part.slice = None
         off == IF first THEN 0 ELSE offset
         ext == IF first THEN 0 ELSE ext_offset
         e   == IF first THEN 0 ELSE entry + 1
         t   == Table(off)
     IN  /\ t # <<>>
         /\ IF e < PC_SLICE_MAX
            THEN /\ entry' = e
                 /\ offset' = off
                 /\ ext_offset' = ext
                 /\ part' = [slice |-> Number(IF first THEN -1 ELSE part.slice,
                                              Slice(t, e).type), bsd |-> None]
                 /\ type' = Slice(t, e).type
                 /\ start' = off + Slice(t, e).start
                 /\ len' = Slice(t, e).len
                 /\ pc' = "check"
            ELSE /\ FirstExtended(t) # None
                 /\ offset' = Linked(off, ext, Slice(t, FirstExtended(t)).start)
                 /\ ext_offset' = IF ext = 0 THEN offset' ELSE ext
                 /\ entry' = -1
                 /\ pc' = "slice"
                 /\ UNCHANGED place
  /\ UNCHANGED <<dest, label, errnum, n>>

NoSlice ==
  /\ pc = "slice" \/ (pc = "next" /\ ~ InBSD)
  /\ LET t == Table(IF part.slice = None THEN 0 ELSE offset)
     IN  \/ t = <<>> /\ Fail("bad_table")
         \/ ReadErrors /\ Fail("read")
         \/ /\ t # <<>> /\ part.slice # None
            /\ entry + 1 = PC_SLICE_MAX /\ FirstExtended(t) = None
            /\ Fail("no_part")
  /\ UNCHANGED <<dest, place, walk, n>>

\* Is the partition just found the one asked for?
Check ==
  /\ pc = "check"
  /\ IF type = "none"
     THEN pc' = "next" /\ UNCHANGED errnum
     ELSE /\ errnum' = "none"
          /\ pc' = IF dest = part \/ (dest.slice = None /\ dest.bsd = part.bsd)
                   THEN "opened" ELSE "next"
  /\ UNCHANGED <<dest, place, walk, n>>

-------------------------------------------------------------------------------
(* open_partition_hiddensecs(). *)

\* Entry e is the partition h, or the BSD slice that holds it.
StartsOnly(e, h) == e.start = h.start
Is(e, h) ==
  \/ e.start = h.start
  \/ e.type = "bsd" /\ e.start <= h.start /\ h.start + h.len <= e.start + e.len

LastExtended(t) ==
  LET links == {i \in 0..PC_SLICE_MAX-1 : Slice(t, i).type = "ext"}
  IN  IF links = {} THEN None ELSE CHOOSE i \in links : \A j \in links : i >= j

\* What a boot sector may say: it stands in the partition it names, or at the
\* start of a disk without partitions.
BootSectors ==
  {[start |-> 0, len |-> Sectors]} \cup
  {[start |-> p.start, len |-> p.len] : p \in {q \in There : q.type # "ext"}}

\* The boot sector says where its partition starts and how long it is; the
\* partition table is searched, then, from the extended partition on, the chain.
Find(h) ==
  /\ Idle
  /\ ~ floppy
  /\ h.start = 0 \/ Table(0) # <<>>
  /\ start' = h.start
  /\ len' = h.len
  /\ dest' = Whole
  /\ LET t == Table(0)
         hits == {i \in 0..PC_SLICE_MAX-1 : Is(Slice(t, i), h)}
     IN  \/ /\ h.start = 0
            /\ part' = Whole /\ type' = "none" /\ pc' = "found"
            /\ n' = None /\ ext_offset' = 0
         \/ /\ h.start # 0
            /\ hits # {}
            /\ part' = [slice |-> CHOOSE i \in hits : \A j \in hits : i <= j, bsd |-> None]
            /\ type' = Slice(t, part'.slice).type
            /\ pc' = "found"
            /\ n' = None /\ ext_offset' = 0
         \/ /\ h.start # 0
            /\ hits = {}
            /\ n' = PC_SLICE_MAX - 2
            /\ ext_offset' = IF LastExtended(t) = None THEN 0
                             ELSE Slice(t, LastExtended(t)).start
            /\ pc' = "chain"
            /\ UNCHANGED <<part, type>>
  /\ offset' = 0 /\ entry' = -1 /\ label' = <<>>
  /\ UNCHANGED errnum

\* One turn of the loop.  The signature of a table is not looked at: in a sector
\* that holds none the entries are anything.  The chain goes forward, so that the
\* last table of a broken one lies beyond the partition.
\* A number of MaxNumber stands for every number from there on.
OneMore(k) == IF k = MaxNumber THEN k ELSE k + 1

StopAt(at, h) == at = h
Stop(at, h) == at >= h

WalkChain ==
  /\ pc = "chain"
  /\ LET at == ext_offset + offset
         t  == Table(at)
     IN  /\ n' = OneMore(n)
         /\ \/ /\ Stop(at, start)
               /\ part' = [slice |-> n', bsd |-> None]
               /\ type' \in IF t = <<>> THEN Types ELSE {Slice(t, 0).type}
               /\ pc' = "found"
               /\ UNCHANGED offset
            \/ /\ ~ Stop(at, start)
               /\ offset' \in IF t = <<>> THEN 0..Sectors ELSE {Slice(t, 1).start}
               /\ UNCHANGED <<part, type, pc>>
  /\ UNCHANGED <<dest, start, len, ext_offset, entry, label, errnum>>

Same == UNCHANGED <<disk, floppy>>

Step == Same /\ (FirstBSD \/ NextBSD \/ NextSlice \/ NoSlice \/ Check \/ WalkChain)

Next ==
  \/ Same /\ \E d \in Dests : Open(d)
  \/ Same /\ \E h \in BootSectors : Find(h)
  \/ Step

Spec == Init /\ [][Next]_vars

\* Nothing else runs until the search returns.
FairSpec == Spec /\ WF_vars(Step)

-------------------------------------------------------------------------------
(* Properties. *)

\* real_open_partition() returns 1 only with current_partition, current_slice,
\* part_start and part_length those of one partition of the disk, the one asked
\* for: logical partitions are numbered in the order of the chain, links and
\* empty entries not counted.  If only a BSD letter was asked for, any slice does.
\* And a partition the tables name is found unless a sector cannot be read.
OpensTheNumbered ==
  /\ pc = "opened" /\ dest # Whole =>
       /\ [part |-> part, type |-> type, start |-> start, len |-> len] \in There
       /\ dest = part \/ (dest.slice = None /\ dest.bsd = part.bsd)
  /\ pc = "failed" /\ errnum # "read" => \A p \in There : p.part # dest

\* Every table of the chain holds one partition and comes before it.
PlainChain ==
  \A k \in 1..MaxTables : ChainTable[k] # 0 /\ Table(ChainTable[k]) # <<>> =>
    Used(Slice(Table(ChainTable[k]), 0)) /\ ~ Used(Slice(Table(ChainTable[k]), 1))

\* On a disk whose tables hold one partition each, open_partition_hiddensecs()
\* gives the boot partition, or the BSD slice it is in, the number by which
\* real_open_partition() opens it.
HiddenIsNumbered ==
  pc = "found" /\ start # 0 /\ PlainChain /\ (\E p \in There : p.start = start) =>
    \E s \in Slices :
      /\ s.part = part
      /\ s.start = start \/ (s.type = "bsd" /\ s.start <= start /\ start < s.start + s.len)

\* No table of the chain lies beyond the partition searched for.
PastTheEnd ==
  pc = "chain" /\ \A k \in 1..MaxTables : ChainTable[k] < start

\* A search comes to an end, except open_partition_hiddensecs()'s for the last
\* partition of the chain, whose table it goes round for ever.
SearchEnds == []<>(Idle \/ PastTheEnd)

===============================================================================
