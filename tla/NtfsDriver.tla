------------------------------- MODULE NtfsDriver -------------------------------
(***************************************************************************)
(* filesys/fsys_ntfs.c.  In memory are two file records, that of the table *)
(* of records (mem.m) and that of the current file (mem.c), each with the  *)
(* place its attributes are searched from, and the last block of a file of *)
(* which a part was read.  A record or a block of an index is the first    *)
(* unit of the blocks it fills.  In a compressed chunk the header tells    *)
(* what the units behind it, as many as it says, stand for.                *)
(***************************************************************************)
EXTENDS FileDriver

CONSTANTS BSIZE,        \* units in a block of 512 bytes
          MFT,          \* units in a record, of two blocks
          IDX,          \* units in a block of an index
          CHUNK,        \* units in 4096 bytes
          CUNIT         \* clusters that are compressed together

FILE_ROOT == 5
NoPos == -1             \* save_pos is 1, which no block begins at

Cluster(d) == d.mem.spc * BSIZE
Failed(d) == [d |-> d, ok |-> FALSE, bytes |-> <<>>]
Done(d, bytes) == [d |-> d, ok |-> TRUE, bytes |-> bytes]
Ended(d, ok, names) == [d |-> d, ok |-> ok, names |-> names]
Attribute(d, pa) == [d |-> d, pa |-> pa]

\* `n` blocks from s on: their units, where all can be read.
BlocksAt(d, s, n) ==
  LET fails == {b \in s .. s + n - 1 : ~Readable(d, b)}
  IN IF fails = {} THEN Done(d, FlattenSeq([i \in 1..n |-> image.blocks[s + i - 1]]))
     ELSE Failed(Devread(d, CHOOSE b \in fails : \A a \in fails : b <= a))

RECURSIVE FindAttr(_, _, _), ReadAttr(_, _, _, _, _), ReadData(_, _, _, _, _, _)

---------------------------------------------------------------------------
(* find_attr().  alst: the attributes are those of an attribute list.      *)

\* The first place in s, from `from` on, of an attribute of the type.
Place(s, from, type) == SelectInSubSeq(s, from, Len(s), LAMBDA a : a.type = type)

InitAttr(d, k) == [d EXCEPT !.mem[k].alst = FALSE, !.mem[k].nxt = 1, !.mem[k].end = 0]

\* The attribute of a record that the entry of a list stands for.
OfEntry(d, rec, entry) ==
  LET fits == {i \in DOMAIN rec.attrs : rec.attrs[i].type = entry.type /\ rec.attrs[i].id = entry.id}
  IN Attribute(d, IF fits = {} THEN None ELSE rec.attrs[CHOOSE i \in fits : \A j \in fits : i <= j])

FromBlocks(r, entry) ==
  IF r.ok /\ r.bytes[1].kind = "FILE" THEN OfEntry(r.d, r.bytes[1], entry) ELSE Attribute(r.d, None)

\* read_mft() reads record `no` of the table; where the two blocks of one that
\* holds a part of the table itself lie was noted before.
ReadMft(d, no) == ReadAttr(d, "m", no * MFT, MFT, "plain")
TwoBlocks(r, second) == IF r.ok THEN BlocksAt(r.d, second, 1) @@ [first |-> r.bytes] ELSE r @@ [first |-> <<>>]
Joined(r) == [d |-> r.d, ok |-> r.ok, bytes |-> IF r.ok THEN r.first \o r.bytes ELSE <<>>]

OfRecord(d, k, entry) ==
  FromBlocks(IF k = "m" THEN Joined(TwoBlocks(BlocksAt(d, entry.at[1], 1), entry.at[2])) ELSE ReadMft(d, entry.mft), entry)

InList(d, k, i) ==
  IF i = 0 THEN Attribute([d EXCEPT !.mem[k].cur = Len(d.mem[k].list), !.mem[k].nxt = Len(d.mem[k].list) + 1], None)
  ELSE OfRecord([d EXCEPT !.mem[k].cur = i, !.mem[k].nxt = i + 1], k, d.mem[k].list[i])

\* Where the records that hold the table's own further runs lie is found from
\* the runs before: entries `new` on of the list, after the one at `cur`.
RECURSIVE Positions(_, _, _)
Positioned(r, type, new) ==
  IF r.ok THEN Positions([r.d EXCEPT !.mem.m.list[new].at = r.bytes], type, new + 1) ELSE Attribute(r.d, None)
Positions(d, type, new) ==
  IF new \in DOMAIN d.mem.m.list /\ d.mem.m.list[new].type = type
  THEN Positioned(ReadAttr(d, "m", d.mem.m.list[new].mft * MFT, MFT, "gpos"), type, new)
  ELSE InList([d EXCEPT !.mem.m.nxt = d.mem.m.cur], "m", d.mem.m.cur)

InNewList(d, k, type, i) ==
  CASE i = 0 -> Attribute([d EXCEPT !.mem[k].nxt = d.mem[k].end], None)
    [] i # 0 /\ k = "m" /\ type = "DATA" ->
         Positions([d EXCEPT !.mem.m.cur = i, !.mem.m.list[i].at = <<d.mem.mft_start, d.mem.mft_start + 1>>], type, i + 1)
    [] OTHER -> InList([d EXCEPT !.mem[k].nxt = i], k, i)

ListRead(r, k, type, size) ==
  IF ~r.ok THEN Attribute(r.d, None)
  ELSE InNewList([r.d EXCEPT !.mem[k].alst = TRUE, !.mem[k].list = Part(r.bytes, 0, size), !.mem[k].end = size + 1],
                 k, type, Place(Part(r.bytes, 0, size), 1, type))

\* Behind the last attribute of a record are those of its attribute list.
EnterList(d, k, type, pa) ==
  IF pa.nonres THEN ListRead(ReadData(d, k, pa, 0, ((pa.size + BSIZE - 1) \div BSIZE) * BSIZE, "plain"), k, type, pa.size)
  ELSE ListRead(Done(d, pa.data), k, type, Len(pa.data))

InRecord(d, k, type, i) ==
  LET s == d.mem[k]
      lists == {j \in s.nxt .. (IF i = 0 THEN Len(s.rec.attrs) ELSE i) : s.rec.attrs[j].type = "LIST"}
      end == IF lists = {} THEN s.end ELSE CHOOSE j \in lists : TRUE
  IN CASE i # 0 -> Attribute([d EXCEPT !.mem[k].cur = i, !.mem[k].nxt = i + 1, !.mem[k].end = end], s.rec.attrs[i])
       [] i = 0 /\ end # 0 -> EnterList([d EXCEPT !.mem[k].cur = end, !.mem[k].nxt = Len(s.rec.attrs) + 1], k, type, s.rec.attrs[end])
       [] OTHER -> Attribute([d EXCEPT !.mem[k].cur = Len(s.rec.attrs), !.mem[k].nxt = Len(s.rec.attrs) + 1], None)

FindAttr(d, k, type) ==
  IF d.mem[k].alst THEN InList(d, k, Place(d.mem[k].list, d.mem[k].nxt, type))
  ELSE InRecord(d, k, type, Place(d.mem[k].rec.attrs, d.mem[k].nxt, type))

\* locate_attr(): the first one of the list, if there is a list that has one.
RECURSIVE Locating(_, _, _, _)
Located(r, k, type, found) ==
  CASE found = "again" \/ (r.d.mem[k].alst /\ r.pa # None) \/ (found = "none" /\ r.pa = None) -> r
    [] r.pa # None /\ ~r.d.mem[k].alst /\ found # "again" -> Locating(r.d, k, type, "first")
    [] OTHER -> Locating(InitAttr(r.d, k), k, type, "again")
Locating(d, k, type, found) == Located(FindAttr(d, k, type), k, type, found)
LocateAttr(d, k, type) == Locating(InitAttr(d, k), k, type, "none")

---------------------------------------------------------------------------
(* read_run_list(), read_block() and read_data().  A reading e = [d, ok,   *)
(* mode, bytes, c] has in c the runs that are left, the clusters           *)
(* [curr_vcn, next_vcn) of the current one, at curr_lcn or blank, and the  *)
(* next cluster to read with the block in it; and for a file that is       *)
(* compressed, tab: the fragments of the clusters that are compressed      *)
(* together, each by where it ends in the file and on the disk, and cbuf:  *)
(* what is left of the cluster that was read.  todo: the calls of          *)
(* read_block(), of num blocks each, of the first of which num are left.   *)
(* mode: "cached" for what a caller reads, "plain", or "gpos" for places.  *)

RECURSIVE RunList(_), Reading(_)

\* The runs go on in the next part of the attribute.
MoreRuns(r, e) ==
  IF r.pa = None \/ ~r.pa.nonres THEN [e EXCEPT !.d = r.d, !.ok = FALSE]
  ELSE RunList([e EXCEPT !.d = r.d, !.c.runs = r.pa.runs, !.c.curr_lcn = 0])

RunList(e) ==
  LET s == e.d.mem[e.c.k]
      run == e.c.runs[1]
  IN CASE e.c.runs = <<>> /\ s.alst -> MoreRuns(FindAttr(e.d, e.c.k, s.list[s.cur].type), e)
       [] e.c.runs = <<>> /\ ~s.alst -> [e EXCEPT !.ok = FALSE]
       [] OTHER -> [e EXCEPT !.c.runs = Tail(@), !.c.curr_vcn = e.c.next_vcn, !.c.next_vcn = @ + run.len,
                             !.c.curr_lcn = @ + run.delta, !.c.blank = run.delta = 0]

Lcn(c) == c.target - c.curr_vcn + c.curr_lcn
Place1(e) == Lcn(e.c) * e.d.mem.spc + e.c.off

\* At the first of the clusters that are compressed together their fragments
\* are noted, up to a blank run or to one that has all of them.
InFragments(e) == e.c.comp /\ e.c.target % CUNIT = 0 /\ e.c.target + CUNIT > e.c.next_vcn /\ ~e.c.blank
Fragment(e) == [vcn |-> e.c.next_vcn, lcn |-> e.c.curr_lcn + e.c.next_vcn - e.c.curr_vcn]
NextRun(e) ==
  RunList(IF e.c.target < e.c.next_vcn THEN [e EXCEPT !.c.tab = Append(@, Fragment(e)), !.c.tail = @ + 1] ELSE e)

\* The blocks that r holds were read.
Blocks(r, e, n) ==
  LET at == e.c.target * e.d.mem.spc + e.c.off + n
  IN [e EXCEPT !.d = r.d, !.ok = r.ok, !.bytes = @ \o r.bytes, !.num = @ - n,
               !.c.target = at \div e.d.mem.spc, !.c.off = at % e.d.mem.spc]
Zeros(n) == [i \in 1..n |-> 0]
InRun(e, n) == IF e.c.blank \/ e.quiet THEN Done(e.d, Zeros(n * BSIZE)) ELSE BlocksAt(e.d, Place1(e), n)

\* decomp_nextvcn()
ClusterRead(r, e) ==
  IF r.ok THEN [e EXCEPT !.d = r.d, !.c.cbuf = r.bytes, !.c.cvcn = @ + 1, !.c.tab = IF e.c.cvcn + 1 >= @[1].vcn THEN Tail(@) ELSE @]
  ELSE [e EXCEPT !.d = r.d, !.ok = FALSE]
NextVcn(e) ==
  IF e.c.tab = <<>> THEN [e EXCEPT !.ok = FALSE]
  ELSE ClusterRead(BlocksAt(e.d, (e.c.tab[1].lcn - (e.c.tab[1].vcn - e.c.cvcn)) * e.d.mem.spc, e.d.mem.spc), e)

\* decomp_getch(): the next n units of the stream, after those in t; what cannot
\* be read counts as a zero, and only errnum tells.
RECURSIVE Take(_, _)
Taken(e, t, n) ==
  IF e.ok THEN Take([t EXCEPT !.e = e], n) ELSE Take([t EXCEPT !.e = [e EXCEPT !.ok = TRUE], !.torn = TRUE], n - 1)
Take(t, n) ==
  CASE n = 0 -> t
    [] n # 0 /\ t.e.c.cbuf = <<>> -> Taken(NextVcn(t.e), t, n)
    [] OTHER -> Take([t EXCEPT !.e.c.cbuf = Tail(@), !.units = Append(@, t.e.c.cbuf[1])], n - 1)
From(e) == [e |-> e, units |-> <<>>, torn |-> FALSE]

\* decomp_block(): a chunk is stored or compressed.
Holds(t, header) ==
  CASE t.torn -> Junk(CHUNK)
    [] ~t.torn /\ header.yields = <<>> -> t.units
    [] OTHER -> header.yields
Body(t, header) == [t.e EXCEPT !.bytes = @ \o Holds(t, header)]
Chunk(t) ==
  IF t.torn \/ (t.units[1].yields = <<>> /\ t.units[1].size # CHUNK) THEN [t.e EXCEPT !.ok = FALSE]
  ELSE Body(Take(From(t.e), t.units[1].size), t.units[1])

\* Chunks: of clusters that are all blank, in part, or not compressed; these are
\* read from the fragments, each from behind its place, and from the current run.
ClustersAt(e, s, n) == IF e.quiet THEN Done(e.d, <<>>) ELSE BlocksAt(e.d, s * e.d.mem.spc, n * e.d.mem.spc)
RECURSIVE Plain(_, _)
PlainRead(r, e, n, left) ==
  Plain([e EXCEPT !.d = r.d, !.ok = r.ok, !.c.target = @ + n, !.bytes = @ \o r.bytes,
                  !.c.tab = IF @ # <<>> /\ e.c.target + n >= @[1].vcn THEN Tail(@) ELSE @], left - n)
Piece(e, left) == IF e.c.tab = <<>> THEN left ELSE Least(e.c.tab[1].vcn - e.c.target, left)
From1(e, n) == IF e.c.tab = <<>> THEN Lcn(e.c) ELSE e.c.tab[1].lcn - (e.c.tab[1].vcn - (e.c.target + n))
Plain(e, left) ==
  IF left = 0 \/ ~e.ok THEN e
  ELSE PlainRead(ClustersAt(e, From1(e, Piece(e, left)), Piece(e, left)), e, Piece(e, left), left)

\* The next chunk of clusters that are together.  At their end no fragment may be left.
Chunked(e) ==
  LET cpb == CHUNK \div Cluster(e.d)
      on == [e EXCEPT !.c.target = @ + cpb]
  IN CASE e.c.blank /\ e.c.tail = 0 -> [on EXCEPT !.bytes = @ \o Zeros(CHUNK)]
       [] e.c.blank /\ e.c.tail # 0 -> Chunk(Take(From(on), 1))
       [] OTHER -> Plain(e, cpb)
Together(e) ==
  IF e.c.target % CUNIT # 0 THEN [e EXCEPT !.num = @ - 1]
  ELSE [e EXCEPT !.num = @ - 1, !.c.left = e.c.tab # <<>>, !.c.tail = 0, !.c.cvcn = e.c.target, !.c.cbuf = <<>>]

Step(e) ==
  CASE e.c.left -> [e EXCEPT !.ok = FALSE]
    [] ~e.c.left /\ (e.c.target >= e.c.next_vcn \/ InFragments(e)) -> NextRun(e)
    [] ~e.c.left /\ e.c.target < e.c.next_vcn /\ e.mode = "gpos" -> Blocks(Done(e.d, <<Place1(e)>>), e, 1)
    [] ~e.c.left /\ e.c.target < e.c.next_vcn /\ ~InFragments(e) /\ e.mode # "gpos" /\ e.c.comp -> Together(Chunked(e))
    [] OTHER -> LET n == Least((e.c.next_vcn - e.c.target) * e.d.mem.spc - e.c.off, e.num) IN Blocks(InRun(e, n), e, n)

\* One read_block() after the other.  Whether the file is compressed is noted by
\* read_data(), which reading a record of the table for more runs calls again.
\* The block at an edge goes to sbuf, and is said to lie where its cluster does:
\* `aside` is its place in the cluster, which the code does not keep.
Unit(pa) == IF pa.comp THEN CHUNK ELSE BSIZE
Begun(e) ==
  [e EXCEPT !.todo = Tail(@), !.num = e.todo[1].num, !.quiet = e.todo[1].quiet, !.edge = e.todo[1].edge,
            !.c.comp = e.d.mem.comp, !.at = e.c.target * Cluster(e.d), !.aside = e.c.off, !.bytes = IF e.quiet THEN <<>> ELSE @]
Kept(e) ==
  IF e.edge THEN [e EXCEPT !.edge = FALSE, !.d.mem.save_pos = e.at, !.d.mem.aside = e.aside, !.d.mem.sbuf = Part(e.bytes, Len(e.bytes) - e.unit, e.unit)]
  ELSE e
Reading(e) ==
  CASE ~e.ok \/ (e.num = 0 /\ ~e.edge /\ e.todo = <<>>) -> e
    [] e.ok /\ e.num = 0 /\ (e.edge \/ e.todo # <<>>) -> Reading(IF e.edge THEN Kept(e) ELSE Begun(e))
    [] OTHER -> Reading(Step(e))

\* What is to be read: of a compressed file from the first of the clusters that
\* are together on, and the blocks at the ends by themselves.
Call(num, edge, quiet) == [num |-> num, edge |-> edge, quiet |-> quiet]
Calls(unit, skip, o, len, mode) ==
  LET first == IF o = 0 THEN 0 ELSE Least(unit - o, len)
  IN IF mode = "gpos" THEN <<Call(2, FALSE, FALSE)>>
     ELSE <<Call(skip, FALSE, TRUE), Call(IF o = 0 THEN 0 ELSE 1, o # 0, FALSE), Call((len - first) \div unit, FALSE, FALSE),
            Call(IF (len - first) % unit = 0 THEN 0 ELSE 1, (len - first) % unit # 0, FALSE)>>
Outcome(e, o, len, got) ==
  CASE ~e.ok -> Failed(e.d)
    [] e.ok /\ e.mode = "gpos" -> Done(e.d, e.bytes)
    [] OTHER -> Done(e.d, got \o Part(e.bytes, o, len))

Runs(d, k, pa, ofs, len, mode, got) ==
  LET vcn == IF pa.comp THEN (ofs \div CHUNK) * (CHUNK \div Cluster(d)) ELSE ofs \div Cluster(d)
      target == IF pa.comp THEN vcn - (vcn % CUNIT) ELSE vcn
      c == [k |-> k, runs |-> pa.runs, curr_vcn |-> 0, next_vcn |-> pa.vcn, curr_lcn |-> 0, blank |-> FALSE, target |-> target,
            off |-> IF pa.comp THEN 0 ELSE (ofs \div BSIZE) % d.mem.spc, comp |-> FALSE, left |-> FALSE, tab |-> <<>>, tail |-> 0, cvcn |-> target, cbuf |-> <<>>]
      skip == ((vcn - target) * Cluster(d)) \div CHUNK
      o == ofs % Unit(pa)
  IN IF mode = "plain" /\ (o # 0 \/ len % Unit(pa) # 0) THEN Failed(d)
     ELSE Outcome(Reading([d |-> [d EXCEPT !.mem.comp = pa.comp], ok |-> TRUE, mode |-> mode, bytes |-> <<>>, c |-> c, num |-> 0, at |-> 0, aside |-> 0,
                           unit |-> Unit(pa), quiet |-> FALSE, edge |-> FALSE, todo |-> Calls(Unit(pa), skip, o, len, mode)]), o, len, got)

\* The block in sbuf has the beginning, or all.
InSbuf(d, pa, ofs, mode) == mode = "cached" /\ ofs - (ofs % Unit(pa)) = d.mem.save_pos
Held(d, pa, ofs, len, mode) == IF InSbuf(d, pa, ofs, mode) THEN Least(Unit(pa) - (ofs - d.mem.save_pos), len) ELSE 0

\* What is taken from sbuf is another block than the one at ofs.
Mistaken(d, mode, n) == IF mode = "cached" THEN [d EXCEPT !.mem.taint = n > 0 /\ d.mem.aside # 0] ELSE d

FromSbuf(d, k, pa, ofs, len, mode, n) ==
  LET got == IF n = 0 THEN <<>> ELSE Part(d.mem.sbuf, ofs - d.mem.save_pos, n)
  IN IF n = len THEN Done(d, got) ELSE Runs(d, k, pa, ofs + n, len - n, mode, got)

ReadData(d, k, pa, ofs, len, mode) ==
  CASE len = 0 -> Done(d, <<>>)
    [] len # 0 /\ ~pa.nonres -> IF ofs + len > Len(pa.data) THEN Failed(d) ELSE Done(d, Part(pa.data, ofs, len))
    [] len # 0 /\ pa.nonres /\ pa.comp /\ mode # "cached" -> Failed(d)
    [] OTHER -> FromSbuf(Mistaken(d, mode, Held(d, pa, ofs, len, mode)), k, pa, ofs, len, mode, Held(d, pa, ofs, len, mode))

\* The last entry of a list, from the i-th on, for the cluster vcn.
RECURSIVE EntryFor(_, _, _)
EntryFor(list, i, vcn) ==
  IF i + 1 \in DOMAIN list /\ list[i + 1].type = list[i].type /\ list[i + 1].vcn <= vcn THEN EntryFor(list, i + 1, vcn) ELSE i

AttrRead(r, k, ofs, len, mode) == IF r.pa = None THEN Failed(r.d) ELSE ReadData(r.d, k, r.pa, ofs, len, mode)
Restored(r, k, cur) == [r EXCEPT !.d.mem[k].cur = cur]
ReadAttr(d, k, ofs, len, mode) ==
  LET s == d.mem[k]
      type == IF s.alst THEN s.list[s.cur].type ELSE s.rec.attrs[s.cur].type
      nxt == IF s.alst THEN EntryFor(s.list, s.cur, ofs \div Cluster(d)) ELSE s.cur
  IN Restored(AttrRead(FindAttr([d EXCEPT !.mem[k].nxt = nxt], k, type), k, ofs, len, mode), k, s.cur)

---------------------------------------------------------------------------
(* init_file(), scan_dir(), ntfs_dir(), ntfs_read(), ntfs_mount()          *)

Corrupt(d, names) == Ended(Failing(d, "ERR_FSYS_CORRUPT"), FALSE, names)
Idle(rec) == [rec |-> rec, alst |-> FALSE, cur |-> 0, nxt |-> 1, end |-> 0, list |-> <<>>]

\* Without a list the search of an attribute ends with the record.
Sized(r) ==
  IF r.pa = None THEN Corrupt(r.d, {})
  ELSE Ended([r.d EXCEPT !.mem.c.end = IF r.d.mem.c.alst THEN @ ELSE 0, !.mem.save_pos = NoPos, !.pos = 0,
                         !.max = IF r.pa.nonres THEN r.pa.size ELSE Len(r.pa.data)], TRUE, {})
Inited(d, rec) ==
  CASE ~rec.used -> Corrupt(d, {})
    [] rec.used /\ rec.dir -> Ended([d EXCEPT !.mem.c = Idle(rec), !.mem.save_pos = NoPos, !.pos = 0, !.max = 0], TRUE, {})
    [] OTHER -> Sized(LocateAttr([d EXCEPT !.mem.c = Idle(rec)], "c", "DATA"))
Recorded(r) == IF r.ok /\ r.bytes[1].kind = "FILE" THEN Inited(r.d, r.bytes[1]) ELSE Corrupt(r.d, {})
InitFile(d, no) == Recorded(ReadMft(d, no))

RECURSIVE Component(_, _), Indexed(_, _, _, _, _)

\* scan_dir() ends: what failed is reported as a name that is not there.
Scanned(r, path) ==
  CASE ~r.ok -> Ended(Failing(r.d, "ERR_FILE_NOT_FOUND"), FALSE, r.names)
    [] r.ok /\ Len(path) > 1 -> Component(r.d, Tail(path))
    [] OTHER -> r

\* list_file(): the entries of the root or a block of an index; 0 if there is no such name.
Named(entries, path) == SelectInSeq(entries, LAMBDA x : x.name = path[1])
Shown(entries) == {entries[i].name : i \in {j \in DOMAIN entries : ~entries[j].system}}

\* The i-th block of the index, if it is in use.
OfIndex(r, path, bits, i, names) ==
  IF ~r.ok \/ r.bytes[1].kind # "INDX" THEN Corrupt(r.d, names)
  ELSE CASE path # <<"">> /\ Named(r.bytes[1].entries, path) # 0 ->
              Scanned(InitFile(r.d, r.bytes[1].entries[Named(r.bytes[1].entries, path)].mft), path)
         [] path = <<"">> -> Indexed(r.d, path, bits, i + 1, names \cup Shown(r.bytes[1].entries))
         [] OTHER -> Indexed(r.d, path, bits, i + 1, names)
Indexed(d, path, bits, i, names) ==
  CASE i \notin DOMAIN bits -> Scanned(Ended(d, names # {}, names), path)
    [] i \in DOMAIN bits /\ ~bits[i] -> Indexed(d, path, bits, i + 1, names)
    [] OTHER -> OfIndex(ReadAttr(d, "c", (i - 1) * IDX, IDX, "plain"), path, bits, i, names)

\* The allocation was looked for; b is the bitmap, if there is one.
Allocated(r, path, b, names) ==
  CASE r.pa = None /\ b # None -> Corrupt(r.d, names)
    [] r.pa # None /\ b # None -> Indexed(r.d, path, b, 1, names)
    [] OTHER -> Indexed(r.d, path, <<>>, 1, names)
Allotted(d, pa) == ((pa.size + Cluster(d) - 1) \div Cluster(d)) * Cluster(d)
InBits(r, path, b, names) == Allocated(LocateAttr(r.d, "c", "ALLOC"), path, b, names)
BitmapRead(r, path, size, names) ==
  IF r.ok THEN InBits(r, path, IF size = None THEN None ELSE Part(r.bytes, 0, size), names) ELSE Corrupt(r.d, names)
Bits(r) ==
  CASE r.pa = None -> Done(r.d, <<>>)
    [] r.pa # None /\ r.pa.nonres -> ReadData(r.d, "c", r.pa, 0, Allotted(r.d, r.pa), "plain")
    [] OTHER -> Done(r.d, r.pa.data)
Size(pa) == CASE pa = None -> None [] pa # None /\ pa.nonres -> pa.size [] OTHER -> Len(pa.data)
Bitmap(r, path, names) == BitmapRead(Bits(r), path, Size(r.pa), names)
InRoot(r, path) ==
  CASE r.pa = None -> Corrupt(r.d, {})
    [] r.pa # None /\ path # <<"">> /\ Named(r.pa.entries, path) # 0 -> Scanned(InitFile(r.d, r.pa.entries[Named(r.pa.entries, path)].mft), path)
    [] OTHER -> Bitmap(FindAttr(InitAttr(r.d, "c"), "c", "BITMAP"), path, IF path = <<"">> THEN Shown(r.pa.entries) ELSE {})

Component(d, path) ==
  IF ~d.mem.c.rec.dir THEN Ended(Failing(d, "ERR_FILE_NOT_FOUND"), FALSE, {})
  ELSE InRoot(FindAttr(InitAttr(d, "c"), "c", "ROOT"), path)

FromRoot(r, path) == IF r.ok THEN Component(r.d, path) ELSE r
NtfsDir(d, path) == FromRoot(InitFile([d EXCEPT !.pos = 0, !.max = 0], FILE_ROOT), path)

Delivering(r, len) == IF r.ok THEN [r EXCEPT !.d.pos = @ + len] ELSE [d |-> Failing(r.d, "ERR_FSYS_CORRUPT"), bytes |-> <<>>]
NtfsRead(d, len) ==
  IF d.mem.c.rec.dir THEN [d |-> Failing(d, "ERR_FSYS_CORRUPT"), bytes |-> <<>>] ELSE Delivering(ReadAttr(d, "c", d.pos, len, "cached"), len)

\* The boot block is told by its numbers, the table by its first record.
Tabled(r) ==
  IF r.ok /\ r.bytes[1].kind = "FILE" THEN LocateAttr([r.d EXCEPT !.mem.m = Idle(r.bytes[1])], "m", "DATA") ELSE Attribute(r.d, None)
Ready(r) == [d |-> r.d, ok |-> r.pa # None]
NoRecord == [kind |-> "none", attrs |-> <<>>, dir |-> FALSE, used |-> FALSE]
NtfsMount(d) ==
  IF ~Readable(d, 0) \/ ~image.blocks[0].ntfs THEN [d |-> Devread(d, 0), ok |-> FALSE]
  ELSE LET boot == image.blocks[0]
           fresh == [spc |-> boot.spc, mft_start |-> boot.mft_start, m |-> Idle(NoRecord), c |-> Idle(NoRecord), comp |-> FALSE, sbuf |-> <<>>, save_pos |-> NoPos, aside |-> 0, taint |-> FALSE]
       IN Ready(Tabled(BlocksAt([d EXCEPT !.mem = fresh], boot.mft_start, 2)))

---------------------------------------------------------------------------

Mount == \E bad \in Faults : Mounted(bad, NtfsMount(Now(bad)))
Open == \E path \in image.paths, bad \in Faults : mem # None /\ Opened(path, bad, NtfsDir(Opening(bad), path))
List == \E path \in DOMAIN image.dirs, bad \in Faults :
          mem # None /\ Listed(path, bad, NtfsDir(Now(bad), Append(path, "")))
Read == \E len \in Lengths, bad \in Faults :
          file # None /\ Delivered(len, bad, NtfsRead(Clamped(bad), Length(len)))
Reposition == \E pos \in image.starts : Seek(pos)

Next == Mount \/ Open \/ List \/ Read \/ Reposition
Spec == DriverInit /\ [][Next]_dvars
===============================================================================
