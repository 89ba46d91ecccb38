----------------------------- MODULE ReiserDriver -----------------------------
(***************************************************************************)
(* filesys/fsys_reiserfs.c.  The nodes of the tree are read as the journal *)
(* leaves them: a block that a committed transaction holds is taken from   *)
(* there.  In memory are the root, the nodes of the path to the item that  *)
(* was used last, the places in them where the next key is found, and of   *)
(* as many transactions as there is room for the numbers of their blocks.  *)
(* A key is a number in the order of directory, object and offset.         *)
(***************************************************************************)
EXTENDS FileDriver

CONSTANTS BLOCK_SIZE,           \* units of a file in a block
          CACHED_SLOTS,         \* FSYSREISER_CACHE_SIZE / blocksize - 1
          MAX_HEIGHT,
          JOURNAL_TRANS_HALF,   \* numbers that fit into a descriptor block
          JOURNAL_ROOM,         \* JOURNAL_END - JOURNAL_START
          SUPER, OLD_SUPER,     \* where the super block is, and was
          MAX_LINK_COUNT, PATH_MAX

Key(dir, obj, off) == dir * 10000 + obj * 100 + off
RootDir == <<1, 2>>             \* REISERFS_ROOT_PARENT_OBJECTID, REISERFS_ROOT_OBJECTID
Magics == {"ReIsErFs", "ReIsEr2Fs", "ReIsEr3Fs"}
PowersOfTwo == {1, 2, 4, 8, 16, 32}

Result(d, ok) == [d |-> d, ok |-> ok]
Ended(d, ok, names) == [d |-> d, ok |-> ok, names |-> names]
NotFound(d, code, names) == Ended(Failing(d, code), FALSE, names)

\* The buffers whose reading failed while their number stayed; 0 is the journal.
Torn(d, s) == [d EXCEPT !.mem.torn = s, !.mem.taint = s # {}]

---------------------------------------------------------------------------
(* journal_init() and block_read()                                         *)

\* The i-th block of the journal, which is a ring.
InJournal(m, i) == m.jblock + (i % m.jsize)

\* A transaction is valid when its number is the next, and descriptor and commit agree.
Described(desc, id, mount) == "desc" \in DOMAIN desc /\ desc.id = id /\ desc.mount = mount

\* The descriptor is enough.
CommittedAny(desc, commit) == TRUE

Committed(desc, commit) == "commit" \in DOMAIN commit /\ commit.id = desc.id /\ commit.len = desc.len

RECURSIVE Replay(_, _, _)

\* The numbers are noted while there is room; room 0 is behind the mark.
Noted(d, desc, commit) ==
  IF d.mem.room > desc.len + 1
  THEN [d EXCEPT !.mem.table = Append(@, desc.real \o commit.real), !.mem.room = @ - desc.len - 1]
  ELSE [d EXCEPT !.mem.room = 0]

OneMore(d, at, desc, commit, mount) ==
  Replay([Noted(d, desc, commit) EXCEPT !.mem.transactions = @ + 1, !.mem.id = @ + 1], at + desc.len + 2, mount)

\* Where a block cannot be read what is in the variable is not valid, and the
\* transactions behind it are not replayed.
Replay(d, at, mount) ==
  LET b == InJournal(d.mem, at)
      c == InJournal(d.mem, at + image.blocks[b].len + 1)
  IN CASE ~Readable(d, b) -> Torn(Devread(d, b), d.mem.torn \cup {0})
       [] Readable(d, b) /\ ~Described(image.blocks[b], d.mem.id, mount) -> d
       [] Readable(d, b) /\ Described(image.blocks[b], d.mem.id, mount) /\ ~Readable(d, c) -> Torn(Devread(d, c), d.mem.torn \cup {0})
       [] OTHER -> IF Committed(image.blocks[b], image.blocks[c]) THEN OneMore(d, at, image.blocks[b], image.blocks[c], mount) ELSE d

JournalInit(d) ==
  LET header == image.blocks[d.mem.jblock + d.mem.jsize]
  IN IF header.first >= d.mem.jsize THEN d
     ELSE Replay([d EXCEPT !.mem.first = header.first, !.mem.id = header.last + 1], header.first, header.mount)

\* The place of the block nr: t.nr as far as the transactions before the k-th say,
\* whose descriptor is at t.at.  -1: a block of the journal could not be read.
RECURSIVE Translate(_, _, _)
Where(list, nr) == CHOOSE i \in DOMAIN list : list[i] = nr

Found(t, k, list, len, nr) ==
  Translate([t EXCEPT !.at = @ + 2 + len,
                      !.nr = IF nr \in ToSet(list) THEN InJournal(t.d.mem, t.at + Where(list, nr)) ELSE @], k + 1, nr)

OnDisk(t, k, b, c, nr) ==
  CASE ~Readable(t.d, b) -> [t EXCEPT !.d = Devread(@, b), !.nr = -1]
    [] Readable(t.d, b) /\ nr \notin ToSet(image.blocks[b].real) /\ image.blocks[b].len >= JOURNAL_TRANS_HALF /\ ~Readable(t.d, c) ->
         [t EXCEPT !.d = Devread(@, c), !.nr = -1]
    [] OTHER -> Found(t, k, image.blocks[b].real \o image.blocks[c].real, image.blocks[b].len, nr)

Translate(t, k, nr) ==
  LET b == InJournal(t.d.mem, t.at)
  IN CASE k > t.d.mem.transactions -> t
       [] k <= t.d.mem.transactions /\ k <= Len(t.d.mem.table) -> Found(t, k, t.d.mem.table[k], Len(t.d.mem.table[k]), nr)
       [] OTHER -> OnDisk(t, k, b, InJournal(t.d.mem, t.at + image.blocks[b].len + 1), nr)

\* block_read(): [d, ok, b].
ReadAt(t) ==
  IF t.nr # -1 /\ Readable(t.d, t.nr) THEN [d |-> t.d, ok |-> TRUE, b |-> image.blocks[t.nr]]
  ELSE [d |-> IF t.nr = -1 THEN t.d ELSE Devread(t.d, t.nr), ok |-> FALSE, b |-> None]
BlockRead(d, nr) == ReadAt(Translate([d |-> d, at |-> d.mem.first, nr |-> nr], 1, nr))

---------------------------------------------------------------------------
(* reiserfs_mount()                                                        *)

EmptyNode == [level |-> 0, keys |-> <<>>, children |-> <<>>, items |-> <<>>]
Fresh(super) ==
  [root |-> EmptyNode, depth |-> 0, nodes |-> [i \in 1..CACHED_SLOTS |-> EmptyNode], blocks |-> [i \in 1..MAX_HEIGHT |-> 0],
   nextkey |-> [i \in 1..MAX_HEIGHT |-> 0], ih |-> 0, file |-> <<0, 0>>, jblock |-> super.journal_block, jsize |-> super.journal_size,
   first |-> 0, transactions |-> 0, id |-> 0, table |-> <<>>, room |-> JOURNAL_ROOM, torn |-> {}, taint |-> FALSE]

\* The root was read: a tree of one node has it as its leaf too.
Rooted(r) ==
  IF ~r.ok \/ r.b.level >= MAX_HEIGHT THEN Result(r.d, FALSE)
  ELSE Result([r.d EXCEPT !.mem.root = r.b, !.mem.depth = r.b.level, !.mem.nodes[1] = IF r.b.level = 1 THEN r.b ELSE @], TRUE)

\* The super block may be in the journal; if that cannot be told it is the one of before.
ReadRoot(s, super) == Rooted(BlockRead(s.d, IF s.ok THEN s.b.root ELSE super.root))

MountAt(d, sblock, super) ==
  IF super.journal_block = 0 \/ super.journal_dev # 0 THEN ReadRoot(Result(d, FALSE), super)
  ELSE ReadRoot(BlockRead(IF super.journal_size \in PowersOfTwo THEN JournalInit(d) ELSE d, sblock), super)

\* A copy of the super block in the journal is not taken for it.
IsSuper(d, b) == Readable(d, b) /\ image.blocks[b].magic \in Magics
InPlace(d) == IsSuper(d, SUPER) /\ image.blocks[SUPER].journal_block > SUPER
Mounting(d, sblock, super) == IF super.version > 2 THEN Result(d, FALSE) ELSE MountAt([d EXCEPT !.mem = Fresh(super)], sblock, super)

ReiserMount(d) ==
  CASE InPlace(d) -> Mounting(d, SUPER, image.blocks[SUPER])
    [] ~InPlace(d) /\ IsSuper(d, OLD_SUPER) -> Mounting(Devread(d, SUPER), OLD_SUPER, image.blocks[OLD_SUPER])
    [] ~InPlace(d) /\ ~IsSuper(d, OLD_SUPER) /\ Readable(d, OLD_SUPER) /\ image.blocks[OLD_SUPER].magic = "before the journal" ->
         Mounting(Devread(d, SUPER), OLD_SUPER, [image.blocks[OLD_SUPER] EXCEPT !.journal_block = 0])
    [] OTHER -> Result(Devread(Devread(d, SUPER), OLD_SUPER), FALSE)

---------------------------------------------------------------------------
(* read_tree_node(): the levels from CACHED_SLOTS on share a buffer.       *)

Slot(depth) == Least(depth, CACHED_SLOTS)
Cached(d, nr, depth) == depth < CACHED_SLOTS /\ d.mem.blocks[depth] = nr

TakeNode(r, nr, depth) ==
  CASE ~r.ok -> Result(IF depth < CACHED_SLOTS THEN Torn(r.d, r.d.mem.torn \cup {depth}) ELSE r.d, FALSE)
    [] r.ok /\ r.b.level # depth -> Result(Failing([r.d EXCEPT !.mem.nodes[Slot(depth)] = r.b], "ERR_FSYS_CORRUPT"), FALSE)
    [] OTHER -> Result(Torn([r.d EXCEPT !.mem.nodes[Slot(depth)] = r.b, !.mem.blocks[depth] = nr], r.d.mem.torn \ {depth}), TRUE)

ReadTreeNode(d, nr, depth) == IF Cached(d, nr, depth) THEN Result(d, TRUE) ELSE TakeNode(BlockRead(d, nr), nr, depth)

NodeAt(d, depth) == IF depth = d.mem.depth THEN d.mem.root ELSE d.mem.nodes[Slot(depth)]
Leaf(d) == d.mem.nodes[1]

\* INFO->current_ih: an item of the leaf in memory, or the key behind the last.
Item(d) == IF d.mem.ih \in DOMAIN Leaf(d).items THEN Leaf(d).items[d.mem.ih] ELSE [dir |-> 99, obj |-> 99, off |-> 0, type |-> "end"]

RECURSIVE Ahead(_, _), Climb(_, _)

\* Down to the first leaf of the next child, from a node at `depth`.
Step(r, depth) == IF ~r.ok THEN r ELSE Ahead(r.d, depth)
Ahead(d, depth) ==
  LET node == NodeAt(d, depth)
      nr == d.mem.nextkey[depth]
  IN IF depth = 1 THEN Result([d EXCEPT !.mem.ih = 1], TRUE)
     ELSE Step(ReadTreeNode([d EXCEPT !.mem.nextkey[depth] = IF nr = Len(node.keys) THEN 0 ELSE nr + 1], node.children[nr + 1], depth - 1), depth - 1)

\* Up to a node that has a next child; one above the buffers is read again.
Climb(d, depth) ==
  CASE depth = d.mem.depth -> Result([d EXCEPT !.mem.ih = 0], TRUE)
    [] depth # d.mem.depth /\ d.mem.nextkey[depth + 1] = 0 -> Climb(d, depth + 1)
    [] OTHER -> IF depth + 1 = d.mem.depth \/ depth + 1 <= CACHED_SLOTS THEN Ahead(d, depth + 1)
                ELSE Step(ReadTreeNode(d, d.mem.blocks[depth + 1], depth + 1), depth + 1)

NextKey(d) == IF d.mem.ih # Len(Leaf(d).items) THEN Result([d EXCEPT !.mem.ih = @ + 1], TRUE) ELSE Climb(d, 1)

---------------------------------------------------------------------------
(* search_stat()                                                           *)

RECURSIVE Search(_, _, _)
Onward(r, depth, o) == IF r.ok THEN Search(r.d, depth, o) ELSE r

Search(d, depth, o) ==
  LET node == NodeAt(d, depth)
      i == Cardinality({k \in DOMAIN node.keys : node.keys[k] <= Key(o[1], o[2], 0)})
      stats == {k \in DOMAIN Leaf(d).items : Leaf(d).items[k].dir = o[1] /\ Leaf(d).items[k].obj = o[2] /\ Leaf(d).items[k].type = "stat"}
  IN CASE depth > 1 -> Onward(ReadTreeNode([d EXCEPT !.mem.nextkey[depth] = IF i = Len(node.keys) THEN 0 ELSE i + 1],
                                           node.children[i + 1], depth - 1), depth - 1, o)
       [] depth = 1 /\ stats # {} -> Result([d EXCEPT !.mem.ih = CHOOSE k \in stats : TRUE], TRUE)
       [] OTHER -> Result(Failing(d, "ERR_FSYS_CORRUPT"), FALSE)

SearchStat(d, o) == Search(d, d.mem.depth, o)

---------------------------------------------------------------------------
(* reiserfs_read()                                                         *)

RECURSIVE Items(_, _, _)

\* n units were taken from the item; the file goes on in the next.
Taken(d, n, len, bytes) ==
  IF n = len THEN [d |-> [d EXCEPT !.pos = @ + n], bytes |-> IF d.err # NoError THEN <<>> ELSE bytes]
  ELSE Items(NextKey([d EXCEPT !.pos = @ + n]).d, len - n, bytes)

BlocksOf(list, off, n) == [i \in 1..n |-> list[(off + i - 1) \div BLOCK_SIZE + 1]]
Units(list, off, n) == [i \in 1..n |-> image.blocks[BlocksOf(list, off, n)[i]][((off + i - 1) % BLOCK_SIZE) + 1]]
Noticed(d, bs) ==
  LET fails == {b \in bs : ~Readable(d, b)} IN IF fails = {} THEN d ELSE Devread(d, CHOOSE b \in fails : TRUE)

\* The blocks of data are not looked for in the journal.
OfItem(d, it, off, size, len, got) ==
  LET n == Least(size - off, len)
  IN CASE off \notin 0..size - 1 -> Items(NextKey(d).d, len, got)
       [] off \in 0..size - 1 /\ it.type = "direct" -> Taken(d, n, len, got \o Part(it.units, off, n))
       [] OTHER -> Taken(Noticed(d, ToSet(BlocksOf(it.blocks, off, n))), n, len, got \o Units(it.blocks, off, n))

Items(d, len, got) ==
  LET it == Item(d)
      off == d.pos - it.off + 1
  IN CASE d.err # NoError -> [d |-> d, bytes |-> <<>>]
       [] d.err = NoError /\ it.obj # d.mem.file[2] -> [d |-> d, bytes |-> got]
       [] d.err = NoError /\ it.obj = d.mem.file[2] /\ it.type = "direct" -> OfItem(d, it, off, Len(it.units), len, got)
       [] d.err = NoError /\ it.obj = d.mem.file[2] /\ it.type = "indirect" -> OfItem(d, it, off, Len(it.blocks) * BLOCK_SIZE, len, got)
       [] OTHER -> Items(NextKey(d).d, len, got)

\* An item that lies behind the position is not noticed.
AfreshOther(d) == Item(d).obj # d.mem.file[2]

\* From the item that was used last, unless it is another file's or lies behind.
Afresh(d) == Item(d).obj # d.mem.file[2] \/ Item(d).off > d.pos + 1
ReiserRead(d, len) == IF Afresh(d) THEN Items(NextKey(SearchStat(d, d.mem.file).d).d, len, <<>>) ELSE Items(d, len, <<>>)

---------------------------------------------------------------------------
(* reiserfs_dir()                                                          *)

RECURSIVE Component(_, _), Entries(_, _, _, _)

NextItem(r, w, names) ==
  CASE ~r.ok -> Ended(r.d, FALSE, names)
    [] r.ok /\ Item(r.d).obj # w.obj[2] -> IF names # {} THEN Ended(r.d, TRUE, names) ELSE NotFound(r.d, "ERR_FILE_NOT_FOUND", names)
    [] OTHER -> Entries(r.d, Item(r.d).entries, w, names)

Entries(d, list, w, names) ==
  CASE list = <<>> -> NextItem(NextKey(d), w, names)
    [] list # <<>> /\ ~list[1].visible -> Entries(d, Tail(list), w, names)
    [] list # <<>> /\ list[1].visible /\ w.path = <<"">> -> Entries(d, Tail(list), w, names \cup {list[1].name})
    [] list # <<>> /\ list[1].visible /\ w.path[1] = list[1].name ->
         Component(d, [w EXCEPT !.parent = w.obj, !.obj = list[1].obj, !.path = Tail(@)])
    [] OTHER -> Entries(d, Tail(list), w, names)

Follow(r, w) ==
  IF r.bytes = <<>> THEN NotFound(r.d, IF r.d.err = NoError THEN "ERR_FSYS_CORRUPT" ELSE r.d.err, {})
  ELSE Component(r.d, [w EXCEPT !.obj = IF r.bytes[1] = "/" THEN RootDir ELSE w.parent,
                                !.path = (IF r.bytes[1] = "/" THEN Tail(r.bytes) ELSE r.bytes) \o @])

Chase(d, w, size) ==
  CASE w.links > MAX_LINK_COUNT -> NotFound(d, "ERR_SYMLINK_LOOP", {})
    [] w.links <= MAX_LINK_COUNT /\ size + Len(w.path) > PATH_MAX - 1 -> NotFound([d EXCEPT !.max = size], "ERR_FILELENGTH", {})
    [] OTHER -> Follow(ReiserRead(NextKey([d EXCEPT !.max = size, !.pos = 0, !.mem.file = w.obj]).d, size), w)

Opened1(r) == Ended(r.d, r.ok, {})

AtStat(r, w) ==
  LET mode == Item(r.d).mode
      size == Item(r.d).size
  IN CASE ~r.ok -> Ended(r.d, FALSE, {})
       [] r.ok /\ mode = "link" -> Chase(r.d, [w EXCEPT !.links = @ + 1], size)
       [] r.ok /\ mode = "reg" /\ w.path = <<>> -> Opened1(NextKey([r.d EXCEPT !.pos = 0, !.max = size, !.mem.file = w.obj]))
       [] r.ok /\ mode = "dir" /\ w.path # <<>> -> NextItem(NextKey(r.d), w, {})
       [] OTHER -> NotFound(r.d, "ERR_BAD_FILETYPE", {})

Component(d, w) == AtStat(SearchStat(d, w.obj), w)

ReiserDir(d, path) == Component(d, [obj |-> RootDir, parent |-> <<0, 0>>, path |-> path, links |-> 0])

---------------------------------------------------------------------------

Mount == \E bad \in Faults : Mounted(bad, ReiserMount(Now(bad)))
Open == \E path \in image.paths, bad \in Faults : mem # None /\ Opened(path, bad, ReiserDir(Opening(bad), path))
List == \E path \in DOMAIN image.dirs, bad \in Faults :
          mem # None /\ Listed(path, bad, ReiserDir(Now(bad), Append(path, "")))
Read == \E len \in Lengths, bad \in Faults :
          file # None /\ Delivered(len, bad, ReiserRead(Clamped(bad), Length(len)))
Reposition == \E pos \in image.starts : Seek(pos)

Next == Mount \/ Open \/ List \/ Read \/ Reposition
Spec == DriverInit /\ [][Next]_dvars
===============================================================================
