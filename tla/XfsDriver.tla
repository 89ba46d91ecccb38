------------------------------- MODULE XfsDriver -------------------------------
(***************************************************************************)
(* filesys/fsys_xfs.c.  In memory is one inode; the extents of a file come *)
(* from it or from the leaves of a B-tree, one after the other, from the   *)
(* first for every call.  A directory is in its inode, in one block with   *)
(* its index, or in blocks whose entries the leaves of an index count.     *)
(* As in fsys_jfs.c, what devread() returns is looked at in the mount only.*)
(***************************************************************************)
EXTENDS FileDriver

CONSTANTS BSIZE, DIRBSIZE,  \* units in a block, and in a block of a directory
          AGBLOCKS,         \* blocks in an allocation group
          AGSPAN,           \* the power of two block numbers step by for a group
          INOPB,            \* inodes in a block
          LINK_MAX,         \* names that fit into a block with the end of the text
          LEAFBLK,          \* (1 << 35) >> blklog: where a directory's index begins
          MAX_LINK_COUNT

NoInode == [mode |-> "none", size |-> 0, format |-> "local", entries |-> <<>>, parent |-> 0]

Ended(d, ok, names) == [d |-> d, ok |-> ok, names |-> names]
NotFound(d, code, names) == Ended(Failing(d, code), FALSE, names)

\* agb2daddr() and fsb2daddr(): the numbers of groups and blocks have gaps.
Agb(agno, agbno) == agno * AGBLOCKS + agbno
Fsb(fsbno) == Agb(fsbno \div AGSPAN, fsbno % AGSPAN)

XfsMount(d) ==
  IF Readable(d, 0) /\ image.blocks[0].magic = "XFS_SB_MAGIC" /\ image.blocks[0].version = "XFS_SB_VERSION_4"
  THEN [d |-> [d EXCEPT !.mem = [rootino |-> image.blocks[0].rootino, inode |-> NoInode]], ok |-> TRUE]
  ELSE [d |-> Devread(d, 0), ok |-> FALSE]

\* di_read(): where it fails the inode is the one that was there.
InodeFrom(d, b, offset) == [Devread(d, b) EXCEPT !.mem.inode = IF Readable(d, b) THEN image.blocks[b][offset + 1] ELSE @]
DiRead(d, ino) ==
  InodeFrom(d, Agb(ino \div (AGSPAN * INOPB), (ino % (AGSPAN * INOPB)) \div INOPB), ino % INOPB)

---------------------------------------------------------------------------
(* init_extents() and next_extent(): what is left of a list and the page   *)
(* that comes after it.                                                    *)

RECURSIVE Leftmost(_)
Leftmost(b) ==
  IF image.blocks[b].level = 0 THEN [xads |-> image.blocks[b].xads, next |-> Fsb(image.blocks[b].rightsib)]
  ELSE Leftmost(Fsb(image.blocks[b].ptr))

InitExtents(inode) ==
  IF inode.format = "btree" THEN Leftmost(Fsb(inode.ptr)) ELSE [xads |-> inode.xads, next |-> 0]

AtExtent(c) ==
  IF c.xads = <<>> /\ c.next # 0
  THEN [xads |-> image.blocks[c.next].xads, next |-> Fsb(image.blocks[c.next].rightsib)]
  ELSE c

NextExtent(c) == [c EXCEPT !.xads = Tail(@)]
IsInXt(key, xad) == key \in xad.offset .. xad.offset + xad.len - 1

---------------------------------------------------------------------------
(* xfs_read().  The extent behind a gap is passed over once the gap has    *)
(* been read as zeros.                                                     *)

BlockAt(address, off) == address + off \div BSIZE
Units(d, address, off, n) ==
  [i \in 1..n |-> IF Readable(d, BlockAt(address, off + i - 1)) THEN image.blocks[BlockAt(address, off + i - 1)][((off + i - 1) % BSIZE) + 1] ELSE -1]
Noticed(d, address, off, n) ==
  LET fails == {b \in {BlockAt(address, off + i) : i \in 0..n - 1} : ~Readable(d, b)}
  IN IF fails = {} THEN d ELSE Devread(d, CHOOSE b \in fails : TRUE)

RECURSIVE Extents(_, _, _, _, _)
Extents(d, c, end, endofprev, got) ==
  LET xad == c.xads[1]
      off == d.pos - xad.offset * BSIZE
      toread == IF (xad.offset + xad.len) * BSIZE >= end THEN end - d.pos ELSE (xad.offset + xad.len) * BSIZE - d.pos
      zeros == IF xad.offset * BSIZE >= end THEN end - d.pos ELSE (xad.offset - endofprev) * BSIZE
  IN CASE d.pos >= end \/ c.xads = <<>> -> [d |-> d, bytes |-> got]
       [] d.pos < end /\ c.xads # <<>> /\ IsInXt(d.pos \div BSIZE, xad) ->
            Extents([Noticed(d, Fsb(xad.start), off, toread) EXCEPT !.pos = @ + toread], AtExtent(NextExtent(c)), end,
                    xad.offset + xad.len, got \o Units(d, Fsb(xad.start), off, toread))
       [] d.pos < end /\ c.xads # <<>> /\ ~IsInXt(d.pos \div BSIZE, xad) /\ xad.offset > endofprev ->
            Extents([d EXCEPT !.pos = @ + zeros], AtExtent(NextExtent(c)), end, endofprev, got \o [i \in 1..zeros |-> 0])
       [] OTHER -> Extents(d, AtExtent(NextExtent(c)), end, xad.offset + xad.len, got)

XfsRead(d, len) ==
  IF d.mem.inode.format = "local"
  THEN [d |-> [d EXCEPT !.pos = @ + len], bytes |-> Part(d.mem.inode.link, d.pos, len)]
  ELSE Extents(d, AtExtent(InitExtents(d.mem.inode)), d.pos + len, MAXINT, <<>>)

---------------------------------------------------------------------------
(* xfs_dabread(), first_dentry() and next_dentry().  s: the entries that   *)
(* are left according to the index, and its next leaf.                     *)

RECURSIVE DaBlock(_, _), FirstLeaf(_, _)
DaBlock(c, dablk) ==
  IF IsInXt(dablk, c.xads[1]) THEN image.blocks[Fsb(c.xads[1].start + dablk - c.xads[1].offset)]
  ELSE DaBlock(AtExtent(NextExtent(c)), dablk)

Leaf(d, dablk) == DaBlock(AtExtent(InitExtents(d.mem.inode)), dablk)

Counted(leaf) == [left |-> leaf.count - leaf.stale, forw |-> leaf.forw]

FirstLeaf(d, dablk) ==
  IF Leaf(d, dablk).kind \in {"LEAF1", "LEAFN"} THEN Counted(Leaf(d, dablk)) ELSE FirstLeaf(d, Leaf(d, dablk).before)

RECURSIVE LookUp(_, _), Entry(_, _, _, _), Local(_, _, _, _)

\* The name of the entry e against that of the path; `rest` would look at the next.
Enter(d, e, w) ==
  LookUp(d, [w EXCEPT !.parent = w.inum, !.inum = IF e.inumber = 0 THEN @ ELSE e.inumber, !.path = Tail(@)])

NoMore(d, names) == IF names # {} THEN Ended(d, TRUE, names) ELSE NotFound(d, "ERR_FILE_NOT_FOUND", names)

\* The entry that was read; behind it is the rest.
Matched(r, s, w, names) ==
  CASE "free" \in DOMAIN r.bytes[1] -> Entry([r.d EXCEPT !.pos = @ + r.bytes[1].free - 1], s, w, names)
    [] "free" \notin DOMAIN r.bytes[1] /\ w.path = <<"">> -> Entry(r.d, [s EXCEPT !.left = @ - 1, !.next = TRUE], w, names \cup {r.bytes[1].name})
    [] "free" \notin DOMAIN r.bytes[1] /\ w.path[1] = r.bytes[1].name -> Enter(r.d, r.bytes[1], w)
    [] OTHER -> Entry(r.d, [s EXCEPT !.left = @ - 1, !.next = TRUE], w, names)

\* Behind the last unit of a block comes the header of the next.
SkipHeader(d) == IF d.pos % DIRBSIZE = 0 THEN [d EXCEPT !.pos = @ + 1] ELSE d

\* s.next: an entry was met, and the count is looked at.
Entry(d, s, w, names) ==
  CASE s.next /\ s.left <= 0 /\ s.forw = 0 -> NoMore(d, names)
    [] s.next /\ s.left <= 0 /\ s.forw # 0 -> Entry(d, Counted(Leaf(d, s.forw)) @@ [next |-> FALSE], w, names)
    [] OTHER -> Matched(XfsRead(SkipHeader(d), 1), [s EXCEPT !.next = FALSE], w, names)

\* A directory in its inode.
Local(d, list, w, names) ==
  CASE list = <<>> -> NoMore(d, names)
    [] list # <<>> /\ w.path = <<"">> -> Local(d, Tail(list), w, names \cup {list[1].name})
    [] list # <<>> /\ w.path[1] = list[1].name -> Enter(d, list[1], w)
    [] OTHER -> Local(d, Tail(list), w, names)

Always(inode) == <<[name |-> ".", inumber |-> 0], [name |-> "..", inumber |-> inode.parent]>>

\* The first unit tells whether the index is at the end of this block, and then
\* its tail has the count.
OfBlock(r) == [left |-> r.bytes[1].count - r.bytes[1].stale, forw |-> 0]
Index(r) ==
  IF r.bytes[1].magic = "XFS_DIR2_BLOCK_MAGIC" THEN OfBlock(XfsRead([r.d EXCEPT !.pos = DIRBSIZE - 1], 1))
  ELSE FirstLeaf(r.d, LEAFBLK)

FirstDentry(d, w) ==
  IF d.mem.inode.format = "local" THEN Local(d, Always(d.mem.inode) \o d.mem.inode.entries, w, {})
  ELSE Entry([d EXCEPT !.pos = 1], Index(XfsRead([d EXCEPT !.pos = 0], 1)) @@ [next |-> TRUE], w, {})

---------------------------------------------------------------------------
(* xfs_dir()                                                               *)

Follow(r, w) ==
  LookUp(r.d, [w EXCEPT !.inum = IF r.bytes[1] = "/" THEN r.d.mem.rootino ELSE w.parent,
                        !.path = (IF r.bytes[1] = "/" THEN Tail(r.bytes) ELSE r.bytes) \o @])

Chase(d, w) ==
  CASE w.links > MAX_LINK_COUNT -> NotFound(d, "ERR_SYMLINK_LOOP", {})
    [] w.links <= MAX_LINK_COUNT /\ d.mem.inode.size >= LINK_MAX - 1 -> NotFound(d, "ERR_FILELENGTH", {})
    [] OTHER -> Follow(XfsRead([d EXCEPT !.pos = 0, !.max = d.mem.inode.size], d.mem.inode.size), w)

AtInode(d, w) ==
  LET mode == d.mem.inode.mode
  IN CASE mode = "link" -> Chase(d, [w EXCEPT !.links = @ + 1])
       [] mode = "reg" /\ w.path = <<>> -> Ended([d EXCEPT !.pos = 0, !.max = d.mem.inode.size], TRUE, {})
       [] mode = "dir" /\ w.path # <<>> -> FirstDentry(d, w)
       [] OTHER -> NotFound(d, "ERR_BAD_FILETYPE", {})

LookUp(d, w) == AtInode(DiRead(d, w.inum), w)

XfsDir(d, path) == LookUp(d, [inum |-> d.mem.rootino, parent |-> d.mem.rootino, path |-> path, links |-> 0])

---------------------------------------------------------------------------

Mount == \E bad \in Faults : Mounted(bad, XfsMount(Now(bad)))
Open == \E path \in image.paths, bad \in Faults : mem # None /\ Opened(path, bad, XfsDir(Opening(bad), path))
List == \E path \in DOMAIN image.dirs, bad \in Faults :
          mem # None /\ Listed(path, bad, XfsDir(Now(bad), Append(path, "")))
Read == \E len \in Lengths, bad \in Faults :
          file # None /\ Delivered(len, bad, XfsRead(Clamped(bad), Length(len)))
Reposition == \E pos \in image.starts : Seek(pos)

Next == Mount \/ Open \/ List \/ Read \/ Reposition
Spec == DriverInit /\ [][Next]_dvars
===============================================================================
