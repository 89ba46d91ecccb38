------------------------------- MODULE JfsDriver -------------------------------
(***************************************************************************)
(* filesys/fsys_jfs.c.  In memory are the inode of the file set, one other *)
(* inode, a page of a tree of extents and a page of a directory's tree.    *)
(* What devread() returns is not looked at after the mount: where a read   *)
(* fails the driver goes on with what the buffer held, and errnum tells.   *)
(***************************************************************************)
EXTENDS FileDriver

CONSTANTS BSIZE,            \* units of a file in a block
          INOSPERIAG,       \* inodes in an allocation group
          INOSPEREXT,       \* inodes in an extent of inodes
          MAX_LINK_COUNT,
          JFS_PATH_MAX      \* names that fit into linkbuf

ROOT_I == 2
Huge == MAXINT * MAXINT     \* (1 << 62) - 1

Ended(d, ok, names) == [d |-> d, ok |-> ok, names |-> names]
NotFound(d, code, names) == Ended(Failing(d, code), FALSE, names)

\* What memory is taken for before anything was read to it.
NoPage == [leaf |-> TRUE, xads |-> <<>>, next |-> 0]
NoInode == [mode |-> "none", size |-> 0, tree |-> NoPage]

JfsMount(d) ==
  IF Readable(d, 64) /\ image.blocks[64].magic = "JFS_MAGIC" /\ Readable(d, 16)
  THEN [d |-> [d EXCEPT !.mem = [fileset |-> image.blocks[16], inode |-> NoInode, xtpage |-> NoPage, dtpage |-> NoPage]],
        ok |-> TRUE]
  ELSE [d |-> Devread(Devread(d, 64), 16), ok |-> FALSE]

---------------------------------------------------------------------------
(* first_extent() and next_extent(): [d, c], where c is the list of the    *)
(* extents, the count x that is compared with their number and the place a *)
(* of the next one.                                                        *)

Page(d, address) == [Devread(d, address) EXCEPT !.mem.xtpage = Loaded(d, address, @)]

RECURSIVE Pages(_)
Pages(d) ==
  IF d.mem.xtpage.leaf THEN [d |-> d, c |-> [xads |-> d.mem.xtpage.xads, x |-> 1, a |-> 1]]
  ELSE Pages(Page(d, d.mem.xtpage.xads[1].address))

FirstExtent(d, di) ==
  IF di.tree.leaf THEN [d |-> d, c |-> [xads |-> di.tree.xads, x |-> 1, a |-> 1]]
  ELSE Pages(Page(d, di.tree.xads[1].address))

\* The list ends: c is None.  With a next page the place is one ahead of the
\* count, and the page may be one of another tree.
Turned(d) == [d |-> d, c |-> [xads |-> d.mem.xtpage.xads, x |-> 1, a |-> 2]]

NextExtent(d, c) ==
  CASE c.x + 1 <= Len(c.xads) -> [d |-> d, c |-> [c EXCEPT !.x = @ + 1, !.a = @ + 1]]
    [] c.x + 1 > Len(c.xads) /\ d.mem.xtpage.next # 0 -> Turned(Page(d, d.mem.xtpage.next))
    [] OTHER -> [d |-> d, c |-> None]

Xad(c) == IF c.a \in DOMAIN c.xads THEN c.xads[c.a] ELSE [offset |-> 0, length |-> 0, address |-> 0]
IsInXt(key, xad) == key \in xad.offset .. xad.offset + xad.length - 1

---------------------------------------------------------------------------
(* di_read(): an inode that is not found leaves the one that was there.    *)

RECURSIVE InodeAt(_, _)

\* The page of the group at b, then the inode in the extent that it names.
FromGroup(d, b, inum) ==
  LET within == inum % INOSPERIAG
      pxd == image.blocks[b][within \div INOSPEREXT + 1]
  IN CASE ~Readable(d, b) -> Devread(d, b)
       [] Readable(d, b) /\ ~Readable(d, pxd) -> Devread(d, pxd)
       [] OTHER -> [d EXCEPT !.mem.inode = image.blocks[pxd][(within % INOSPEREXT) + 1]]

InodeAt(e, inum) ==
  LET key == inum \div INOSPERIAG + 1
  IN CASE e.c = None -> e.d
       [] e.c # None /\ IsInXt(key, Xad(e.c)) -> FromGroup(e.d, Xad(e.c).address + key - Xad(e.c).offset, inum)
       [] OTHER -> InodeAt(NextExtent(e.d, e.c), inum)

DiRead(d, inum) == InodeAt(FirstExtent(d, d.mem.fileset), inum)

---------------------------------------------------------------------------
(* jfs_read()                                                              *)

\* n units from the offset off of the blocks from `address` on.
BlockAt(address, off) == address + off \div BSIZE
Units(d, address, off, n) ==
  [i \in 1..n |-> IF Readable(d, BlockAt(address, off + i - 1)) THEN image.blocks[BlockAt(address, off + i - 1)][((off + i - 1) % BSIZE) + 1] ELSE -1]
Noticed(d, address, off, n) ==
  LET fails == {b \in {BlockAt(address, off + i) : i \in 0..n - 1} : ~Readable(d, b)}
  IN IF fails = {} THEN d ELSE Devread(d, CHOOSE b \in fails : TRUE)

\* The loop over the extents up to the position `end`; a gap behind the extent
\* before is read as zeros.
RECURSIVE Extents(_, _, _, _)
Extents(e, end, endofprev, got) ==
  LET xad == Xad(e.c)
      pos == e.d.pos
      off == pos - xad.offset * BSIZE
      toread == IF (xad.offset + xad.length) * BSIZE >= end THEN end - pos ELSE (xad.offset + xad.length) * BSIZE - pos
      zeros == IF xad.offset * BSIZE >= end THEN end - pos ELSE (xad.offset - endofprev) * BSIZE
  IN CASE e.c = None \/ pos >= end -> [d |-> e.d, bytes |-> got]
       [] e.c # None /\ pos < end /\ IsInXt(pos \div BSIZE, xad) ->
            Extents(NextExtent([Noticed(e.d, xad.address, off, toread) EXCEPT !.pos = @ + toread], e.c),
                    end, xad.offset + xad.length, got \o Units(e.d, xad.address, off, toread))
       [] e.c # None /\ pos < end /\ ~IsInXt(pos \div BSIZE, xad) /\ xad.offset > endofprev ->
            Extents([e EXCEPT !.d.pos = @ + zeros], end, endofprev, got \o [i \in 1..zeros |-> 0])
       [] OTHER -> Extents(NextExtent(e.d, e.c), end, xad.offset + xad.length, got)

JfsRead(d, len) == Extents(FirstExtent(d, d.mem.inode), d.pos + len, Huge, <<>>)

---------------------------------------------------------------------------
(* jfs_dir().  w: the inode looked up next, the directory before it, what  *)
(* is left of the path, the links followed.  A directory's entries are     *)
(* followed by ".." and ".".                                               *)

RECURSIVE LookUp(_, _), Entries(_, _, _, _), DtPages(_)

DtPage(d, address) == [Devread(d, address) EXCEPT !.mem.dtpage = Loaded(d, address, @)]

DtPages(d) == IF d.mem.dtpage.leaf THEN d ELSE DtPages(DtPage(d, d.mem.dtpage.slots[1].address))

Always(inode) == <<[name |-> "..", inumber |-> inode.parent], [name |-> ".", inumber |-> inode.number]>>

\* The entries of the list one after the other; behind the last one of a page
\* come those of the next page.
OfNextPage(d, w, names) == Entries(d, w, d.mem.dtpage.slots, names)

MoreEntries(d, w, names) ==
  LET pages == ~d.mem.inode.tree.leaf
  IN IF pages /\ d.mem.dtpage.next # 0 THEN OfNextPage(DtPage(d, d.mem.dtpage.next), w, names)
     ELSE Entries(d, [w EXCEPT !.always = TRUE], Always(d.mem.inode), names)

Entries(d, w, list, names) ==
  CASE list = <<>> /\ ~w.always -> MoreEntries(d, w, names)
    [] list = <<>> /\ w.always -> IF names # {} THEN Ended(d, TRUE, names) ELSE NotFound(d, "ERR_FILE_NOT_FOUND", names)
    [] list # <<>> /\ w.path = <<"">> -> Entries(d, w, Tail(list), names \cup {list[1].name})
    [] list # <<>> /\ w.path[1] = list[1].name ->
         LookUp(d, [w EXCEPT !.parent = w.inum, !.inum = list[1].inumber, !.path = Tail(@), !.always = FALSE])
    [] OTHER -> Entries(d, w, Tail(list), names)

InPages(d, w) == Entries(d, w, d.mem.dtpage.slots, {})

FirstEntries(d, w) ==
  IF d.mem.inode.tree.leaf THEN Entries(d, w, d.mem.inode.tree.slots, {})
  ELSE InPages(DtPages(DtPage(d, d.mem.inode.tree.slots[1].address)), w)

\* The text of a link, then what is left of the path.
Follow(r, w) ==
  LookUp(r.d, [w EXCEPT !.inum = IF r.bytes[1] = "/" THEN ROOT_I ELSE w.parent,
                        !.path = (IF r.bytes[1] = "/" THEN Tail(r.bytes) ELSE r.bytes) \o @])

Chase(d, w) ==
  CASE w.links > MAX_LINK_COUNT -> NotFound(d, "ERR_SYMLINK_LOOP", {})
    [] w.links <= MAX_LINK_COUNT /\ d.mem.inode.fast -> Follow([d |-> d, bytes |-> d.mem.inode.link], w)
    [] OTHER -> IF d.mem.inode.size >= JFS_PATH_MAX - 1 THEN NotFound(d, "ERR_FILELENGTH", {})
                ELSE Follow(JfsRead([d EXCEPT !.pos = 0, !.max = d.mem.inode.size], d.mem.inode.size), w)

AtInode(d, w) ==
  LET mode == d.mem.inode.mode
  IN CASE mode = "link" -> Chase(d, [w EXCEPT !.links = @ + 1])
       [] mode = "reg" /\ w.path = <<>> -> Ended([d EXCEPT !.pos = 0, !.max = d.mem.inode.size], TRUE, {})
       [] mode = "dir" /\ w.path # <<>> -> FirstEntries(d, w)
       [] OTHER -> NotFound(d, "ERR_BAD_FILETYPE", {})

LookUp(d, w) == AtInode(DiRead(d, w.inum), w)

JfsDir(d, path) == LookUp(d, [inum |-> ROOT_I, parent |-> ROOT_I, path |-> path, links |-> 0, always |-> FALSE])

---------------------------------------------------------------------------

Mount == \E bad \in Faults : Mounted(bad, JfsMount(Now(bad)))
Open == \E path \in image.paths, bad \in Faults : mem # None /\ Opened(path, bad, JfsDir(Opening(bad), path))
List == \E path \in DOMAIN image.dirs, bad \in Faults :
          mem # None /\ Listed(path, bad, JfsDir(Now(bad), Append(path, "")))
Read == \E len \in Lengths, bad \in Faults :
          file # None /\ Delivered(len, bad, JfsRead(Clamped(bad), Length(len)))
Reposition == \E pos \in image.starts : Seek(pos)

Next == Mount \/ Open \/ List \/ Read \/ Reposition
Spec == DriverInit /\ [][Next]_dvars
===============================================================================
