------------------------------- MODULE UfsDriver -------------------------------
(***************************************************************************)
(* filesys/fsys_ffs.c and filesys/fsys_ufs2.c, which differ in where the   *)
(* superblock is looked for and in the width of a block number.  A file    *)
(* has direct blocks and one indirect block, of which a window of          *)
(* MAPBUF_LEN numbers is in memory: `window`, from the number `from` on,   *)
(* of the indirect block `mapblock`.                                       *)
(***************************************************************************)
EXTENDS FileDriver

CONSTANTS BSIZE,        \* units of a file in a block
          NDADDR,       \* direct blocks of an inode
          NINDIR,       \* block numbers in a block
          MAPBUF_LEN    \* block numbers that fit into MAPBUF

ROOTINO == 2

Ended(d, ok, names) == [d |-> d, ok |-> ok, names |-> names]
NotFound(d, code, names) == Ended(Failing(d, code), FALSE, names)

NoMap == [mapblock |-> -1, offset |-> -1, bsize |-> -1, window |-> <<>>]

\* The block with the superblock p has been read.
MountedWith(d, p) ==
  [d |-> [d EXCEPT !.mem = [super |-> p, inode |-> None, map |-> NoMap, dirblock |-> <<>>]], ok |-> TRUE]

SBLOCK == 2     \* at 8K

FfsMount(d) ==
  IF Readable(d, SBLOCK) /\ image.blocks[SBLOCK].magic = "FS_MAGIC" THEN MountedWith(d, image.blocks[SBLOCK])
  ELSE [d |-> Devread(d, SBLOCK), ok |-> FALSE]

SBLOCKSEARCH == <<3, 2, 0, 1>>   \* 64K, 8K, none, 256K

\* ufs2_mount() tries the places of SBLOCKSEARCH one after the other; what one
\* of them cannot be read for stays in errnum.
RECURSIVE Ufs2Try(_, _)
Ufs2Try(d, places) ==
  CASE places = <<>> -> [d |-> d, ok |-> FALSE]
    [] places # <<>> /\ Readable(d, Head(places)) /\ image.blocks[Head(places)].magic = "FS_UFS2_MAGIC" ->
         MountedWith(d, image.blocks[Head(places)])
    [] OTHER -> Ufs2Try(IF Head(places) \in DOMAIN image.blocks THEN Devread(d, Head(places)) ELSE d, Tail(places))

---------------------------------------------------------------------------
(* block_map(): [d, map]                                                   *)

\* The window for the file's block number n behind the direct ones.  The offset
\* counts ints, of which ufs2's numbers have two; the lengths are compared in
\* bytes.
WindowAt(n) ==
  LET bytes == MAPBUF_LEN * 4 * image.ints
      blockBytes == NINDIR * 4 * image.ints
  IN CASE MAPBUF_LEN >= NINDIR -> [offset |-> 0, bsize |-> blockBytes]
       [] MAPBUF_LEN < NINDIR /\ n + bytes <= blockBytes -> [offset |-> n, bsize |-> bytes]
       [] OTHER -> [offset |-> (blockBytes - bytes) \div 4, bsize |-> bytes]

\* The numbers that the window has, the one at an odd offset of ufs2 being none.
NumbersFrom(block, offset) ==
  [i \in 0 .. Least(MAPBUF_LEN, NINDIR) - 1 |->
     LET at == offset + i * image.ints
     IN IF at % image.ints = 0 /\ at \div image.ints < NINDIR THEN image.blocks[block][at \div image.ints + 1] ELSE 0]

\* A window is loaded if it is of another indirect block, or if the number of
\* the indirect block lies in the window's range.
LoadMap(d, bnum, n) ==
  LET w == WindowAt(n)
  IN CASE ~(bnum # d.mem.map.mapblock \/ bnum \in d.mem.map.offset .. d.mem.map.offset + d.mem.map.bsize) -> [d |-> d, ok |-> TRUE]
       [] ~Readable(d, bnum) -> [d |-> [Failing(d, "ERR_FSYS_CORRUPT") EXCEPT !.mem.map = NoMap], ok |-> FALSE]
       [] OTHER -> [d |-> [d EXCEPT !.mem.map = [mapblock |-> bnum, offset |-> w.offset, bsize |-> w.bsize,
                                                 window |-> NumbersFrom(bnum, w.offset)]], ok |-> TRUE]

\* Outside the window lies whatever memory has.
InWindow(l, n) ==
  LET at == n - l.d.mem.map.offset
  IN CASE ~l.ok -> [d |-> l.d, map |-> -1]
       [] l.ok /\ at \in DOMAIN l.d.mem.map.window -> [d |-> l.d, map |-> l.d.mem.map.window[at]]
       [] OTHER -> [d |-> l.d, map |-> 0]

BlockMap(d, file_block) ==
  LET n == (file_block - NDADDR) % NINDIR
  IN IF file_block < NDADDR THEN [d |-> d, map |-> d.mem.inode.db[file_block + 1]]
     ELSE InWindow(LoadMap(d, d.mem.inode.ib, n), n)

---------------------------------------------------------------------------
(* ffs_read(): an error, also one from before, ends the loop               *)

RECURSIVE ReadBlocks(_, _, _)
ReadMapped(m, len, got) ==
  LET off == m.d.pos % BSIZE
      size == Least(BSIZE - off, len)
      bytes == IF Readable(m.d, m.map) THEN Part(image.blocks[m.map], off, size) ELSE Junk(size)
  IN IF m.map < 0 THEN [d |-> m.d, bytes |-> <<>>]
     ELSE ReadBlocks([Devread(m.d, m.map) EXCEPT !.pos = @ + size], len - size, got \o bytes)

ReadBlocks(d, len, got) ==
  IF len > 0 /\ d.err = NoError THEN ReadMapped(BlockMap(d, d.pos \div BSIZE), len, got)
  ELSE [d |-> d, bytes |-> IF d.err = NoError THEN got ELSE <<>>]

UfsRead(d, len) == ReadBlocks(d, len, <<>>)

---------------------------------------------------------------------------
(* ffs_dir()                                                               *)

RECURSIVE LookUp(_, _, _), Scan(_, _, _, _)

\* The entry at the place loc of the directory's block in memory.
AtEntry(d, path, loc, names) ==
  LET dp == d.mem.dirblock[(loc % BSIZE) + 1]
  IN CASE dp.ino # 0 /\ path = <<"">> -> Scan(d, path, loc + dp.reclen, names \cup {dp.name})
       [] dp.ino # 0 /\ dp.name = path[1] -> LookUp(d, dp.ino, Tail(path))
       [] OTHER -> Scan(d, path, loc + dp.reclen, names)

ScanBlock(m, path, loc, names) ==
  IF m.map < 0 \/ ~Readable(m.d, m.map) THEN NotFound(m.d, "ERR_FSYS_CORRUPT", names)
  ELSE AtEntry([m.d EXCEPT !.mem.dirblock = image.blocks[m.map]], path, loc, names)

\* A block is read where the first entry begins with it.
Scan(d, path, loc, names) ==
  CASE loc < d.mem.inode.size /\ loc % BSIZE = 0 -> ScanBlock(BlockMap(d, loc \div BSIZE), path, loc, names)
    [] loc < d.mem.inode.size /\ loc % BSIZE # 0 -> AtEntry(d, path, loc, names)
    [] loc >= d.mem.inode.size /\ path = <<"">> /\ names # {} -> Ended(d, TRUE, names)
    [] OTHER -> NotFound(d, "ERR_FILE_NOT_FOUND", {})

AtInode(d, path) ==
  LET inode == d.mem.inode
  IN CASE inode.mode = "reg" /\ path = <<>> -> Ended([d EXCEPT !.max = inode.size], TRUE, {})
       [] inode.mode = "dir" /\ path # <<>> /\ inode.size # 0 -> Scan(d, path, 0, {})
       [] OTHER -> NotFound(d, "ERR_BAD_FILETYPE", {})

LookUp(d, ino, path) ==
  LET blk == d.mem.super.inodes + ino \div d.mem.super.inopb
  IN IF ~Readable(d, blk) THEN Ended(Devread(d, blk), FALSE, {})
     ELSE AtInode([d EXCEPT !.mem.inode = image.blocks[blk][(ino % d.mem.super.inopb) + 1]], path)

---------------------------------------------------------------------------

Mount == \E bad \in Faults :
           Mounted(bad, IF image.ints = 1 THEN FfsMount(Now(bad)) ELSE Ufs2Try(Now(bad), SBLOCKSEARCH))
Open == \E path \in image.paths, bad \in Faults : mem # None /\ Opened(path, bad, LookUp(Opening(bad), ROOTINO, path))
List == \E path \in DOMAIN image.dirs, bad \in Faults :
          mem # None /\ Listed(path, bad, LookUp(Now(bad), ROOTINO, Append(path, "")))
Read == \E len \in Lengths, bad \in Faults :
          file # None /\ Delivered(len, bad, UfsRead(Clamped(bad), Length(len)))
Reposition == \E pos \in image.starts : Seek(pos)

Next == Mount \/ Open \/ List \/ Read \/ Reposition
Spec == DriverInit /\ [][Next]_dvars
===============================================================================
