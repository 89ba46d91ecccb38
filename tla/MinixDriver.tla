------------------------------ MODULE MinixDriver ------------------------------
(***************************************************************************)
(* filesys/fsys_minix.c.  In memory are one inode and two blocks: `data1`  *)
(* with the table that mapblock1 names (1 or 2), `data2` with the second   *)
(* table of a doubly indirect block, which lies in the block mapblock2, or *)
(* with directory entries.  A zone number of 0 is not taken for a hole.    *)
(***************************************************************************)
EXTENDS FileDriver

CONSTANTS BLOCK_SIZE,       \* units of a file in a block
          DIRECT,           \* zone numbers in an inode, without the two indirect ones
          ADDR_PER_BLOCK,
          INODES_PER_BLOCK,
          MAX_LINK_COUNT,
          PATH_MAX          \* names that fit into linkbuf

ROOT_INO == 1

Ended(d, ok, names) == [d |-> d, ok |-> ok, names |-> names]
NotFound(d, code, names) == Ended(Failing(d, code), FALSE, names)

MinixMount(d) ==
  IF Readable(d, 1) /\ image.blocks[1].magic \in {"MINIX_SUPER_MAGIC", "MINIX_SUPER_MAGIC2"}
  THEN [d |-> [d EXCEPT !.mem = [super |-> image.blocks[1], inode |-> None, mapblock1 |-> -1, mapblock2 |-> -1,
                                 data1 |-> <<>>, data2 |-> <<>>]],
        ok |-> TRUE]
  ELSE [d |-> Devread(d, 1), ok |-> FALSE]

---------------------------------------------------------------------------
(* minix_block_map(): [d, map], map is -1 if that cannot be told           *)

Unmapped(d) == [d |-> Failing(d, "ERR_FSYS_CORRUPT"), map |-> -1]

\* What a buffer may hold after a read that failed.
Torn == [i \in 1..ADDR_PER_BLOCK |-> 0]

\* The table of i_zone[DIRECT] or of the next one is in DATABLOCK1 afterwards,
\* or the error is set.
Table1(d, tag) ==
  LET zone == d.mem.inode.zone[DIRECT + tag]
  IN CASE zone = 0 -> Unmapped(d)
       [] zone # 0 /\ d.mem.mapblock1 = tag -> [d |-> d, map |-> zone]
       [] zone # 0 /\ d.mem.mapblock1 # tag /\ ~Readable(d, zone) -> Unmapped([d EXCEPT !.mem.data1 = Torn])
       [] OTHER -> [d |-> [d EXCEPT !.mem.mapblock1 = tag, !.mem.data1 = image.blocks[zone]], map |-> zone]

Table2(d, zone) ==
  CASE zone = 0 -> Unmapped(d)
    [] zone # 0 /\ d.mem.mapblock2 = zone -> [d |-> d, map |-> zone]
    [] zone # 0 /\ d.mem.mapblock2 # zone /\ ~Readable(d, zone) -> Unmapped([d EXCEPT !.mem.data2 = Torn])
    [] OTHER -> [d |-> [d EXCEPT !.mem.mapblock2 = zone, !.mem.data2 = image.blocks[zone]], map |-> zone]

InTable2(m, logical) ==
  IF m.map < 0 THEN m ELSE [m EXCEPT !.map = m.d.mem.data2[(logical % ADDR_PER_BLOCK) + 1]]

InTable1(m, tag, logical) ==
  CASE m.map < 0 -> m
    [] m.map >= 0 /\ tag = 1 -> [m EXCEPT !.map = m.d.mem.data1[logical + 1]]
    [] m.map >= 0 /\ tag = 2 ->
         InTable2(Table2(m.d, m.d.mem.data1[(logical \div ADDR_PER_BLOCK) + 1]), logical)

BlockMap(d, logical) ==
  LET tag == IF logical < DIRECT + ADDR_PER_BLOCK THEN 1 ELSE 2
  IN IF logical < DIRECT THEN [d |-> d, map |-> d.mem.inode.zone[logical + 1]]
     ELSE InTable1(Table1(d, tag), tag, logical - DIRECT - (IF tag = 1 THEN 0 ELSE ADDR_PER_BLOCK))

---------------------------------------------------------------------------
(* minix_read(): errors of the data's reading are looked at in the end     *)

RECURSIVE ReadBlocks(_, _, _)
ReadMapped(m, len, got) ==
  LET offset == m.d.pos % BLOCK_SIZE
      size == Least(BLOCK_SIZE - offset, len)
      bytes == IF Readable(m.d, m.map) THEN Part(image.blocks[m.map], offset, size) ELSE Junk(size)
  IN IF m.map < 0 THEN [d |-> m.d, bytes |-> <<>>]
     ELSE ReadBlocks([Devread(m.d, m.map) EXCEPT !.pos = @ + size], len - size, got \o bytes)

ReadBlocks(d, len, got) ==
  IF len > 0 THEN ReadMapped(BlockMap(d, d.pos \div BLOCK_SIZE), len, got)
  ELSE [d |-> d, bytes |-> IF d.err = NoError THEN got ELSE <<>>]

MinixRead(d, len) == ReadBlocks(d, len, <<>>)

---------------------------------------------------------------------------
(* minix_dir(): w is the inode looked up next, the directory it was found  *)
(* in, what is left of the path and how many links were followed.          *)

RECURSIVE LookUp(_, _), Scan(_, _, _, _)

\* The rest of the path goes behind the text of the link, which is read where
\* the position is.
Followed(r, w) ==
  LET absolute == r.bytes[1] = "/"
      ino == IF absolute THEN ROOT_INO ELSE w.updir
  IN IF r.bytes = <<>> THEN Ended([r.d EXCEPT !.pos = 0], FALSE, {})
     ELSE LookUp([r.d EXCEPT !.pos = 0],
                 [ino |-> ino, updir |-> ino, links |-> w.links,
                  path |-> (IF absolute THEN Tail(r.bytes) ELSE r.bytes) \o w.path])

Chase(d, w) ==
  CASE w.links > MAX_LINK_COUNT -> NotFound(d, "ERR_SYMLINK_LOOP", {})
    [] w.links <= MAX_LINK_COUNT /\ d.max + Len(w.path) > PATH_MAX - 2 -> NotFound(d, "ERR_FILELENGTH", {})
    [] OTHER -> Followed(MinixRead([d EXCEPT !.pos = Least(@, d.max)], d.max - Least(d.pos, d.max)), w)

\* The loop over the entries of a directory from the place loc on.
AtEntry(d, dp, w, loc, names) ==
  CASE dp.inode # 0 /\ w.path = <<"">> -> Scan(d, w, loc + 1, names \cup {dp.name})
    [] dp.inode # 0 /\ dp.name = w.path[1] -> LookUp(d, [w EXCEPT !.ino = dp.inode, !.path = Tail(@)])
    [] OTHER -> Scan(d, w, loc + 1, names)

ScanBlock(m, w, loc, names) ==
  LET d == [m.d EXCEPT !.mem.mapblock2 = -1]
  IN IF m.map < 0 \/ ~Readable(d, m.map) THEN NotFound(d, "ERR_FSYS_CORRUPT", names)
     ELSE AtEntry([d EXCEPT !.mem.data2 = image.blocks[m.map]], image.blocks[m.map][(loc % BLOCK_SIZE) + 1], w, loc, names)

Scan(d, w, loc, names) ==
  CASE loc < d.mem.inode.size -> ScanBlock(BlockMap(d, loc \div BLOCK_SIZE), w, loc, names)
    [] loc >= d.mem.inode.size /\ w.path = <<"">> /\ names # {} -> Ended(d, TRUE, names)
    [] OTHER -> NotFound(d, "ERR_FILE_NOT_FOUND", {})

AtInode(d, w) ==
  LET inode == d.mem.inode
  IN CASE inode.mode = "link" -> Chase([d EXCEPT !.max = inode.size], [w EXCEPT !.links = @ + 1])
       [] inode.mode = "reg" /\ w.path = <<>> -> Ended([d EXCEPT !.max = inode.size], TRUE, {})
       [] inode.mode = "dir" /\ w.path # <<>> /\ inode.size # 0 -> Scan(d, [w EXCEPT !.updir = w.ino], 0, {})
       [] OTHER -> NotFound(d, "ERR_BAD_FILETYPE", {})

\* The marks of the tables are reset with every inode.
LookUp(d, w) ==
  LET blk == 2 + d.mem.super.maps + (w.ino - 1) \div INODES_PER_BLOCK
  IN IF ~Readable(d, blk) THEN Ended(Devread(d, blk), FALSE, {})
     ELSE AtInode([d EXCEPT !.mem.inode = image.blocks[blk][((w.ino - 1) % INODES_PER_BLOCK) + 1],
                            !.mem.mapblock1 = -1, !.mem.mapblock2 = -1], w)

MinixDir(d, path) == LookUp(d, [ino |-> ROOT_INO, updir |-> ROOT_INO, path |-> path, links |-> 0])

---------------------------------------------------------------------------

Mount == \E bad \in Faults : Mounted(bad, MinixMount(Now(bad)))
Open == \E path \in image.paths, bad \in Faults : mem # None /\ Opened(path, bad, MinixDir(Opening(bad), path))
List == \E path \in DOMAIN image.dirs, bad \in Faults :
          mem # None /\ Listed(path, bad, MinixDir(Now(bad), Append(path, "")))
Read == \E len \in Lengths, bad \in Faults :
          file # None /\ Delivered(len, bad, MinixRead(Clamped(bad), Length(len)))
Reposition == \E pos \in image.starts : Seek(pos)

Next == Mount \/ Open \/ List \/ Read \/ Reposition
Spec == DriverInit /\ [][Next]_dvars
===============================================================================
