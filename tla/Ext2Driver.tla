------------------------------ MODULE Ext2Driver ------------------------------
(***************************************************************************)
(* filesys/fsys_ext2fs.c: ext2, ext3 and ext4 with extents.  The driver    *)
(* has one inode in memory and two blocks: `data1` with the table that     *)
(* mapblock1 names (1, 2 or 3 for the kinds of indirect blocks), `data2`   *)
(* with the second one, at the block mapblock2, or with directory entries. *)
(***************************************************************************)
EXTENDS FileDriver

CONSTANTS BLOCK_SIZE,       \* units of a file in a block
          NDIR_BLOCKS,      \* EXT2_NDIR_BLOCKS
          ADDR_PER_BLOCK,   \* block numbers in a block
          MAX_LINK_COUNT,
          PATH_MAX          \* names that fit into linkbuf

ROOT_INO == 2
WHICH_SUPER == 1

Ended(d, ok, names) == [d |-> d, ok |-> ok, names |-> names]

---------------------------------------------------------------------------
(* ext2fs_mount()                                                          *)

BytesOfBlock(p) == 1024 * 2 ^ p.log_block_size

SuperIsTaken(p) ==
  /\ p.magic = "EXT2_SUPER_MAGIC"
  /\ \A n \in {p.inodes_count, p.blocks_count, p.blocks_per_group, p.inodes_per_group} : n # 0
  /\ p.first_data_block \in {0, 1} /\ p.log_block_size <= 4
  /\ (p.first_data_block = 1) = (p.log_block_size = 0)
  /\ p.rev_level # 0 => p.inode_size # 0 /\ BytesOfBlock(p) % p.inode_size = 0

Ext2Mount(d) ==
  IF Readable(d, image.sblock) /\ SuperIsTaken(image.blocks[image.sblock])
  THEN [d |-> [d EXCEPT !.mem = [super |-> image.blocks[image.sblock], inode |-> None, mapblock1 |-> -1,
                                 mapblock2 |-> -1, data1 |-> <<>>, data2 |-> <<>>]],
        ok |-> TRUE]
  ELSE [d |-> Devread(d, image.sblock), ok |-> FALSE]

---------------------------------------------------------------------------
(* Where a file's block lies: [d, map], map is -1 if that cannot be told.  *)

Unmapped(d) == [d |-> Failing(d, "ERR_FSYS_CORRUPT"), map |-> -1]

\* A table that could not be read entirely.  The old one's mark is kept.
Torn == [i \in 1..ADDR_PER_BLOCK |-> 0]

\* The table that i_block[n] points to, in DATABLOCK1 unless it is there.
Table1(d, tag, n) ==
  CASE d.mem.mapblock1 = tag -> d
    [] d.mem.mapblock1 # tag /\ Readable(d, d.mem.inode.block[n + 1]) ->
         [d EXCEPT !.mem.mapblock1 = tag, !.mem.data1 = image.blocks[d.mem.inode.block[n + 1]]]
    [] OTHER -> [Failing(d, "ERR_FSYS_CORRUPT") EXCEPT !.mem.data1 = Torn]

Table2(d, bnum) ==
  CASE d.mem.mapblock2 = bnum -> d
    [] d.mem.mapblock2 # bnum /\ Readable(d, bnum) ->
         [d EXCEPT !.mem.mapblock2 = bnum, !.mem.data2 = image.blocks[bnum]]
    [] OTHER -> [Failing(d, "ERR_FSYS_CORRUPT") EXCEPT !.mem.data2 = Torn]

Single(d, logical) ==
  IF d.mem.mapblock1 = 1 THEN [d |-> d, map |-> d.mem.data1[logical + 1]] ELSE Unmapped(d)

InTable2(d, bnum, logical) ==
  IF d.mem.mapblock2 = bnum THEN [d |-> d, map |-> d.mem.data2[(logical % ADDR_PER_BLOCK) + 1]] ELSE Unmapped(d)

Double(d, logical) ==
  LET bnum == d.mem.data1[(logical \div ADDR_PER_BLOCK) + 1]
  IN IF d.mem.mapblock1 = 2 THEN InTable2(Table2(d, bnum), bnum, logical) ELSE Unmapped(d)

\* The third level is read over the second.
Triple(d, logical) ==
  LET second == d.mem.data1[(logical \div (ADDR_PER_BLOCK * ADDR_PER_BLOCK)) + 1]
      third == image.blocks[second][((logical \div ADDR_PER_BLOCK) % ADDR_PER_BLOCK) + 1]
  IN IF d.mem.mapblock1 = 3 /\ Readable(d, second) /\ Readable(d, third)
     THEN [d |-> [d EXCEPT !.mem.data2 = image.blocks[third]],
           map |-> image.blocks[third][(logical % ADDR_PER_BLOCK) + 1]]
     ELSE Unmapped(d)

BlockMap(d, logical) ==
  LET single == logical - NDIR_BLOCKS
      double == single - ADDR_PER_BLOCK
      triple == double - ADDR_PER_BLOCK * ADDR_PER_BLOCK
  IN CASE single < 0 -> [d |-> d, map |-> d.mem.inode.block[logical + 1]]
       [] single >= 0 /\ double < 0 -> Single(Table1(d, 1, NDIR_BLOCKS), single)
       [] double >= 0 /\ triple < 0 -> Double(Table1(d, 2, NDIR_BLOCKS + 1), double)
       [] triple >= 0 -> Triple(Table1([d EXCEPT !.mem.mapblock2 = -1], 3, NDIR_BLOCKS + 2), triple)

\* Both binary searches: the last member that begins at or before the block,
\* the first one if there is none.
Closest(entries, logical) ==
  LET at == {i \in DOMAIN entries : entries[i].block <= logical}
  IN entries[IF at = {} THEN 1 ELSE CHOOSE i \in at : \A j \in at : j <= i]

\* ext4fs_block_map(), from the header eh on; the leaf's length is compared as
\* the code does it, which lets one block behind the extent through.
RECURSIVE ExtentMap(_, _, _)
ExtentMap(d, eh, logical) ==
  LET e == Closest(eh.entries, logical)
  IN CASE ~eh.magic -> Unmapped(d)
       [] eh.magic /\ e.hi # 0 -> [d |-> Failing(d, "ERR_FILELENGTH"), map |-> -1]
       [] eh.magic /\ e.hi = 0 /\ eh.depth # 0 ->
            IF Readable(d, e.leaf)
            THEN ExtentMap([d EXCEPT !.mem.data1 = image.blocks[e.leaf]], image.blocks[e.leaf], logical)
            ELSE Unmapped(d)
       [] OTHER -> IF e.block + e.len < logical THEN Unmapped(d)
                   ELSE [d |-> d, map |-> e.start + logical - e.block]

Mapped(d, logical) ==
  IF d.mem.super.extents /\ d.mem.inode.extents THEN ExtentMap(d, d.mem.inode.block, logical)
  ELSE BlockMap(d, logical)

---------------------------------------------------------------------------
(* ext2fs_read(): errors of the data's reading are looked at in the end.   *)

BytesAt(d, map, offset, size) ==
  CASE map = 0 -> [i \in 1..size |-> 0]
    [] map # 0 /\ Readable(d, map) -> Part(image.blocks[map], offset, size)
    [] OTHER -> Junk(size)

RECURSIVE ReadBlocks(_, _, _)
ReadMapped(m, len, got) ==
  LET offset == m.d.pos % BLOCK_SIZE
      size == Least(BLOCK_SIZE - offset, len)
      read == IF m.map = 0 THEN m.d ELSE Devread(m.d, m.map)
  IN IF m.map < 0 THEN [d |-> m.d, bytes |-> <<>>]
     ELSE ReadBlocks([read EXCEPT !.pos = @ + size], len - size, got \o BytesAt(m.d, m.map, offset, size))

ReadBlocks(d, len, got) ==
  IF len > 0 THEN ReadMapped(Mapped(d, d.pos \div BLOCK_SIZE), len, got)
  ELSE [d |-> d, bytes |-> IF d.err = NoError THEN got ELSE <<>>]

Ext2Read(d, len) == ReadBlocks(d, len, <<>>)

---------------------------------------------------------------------------
(* ext2fs_dir(): w says which inode is looked up next, in which directory  *)
(* it was found, what of the path is left and how many links were followed.*)

RECURSIVE LookUp(_, _), Scan(_, _, _, _)

\* grub_read() of a link's text; a link's text is the names of a path.
ReadLink(d) ==
  LET pos == Least(d.pos, d.max)
  IN Ext2Read([d EXCEPT !.pos = pos], d.max - pos)

Followed(r, w) ==
  LET absolute == r.bytes[1] = "/"
      ino == IF absolute THEN ROOT_INO ELSE w.updir
  IN IF r.bytes = <<>> THEN Ended(r.d, FALSE, {})
     ELSE LookUp(r.d, [ino |-> ino, updir |-> ino, links |-> w.links,
                       path |-> (IF absolute THEN Tail(r.bytes) ELSE r.bytes) \o w.path])

SlowLink(r, w) == Followed([r EXCEPT !.d.pos = 0], w)

Chase(d, w) ==
  CASE w.links > MAX_LINK_COUNT -> Ended(Failing(d, "ERR_SYMLINK_LOOP"), FALSE, {})
    [] w.links <= MAX_LINK_COUNT /\ d.max + Len(w.path) > PATH_MAX - 2 ->
         Ended(Failing(d, "ERR_FILELENGTH"), FALSE, {})
    [] OTHER -> IF d.mem.inode.fast THEN Followed([d |-> d, bytes |-> d.mem.inode.block], w)
                ELSE SlowLink(ReadLink(d), w)

\* The path has ended at this inode.
RegularFile(d) ==
  CASE d.mem.inode.mode # "reg" -> Ended(Failing(d, "ERR_BAD_FILETYPE"), FALSE, {})
    [] d.mem.inode.mode = "reg" /\ d.mem.inode.huge /\ d.mem.inode.size_high = 0 ->
         Ended(Failing(d, "ERR_FILELENGTH"), FALSE, {})
    [] OTHER -> Ended([d EXCEPT !.max = d.mem.inode.size], TRUE, {})

\* The loop over the entries of a directory from the place loc on.
EntryAt(d, dp, w, loc, names) ==
  CASE dp.inode # 0 /\ w.path = <<"">> -> Scan(d, w, loc + dp.rec_len, names \cup {dp.name})
    [] dp.inode # 0 /\ dp.name = w.path[1] -> LookUp(d, [w EXCEPT !.ino = dp.inode, !.path = Tail(@)])
    [] OTHER -> Scan(d, w, loc + dp.rec_len, names)

ScanBlock(m, w, loc, names) ==
  LET d == [m.d EXCEPT !.mem.mapblock2 = -1]
  IN CASE m.map < 0 -> Ended(d, FALSE, names)
       [] m.map >= 0 /\ ~Readable(d, m.map) -> Ended(Failing(d, "ERR_FSYS_CORRUPT"), FALSE, names)
       [] OTHER -> EntryAt([d EXCEPT !.mem.data2 = image.blocks[m.map]],
                           image.blocks[m.map][(loc % BLOCK_SIZE) + 1], w, loc, names)

Scan(d, w, loc, names) ==
  CASE loc < d.mem.inode.size -> ScanBlock(Mapped(d, loc \div BLOCK_SIZE), w, loc, names)
    [] loc >= d.mem.inode.size /\ w.path = <<"">> /\ names # {} -> Ended(d, TRUE, names)
    [] OTHER -> Ended(Failing(d, "ERR_FILE_NOT_FOUND"), FALSE, {})

\* The inode is in memory.
AtInode(d, w) ==
  CASE d.mem.inode.mode = "link" -> Chase([d EXCEPT !.max = d.mem.inode.size], [w EXCEPT !.links = @ + 1])
    [] d.mem.inode.mode # "link" /\ w.path = <<>> -> RegularFile(d)
    [] d.mem.inode.mode # "link" /\ w.path # <<>> ->
         IF d.mem.inode.size = 0 \/ d.mem.inode.mode # "dir" THEN Ended(Failing(d, "ERR_BAD_FILETYPE"), FALSE, {})
         ELSE Scan(d, [w EXCEPT !.updir = w.ino], 0, {})

\* The group's descriptor and the block of the inode are read; the marks of the
\* tables are reset.  The test of the table's high half is inverted, and what
\* is returned then counts as success.
LookUp(d, w) ==
  LET super == d.mem.super
      group == (w.ino - 1) \div super.inodes_per_group
      within == (w.ino - 1) % super.inodes_per_group
      desc_block == WHICH_SUPER + group \div super.desc_per_block + super.first_data_block
      desc == image.blocks[desc_block][(group % super.desc_per_block) + 1]
      ino_blk == desc.inode_table + within \div super.inodes_per_block
  IN CASE ~Readable(d, desc_block) -> Ended(Devread(d, desc_block), FALSE, {})
       [] Readable(d, desc_block) /\ super.is64bit /\ desc.inode_table_hi = 0 ->
            Ended(Failing(d, "ERR_FILELENGTH"), TRUE, {})
       [] Readable(d, desc_block) /\ ~(super.is64bit /\ desc.inode_table_hi = 0) ->
            IF ~Readable(d, ino_blk) THEN Ended(Devread(d, ino_blk), FALSE, {})
            ELSE AtInode([d EXCEPT !.mem.inode = image.blocks[ino_blk][(within % super.inodes_per_block) + 1],
                                   !.mem.mapblock1 = -1, !.mem.mapblock2 = -1], w)

Ext2Dir(d, path) == LookUp(d, [ino |-> ROOT_INO, updir |-> ROOT_INO, path |-> path, links |-> 0])

---------------------------------------------------------------------------

Mount == \E bad \in Faults : Mounted(bad, Ext2Mount(Now(bad)))
Open == \E path \in image.paths, bad \in Faults : mem # None /\ Opened(path, bad, Ext2Dir(Opening(bad), path))
List == \E path \in DOMAIN image.dirs, bad \in Faults :
          mem # None /\ Listed(path, bad, Ext2Dir(Now(bad), Append(path, "")))
Read == \E len \in Lengths, bad \in Faults :
          file # None /\ Delivered(len, bad, Ext2Read(Clamped(bad), Length(len)))
Reposition == \E pos \in image.starts : Seek(pos)

Next == Mount \/ Open \/ List \/ Read \/ Reposition
Spec == DriverInit /\ [][Next]_dvars
===============================================================================
