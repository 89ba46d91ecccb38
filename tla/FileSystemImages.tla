-------------------------- MODULE FileSystemImages --------------------------
(***************************************************************************)
(* Small disks of every file system, for MC_FileSystems.  Each is written  *)
(* from a description, which says where the parts of each file lie, in the *)
(* way the file system's own programs would write it; what the files       *)
(* contain is read off the description and not off the disk.               *)
(***************************************************************************)
EXTENDS Integers, Sequences, FiniteSets, TLC, SequencesExt

\* A unit of a file tells where it lies; 0 is a unit of a hole.
UnitsOf(block, size) == [i \in 1..size |-> block * 10 + i]
Hole(size) == [i \in 1..size |-> 0]

\* The first n units of a file whose blocks are bs (0 is a hole).
ContentOf(bs, size, n) ==
  SubSeq(FlattenSeq([i \in DOMAIN bs |-> IF bs[i] = 0 THEN Hole(size) ELSE UnitsOf(bs[i], size)]), 1, n)

DataBlocks(bs, size) == [b \in bs |-> UnitsOf(b, size)]

\* Block 0 of a disk whose file system begins behind it, in units or in numbers
\* of blocks: the first of them happens to be another file's.
BootBlock == <<30, 77, -1, 0>>

\* s with `x` added until it has n members.
Padded(s, n, x) == s \o [i \in 1..n - Len(s) |-> x]

\* A function from the pairs of consecutive members of s, the last to `last`.
Links(s, last) == [b \in ToSet(s) |-> LET i == CHOOSE j \in DOMAIN s : s[j] = b
                                      IN IF i = Len(s) THEN last ELSE s[i + 1]]

---------------------------------------------------------------------------
(* FAT: sectors of four units, clusters of one sector or two               *)

FatEnd == [kind |-> "end"]
Short(n, sum, dir, cluster, size) ==
  [kind |-> "short", name |-> <<n>>, sum |-> sum, dir |-> dir, cluster |-> cluster, size |-> size]
Long(id, first, sum, part) == [kind |-> "long", id |-> id, first |-> first, sum |-> sum, part |-> part]
Deleted == [kind |-> "deleted"]

Bpb == [fat_length |-> 0, fat32_length |-> 0, reserved_sects |-> 1, num_fats |-> 1, secs_track |-> 4, heads |-> 2,
        dir_entries |-> 0, sectors |-> 32, sects_per_clust |-> 1, mirror_off |-> FALSE, active_fat |-> 0, root_cluster |-> 2]

\* The tables of a FAT: `copies` gives the entries of each.
Tables(first, length, copies) ==
  [s \in first .. first + length * Len(copies) - 1 |->
     [from |-> (s - first) % length, entries |-> copies[1 + (s - first) \div length]]]

\* A disk from its boot sector, its tables, what its clusters hold and its files:
\* [path -> [cs, n]], the clusters and the units of each.
FatImage(p, tables, data, spc, held, files, dirs, paths, fragile) ==
  LET sectorsOf(cs) == FlattenSeq([i \in DOMAIN cs |-> [k \in 1..spc |-> data + (cs[i] - 2) * spc + k - 1]])
      used == UNION {ToSet(sectorsOf(files[f].cs)) : f \in DOMAIN files}
  IN [fs |-> "fat", tables |-> tables, dirs |-> dirs, paths |-> paths, fragile |-> fragile, starts |-> {0, 3, 6}, buffer |-> 1,
      directories |-> DOMAIN held, blocks |-> (0 :> p) @@ held @@ DataBlocks(used, 4) @@ [s \in DOMAIN tables |-> Hole(4)],
      files |-> [f \in DOMAIN files |-> ContentOf(sectorsOf(files[f].cs), 4, files[f].n)]]

\* FAT32 with two tables, of which the second is active; long names, an orphan
\* part of one, a deleted entry, a root directory of two clusters.
Fat32 ==
  LET p == [Bpb EXCEPT !.fat32_length = 9, !.num_fats = 2, !.mirror_off = TRUE, !.active_fat = 1, !.sectors = 26]
      table == Links(<<2, 4>>, 99) @@ Links(<<3, 6, 5>>, 99) @@ (7 :> 99) @@ (8 :> 99)
      sector(c) == 19 + c - 2
      held == (sector(2) :> <<Long(1, TRUE, 9, "q"), Deleted, Short("A", 1, FALSE, 3, 10), Long(2, TRUE, 2, "yy")>>)
           @@ (sector(4) :> <<Long(1, FALSE, 2, "xx"), Short("S", 2, TRUE, 7, 0), Long(1, TRUE, 3, "zz"), FatEnd>>)
           @@ (sector(7) :> <<Short("B", 4, FALSE, 8, 3), FatEnd, FatEnd, FatEnd>>)
  IN FatImage(p, Tables(1, 9, <<[c \in 2..8 |-> 0], table>>), 19, 1, held,
              (<< <<"A">> >> :> [cs |-> <<3, 6, 5>>, n |-> 10]) @@ (<< <<"xx", "yy">>, <<"B">> >> :> [cs |-> <<8>>, n |-> 3])
              @@ (<< <<"S">>, <<"B">> >> :> [cs |-> <<8>>, n |-> 3]),
              (<<>> :> {<<"A">>, <<"xx", "yy">>}) @@ (<< <<"S">> >> :> {<<"B">>}),
              {<< <<"A">> >>, << <<"xx", "yy">>, <<"B">> >>, << <<"S">>, <<"B">> >>, << <<"xx", "yy">> >>, << <<"q">> >>},
              {12, 14, sector(6), sector(2)})

\* A FAT12 or FAT16 disk, with one table and files in the root directory, which
\* lies between the table and the clusters.  The driver looks for it in the
\* cluster -1: it sees the names in these sectors, up to the directory's end.
RootFatImage(p, table, held, files, fragile) ==
  LET root == 1 + p.fat_length
      data == root + p.dir_entries \div 4
      seen == {data - 3 * p.sects_per_clust + k : k \in 0 .. p.sects_per_clust - 1}
      namesIn(ss) == {held[s][i].name[1] : <<s, i>> \in {x \in ss \X (1..4) : held[x[1]][x[2]].kind = "short"}}
      all == [s \in root .. data - 1 |-> IF s \in DOMAIN held THEN held[s] ELSE <<FatEnd, FatEnd, FatEnd, FatEnd>>]
      ends == seen \subseteq DOMAIN all /\ \E s \in seen : FatEnd \in ToSet(all[s])
  IN FatImage(p, Tables(1, p.fat_length, <<table>>), data, p.sects_per_clust, all, [f \in {<<<<n>>>> : n \in DOMAIN files} |-> files[f[1][1]]],
              <<>> :> {<<n>> : n \in DOMAIN files}, {<<<<n>>>> : n \in DOMAIN files} \cup {<< <<"A">>, <<"B">> >>}, fragile)
     @@ [lost |-> ~ends, unseen |-> {<<n>> : n \in namesIn(DOMAIN held \ seen)}]

\* FAT12, whose entries lie across sectors.  The root directory has the three
\* sectors in front of the clusters, and what it holds is in the first of them.
Fat12 ==
  RootFatImage([Bpb EXCEPT !.fat_length = 5, !.dir_entries = 12, !.sectors = 17],
    Links(<<2, 5, 7, 4, 8>>, 99) @@ Links(<<3, 6>>, 99), 6 :> <<Short("A", 1, FALSE, 2, 18), Short("B", 2, FALSE, 3, 7), FatEnd, FatEnd>>,
    ("A" :> [cs |-> <<2, 5, 7, 4, 8>>, n |-> 18]) @@ ("B" :> [cs |-> <<3, 6>>, n |-> 7]), {1, 2, 3})

\* The root directory is longer, and half of what it holds before the cluster -1.
Fat12Long ==
  RootFatImage([Bpb EXCEPT !.fat_length = 4, !.dir_entries = 16, !.sectors = 17], Links(<<2, 4>>, 99) @@ (3 :> 99),
    (5 :> <<Deleted, Short("B", 2, FALSE, 3, 3), Deleted, Deleted>>) @@ (6 :> <<Deleted, Short("A", 1, FALSE, 2, 7), FatEnd, FatEnd>>),
    ("A" :> [cs |-> <<2, 4>>, n |-> 7]) @@ ("B" :> [cs |-> <<3>>, n |-> 3]), {1, 6})

\* FAT16 with clusters of two sectors and a root directory of three clusters.
Fat16 ==
  RootFatImage([Bpb EXCEPT !.fat_length = 5, !.dir_entries = 24, !.sectors = 30, !.sects_per_clust = 2], Links(<<2, 4>>, 99) @@ (3 :> 99),
    6 :> <<Short("A", 1, FALSE, 2, 12), Deleted, Short("B", 2, FALSE, 3, 5), FatEnd>>,
    ("A" :> [cs |-> <<2, 4>>, n |-> 12]) @@ ("B" :> [cs |-> <<3>>, n |-> 5]), {1})

\* A root directory of one sector, before which the cluster -1 lies.
Fat16Short ==
  RootFatImage([Bpb EXCEPT !.fat_length = 5, !.dir_entries = 4, !.sectors = 25, !.sects_per_clust = 2], Links(<<2, 4>>, 99),
    6 :> <<Short("A", 1, FALSE, 2, 12), FatEnd, FatEnd, FatEnd>>, "A" :> [cs |-> <<2, 4>>, n |-> 12], {1})

\* One that goes on behind its first cluster, which sends the driver to the table
\* of which nothing is in memory: what it takes from there is `buffer`.
Fat16Full(buffer) ==
  [RootFatImage([Bpb EXCEPT !.fat_length = 6, !.dir_entries = 12, !.sectors = 19], Links(<<2, 4>>, 99) @@ (3 :> 99),
     (7 :> <<Short("A", 1, FALSE, 2, 7), Deleted, Deleted, Deleted>>) @@ (8 :> <<Short("B", 2, FALSE, 3, 3), FatEnd, FatEnd, FatEnd>>),
     ("A" :> [cs |-> <<2, 4>>, n |-> 7]) @@ ("B" :> [cs |-> <<3>>, n |-> 3]), {1}) EXCEPT !.buffer = buffer]

\* exFAT: a file with a chain, one without, a directory without a chain.
Exfat ==
  LET p == [fat_length |-> 0, fat32_length |-> 0, fat_count |-> 1, second_active |-> FALSE, fat_sector_start |-> 1,
            fat_sector_count |-> 10, cluster_sector_start |-> 11, cluster_count |-> 9, sects_per_clust |-> 2, rootdir_cluster |-> 2]
      table == Links(<<2, 4>>, 99) @@ Links(<<3, 6>>, 99)
      sector(c) == 11 + (c - 2) * 2
      File(dir, n) == [kind |-> "file", dir |-> dir, count |-> n]
      Info(c, n, contig) == [kind |-> "info", cluster |-> c, size |-> n, contig |-> contig]
      Name(part) == [kind |-> "name", part |-> part]
      Other == [kind |-> "bitmap"]
      held == (sector(2) :> <<Other, File(FALSE, 2), Info(3, 11, FALSE), Name("A")>>)
           @@ (sector(2) + 1 :> <<File(FALSE, 3), Info(7, 13, TRUE), Name("bb"), Name("cc")>>)
           @@ (sector(4) :> <<File(FALSE, 2), Other, File(TRUE, 2), Info(5, 8, TRUE)>>)
           @@ (sector(4) + 1 :> <<Name("S"), FatEnd, FatEnd, FatEnd>>)
           @@ (sector(5) :> <<File(FALSE, 2), Info(9, 2, TRUE), Name("E"), FatEnd>>) @@ (sector(5) + 1 :> <<FatEnd, FatEnd, FatEnd, FatEnd>>)
  IN FatImage(p, Tables(1, 10, <<table>>), 11, 2, held,
              (<< <<"A">> >> :> [cs |-> <<3, 6>>, n |-> 11]) @@ (<< <<"bb", "cc">> >> :> [cs |-> <<7, 8>>, n |-> 13])
              @@ (<< <<"S">>, <<"E">> >> :> [cs |-> <<9>>, n |-> 2]),
              (<<>> :> {<<"A">>, <<"bb", "cc">>, <<"S">>}) @@ (<< <<"S">> >> :> {<<"E">>}),
              {<< <<"A">> >>, << <<"bb", "cc">> >>, << <<"S">>, <<"E">> >>, << <<"S">> >>}, {3, 4, 22})

FatImages == [fat32 |-> Fat32, fat12 |-> Fat12, fat12long |-> Fat12Long, fat16 |-> Fat16, fat16short |-> Fat16Short,
              fat16corrupt |-> Fat16Full(1), fat16ends |-> Fat16Full(99), fat16goeson |-> Fat16Full(3), exfat |-> Exfat]

---------------------------------------------------------------------------
(* ext2 and ext4: blocks of two units, two direct blocks and two addresses *)
(* in a block                                                              *)

Ext2Super == [magic |-> "EXT2_SUPER_MAGIC", inodes_count |-> 12, blocks_count |-> 60, blocks_per_group |-> 20,
              inodes_per_group |-> 4, first_data_block |-> 1, log_block_size |-> 0, rev_level |-> 1, inode_size |-> 128,
              desc_per_block |-> 2, inodes_per_block |-> 2, extents |-> FALSE, is64bit |-> FALSE]
Inode(mode, size, block) ==
  [mode |-> mode, size |-> size, block |-> block, fast |-> FALSE, extents |-> FALSE, huge |-> FALSE, size_high |-> 0]
NoInode == Inode("none", 0, <<>>)
Dirent(inode, name) == [inode |-> inode, name |-> name, rec_len |-> 1]
Group(table) == [inode_table |-> table, inode_table_hi |-> 0]

\* Groups of four inodes; a file with all kinds of indirect blocks and a hole, a
\* directory that needs one, a slow and a fast symbolic link and a loop of them,
\* and a file in whose hole an indirect block is left out too.
Ext2 ==
  LET big == <<30, 31, 32, 33, 34, 0, 35, 36, 37, 38>>
      blocks ==
        (0 :> BootBlock) @@ (1 :> Ext2Super) @@ (2 :> <<Group(10), Group(12)>>) @@ (3 :> <<Group(14), Group(0)>>)
        @@ (10 :> <<NoInode, Inode("dir", 6, <<20, 21, 22, 0, 0>>)>>)
        @@ (11 :> <<Inode("dir", 3, <<25, 48, 0, 0, 0>>), [Inode("link", 2, <<"S", "B">>) EXCEPT !.fast = TRUE]>>)
        @@ (12 :> <<Inode("reg", 19, <<30, 31, 40, 41, 42>>), Inode("reg", 3, <<28, 29, 0, 0, 0>>)>>)
        @@ (13 :> <<Inode("link", 3, <<26, 27, 0, 0, 0>>), [Inode("link", 1, <<"o">>) EXCEPT !.fast = TRUE]>>)
        @@ (14 :> <<Inode("reg", 2, <<39, 0, 0, 0, 0>>), Inode("reg", 7, <<47, 0, 0, 0, 0>>)>>) @@ (48 :> <<Dirent(10, "g"), Dirent(0, "y")>>)
        @@ (20 :> <<Dirent(5, "A"), Dirent(7, "l")>>) @@ (21 :> <<[Dirent(3, "S") EXCEPT !.rec_len = 2], Dirent(6, "x")>>)
        @@ (22 :> <<23, 24>>) @@ (23 :> <<Dirent(8, "o"), Dirent(0, "y")>>)
        @@ (25 :> <<Dirent(6, "B"), Dirent(4, "m")>>) @@ (26 :> <<"/", "S">>) @@ (27 :> <<"B", "">>)
        @@ (40 :> <<32, 33>>) @@ (41 :> <<43, 44>>) @@ (42 :> <<45, 0>>) @@ (43 :> <<34, 0>>) @@ (44 :> <<35, 36>>)
        @@ (45 :> <<46, 0>>) @@ (46 :> <<37, 38>>)
        @@ DataBlocks({28, 29, 39, 47} \cup (30..38), 2)
      small == ContentOf(<<28, 29>>, 2, 3)
  IN [fs |-> "ext2", sblock |-> 1, blocks |-> blocks, starts |-> {0, 6, 13}, fragile |-> {20, 22, 40, 41, 44, 46, 26, 34},
      files |-> (<<"A">> :> ContentOf(big, 2, 19)) @@ (<<"l">> :> small) @@ (<<"S", "B">> :> small)
             @@ (<<"S", "g">> :> ContentOf(<<47, 0, 0, 0>>, 2, 7)),
      paths |-> {<<"A">>, <<"l">>, <<"S", "B">>, <<"S", "g">>, <<"o">>, <<"x">>, <<"S">>}, blind |-> {<<"S", "g">>},
      dirs |-> (<<>> :> {"A", "l", "S", "o"}) @@ (<<"S">> :> {"B", "m", "g"})]

\* ext4 in blocks of 4 KByte: a directory and files in extents, one of them in
\* a tree, one with a gap of two blocks, one with its length counted in blocks; one without.
Ext4 ==
  LET Extents(depth, entries) == [magic |-> TRUE, depth |-> depth, entries |-> entries]
      Leaf(block, len, start) == [block |-> block, len |-> len, start |-> start, hi |-> 0]
      Index(block, leaf) == [block |-> block, leaf |-> leaf, hi |-> 0]
      InExtents(mode, size, tree) == [Inode(mode, size, tree) EXCEPT !.extents = TRUE]
      blocks ==
        (0 :> [Ext2Super EXCEPT !.first_data_block = 0, !.log_block_size = 2, !.inode_size = 256, !.extents = TRUE])
        @@ (1 :> <<Group(10), Group(12)>>)
        @@ (10 :> <<NoInode, InExtents("dir", 5, Extents(0, <<Leaf(0, 1, 20), Leaf(1, 1, 24), Leaf(2, 1, 23)>>))>>)
        @@ (11 :> <<InExtents("reg", 11, Extents(1, <<Index(0, 40), Index(2, 41), Index(4, 42)>>)), Inode("reg", 3, <<28, 29, 0, 0, 0>>)>>)
        @@ (12 :> <<InExtents("reg", 6, Extents(0, <<Leaf(0, 3, 25)>>)), InExtents("reg", 7, Extents(0, <<Leaf(0, 1, 38), Leaf(3, 1, 39)>>))>>)
        @@ (13 :> <<[InExtents("reg", 2, Extents(0, <<Leaf(0, 1, 27)>>)) EXCEPT !.huge = TRUE]>>)
        @@ (20 :> <<Dirent(3, "A"), Dirent(4, "B")>>) @@ (24 :> <<Dirent(5, "C"), Dirent(6, "D")>>) @@ (23 :> <<Dirent(7, "H")>>)
        @@ (40 :> Extents(0, <<Leaf(0, 2, 30)>>)) @@ (41 :> Extents(0, <<Leaf(2, 1, 35), Leaf(3, 1, 33)>>))
        @@ (42 :> Extents(0, <<Leaf(4, 2, 36)>>)) @@ DataBlocks((25..39) \ {34, 32}, 2)
  IN [fs |-> "ext2", sblock |-> 0, blocks |-> blocks, starts |-> {0, 5}, fragile |-> {1, 24, 41, 33},
      files |-> (<<"A">> :> ContentOf(<<30, 31, 35, 33, 36, 37>>, 2, 11)) @@ (<<"B">> :> ContentOf(<<28, 29>>, 2, 3))
             @@ (<<"C">> :> ContentOf(<<25, 26, 27>>, 2, 6)) @@ (<<"D">> :> ContentOf(<<38, 0, 0, 39>>, 2, 7)) @@ (<<"H">> :> ContentOf(<<27>>, 2, 2)),
      paths |-> {<<"A">>, <<"B">>, <<"C">>, <<"D">>, <<"H">>}, blind |-> {<<"D">>}, refused |-> {<<"H">>},
      dirs |-> <<>> :> {"A", "B", "C", "D", "H"}]

Ext2Images == [ext2 |-> Ext2, ext4 |-> Ext4]

---------------------------------------------------------------------------
(* Minix: blocks of two units, two direct zones and two numbers in a block *)

ZoneInode(mode, size, zone) == [mode |-> mode, size |-> size, zone |-> zone]
ZoneEntry(inode, name) == [inode |-> inode, name |-> name]

\* Two files with both kinds of indirect zones, a directory with an indirect
\* zone, links up, down and in a circle; a file with a hole, of which also the
\* second indirect zone is left out.
Minix ==
  LET a == <<30, 31, 32, 33, 34, 35, 36>>
      b == <<37, 38, 39, 28, 29>>
      blocks ==
        (0 :> BootBlock) @@ (1 :> [magic |-> "MINIX_SUPER_MAGIC2", maps |-> 1])
        @@ (3 :> <<ZoneInode("dir", 6, <<10, 11, 20, 0>>), ZoneInode("dir", 3, <<14, 17, 0, 0>>)>>)
        @@ (4 :> <<ZoneInode("reg", 13, <<30, 31, 21, 22>>), ZoneInode("reg", 9, <<37, 38, 25, 26>>)>>)
        @@ (5 :> <<ZoneInode("link", 3, <<12, 13, 0, 0>>), ZoneInode("link", 1, <<15, 0, 0, 0>>)>>)
        @@ (6 :> <<ZoneInode("reg", 10, <<40, 0, 18, 0>>), ZoneInode("none", 0, <<>>)>>) @@ (17 :> <<ZoneEntry(7, "h"), ZoneEntry(0, "y")>>) @@ (18 :> <<0, 41>>)
        @@ (10 :> <<ZoneEntry(3, "A"), ZoneEntry(0, "y")>>) @@ (11 :> <<ZoneEntry(2, "S"), ZoneEntry(5, "l")>>)
        @@ (16 :> <<ZoneEntry(6, "o"), ZoneEntry(4, "B")>>) @@ (20 :> <<16, 0>>)
        @@ (12 :> <<"/", "S">>) @@ (13 :> <<"C", "">>) @@ (14 :> <<ZoneEntry(4, "C"), ZoneEntry(6, "o")>>) @@ (15 :> <<"o", "">>)
        @@ (21 :> <<32, 33>>) @@ (22 :> <<23, 24>>) @@ (23 :> <<34, 35>>) @@ (24 :> <<36, 0>>)
        @@ (25 :> <<39, 28>>) @@ (26 :> <<27, 0>>) @@ (27 :> <<29, 0>>) @@ DataBlocks(28..41, 2)
  IN [fs |-> "minix", blocks |-> blocks, starts |-> {0, 5, 8}, fragile |-> {11, 13, 20, 21, 22, 24, 33},
      files |-> (<<"A">> :> ContentOf(a, 2, 13)) @@ [p \in {<<"B">>, <<"S", "C">>, <<"l">>} |-> ContentOf(b, 2, 9)]
             @@ (<<"S", "h">> :> ContentOf(<<40, 0, 0, 41, 0>>, 2, 10)),
      paths |-> {<<"A">>, <<"B">>, <<"l">>, <<"S", "C">>, <<"S", "h">>, <<"o">>, <<"S", "o">>, <<"A", "B">>},
      dirs |-> (<<>> :> {"A", "S", "l", "o", "B"}) @@ (<<"S">> :> {"C", "o", "h"})]

---------------------------------------------------------------------------
(* FFS and UFS2: blocks of two units, two direct blocks and four numbers   *)
(* in the indirect block                                                   *)

UfsInode(mode, size, db, ib) == [mode |-> mode, size |-> size, db |-> db, ib |-> ib]
UfsEntry(ino, name, reclen) == [ino |-> ino, name |-> name, reclen |-> reclen]

\* Files and a directory with indirect blocks, holes and an indirect block left
\* out; `sblock` is where the superblock is and `ints` the width of a block number.
UfsDisk(magic, sblock, ints) ==
  LET blocks ==
        (0 :> BootBlock) @@ (sblock :> [magic |-> magic, inodes |-> 10, inopb |-> 2])
        @@ (11 :> <<UfsInode("dir", 6, <<20, 21>>, 50), UfsInode("reg", 11, <<30, 31>>, 51)>>)
        @@ (12 :> <<UfsInode("reg", 9, <<36, 37>>, 52), UfsInode("dir", 4, <<23, 24>>, 0)>>)
        @@ (13 :> <<UfsInode("reg", 3, <<41, 42>>, 0), UfsInode("other", 2, <<0, 0>>, 0)>>)
        @@ (14 :> <<UfsInode("reg", 9, <<43, 0>>, 53), UfsInode("none", 0, <<>>, 0)>>)
        @@ (15 :> <<UfsInode("reg", 10, <<46, 46>>, 0), UfsInode("none", 0, <<>>, 0)>>)
        @@ (20 :> <<UfsEntry(3, "A", 2), UfsEntry(9, "y", 1)>>) @@ (21 :> <<UfsEntry(4, "B", 1), UfsEntry(0, "z", 1)>>)
        @@ (22 :> <<UfsEntry(5, "S", 1), UfsEntry(7, "d", 1)>>) @@ (23 :> <<UfsEntry(6, "C", 2), UfsEntry(0, "z", 1)>>)
        @@ (24 :> <<UfsEntry(8, "h", 1), UfsEntry(10, "g", 1)>>) @@ (53 :> <<0, 44, 45, 0>>)
        @@ (50 :> <<22, 0, 0, 0>>) @@ (51 :> <<32, 33, 34, 35>>) @@ (52 :> <<38, 39, 40, 0>>) @@ DataBlocks(30..46, 2)
  IN [fs |-> "ufs", ints |-> ints, blocks |-> blocks, starts |-> {0, 5, 8}, fragile |-> {21, 22, 50, 51, 52, 33},
      files |-> (<<"A">> :> ContentOf(<<30, 31, 32, 33, 34, 35>>, 2, 11)) @@ (<<"B">> :> ContentOf(<<36, 37, 38, 39, 40>>, 2, 9))
             @@ (<<"S", "C">> :> ContentOf(<<41, 42>>, 2, 3)) @@ (<<"S", "h">> :> ContentOf(<<43, 0, 0, 44, 45>>, 2, 9))
             @@ (<<"S", "g">> :> ContentOf(<<46, 46, 0, 0, 0>>, 2, 10)),
      paths |-> {<<"A">>, <<"B">>, <<"S", "C">>, <<"S", "h">>, <<"S", "g">>, <<"y">>, <<"d">>, <<"A", "C">>},
      dirs |-> (<<>> :> {"A", "B", "S", "d"}) @@ (<<"S">> :> {"C", "h", "g"})]

\* HPFS: sectors of two units.  The root directory is a tree of dnodes; a file
\* has its extents in the fnode or in an anode.
Hpfs ==
  LET Fnode(internal, nodes) == [magic |-> "FNODE_MAGIC", internal |-> internal, nodes |-> nodes]
      Anode(up, nodes) == [magic |-> "ANODE_MAGIC", internal |-> FALSE, up |-> up, nodes |-> nodes]
      Extent(file_secno, length, disk_secno) == [file_secno |-> file_secno, length |-> length, disk_secno |-> disk_secno]
      InFnode(sec) == Fnode(FALSE, <<Extent(0, 1, sec)>>)
      Dnode(root, dirents) == [magic |-> "DNODE_MAGIC", root |-> root, dirents |-> dirents]
      Dirent2(name, fnode, size, down) ==
        [name |-> name, fnode |-> fnode, file_size |-> size, down |-> down, first |-> FALSE, last |-> FALSE]
      Self == [Dirent2(1, 20, 0, 0) EXCEPT !.first = TRUE]
      End(down) == [Dirent2(99, 0, 0, down) EXCEPT !.last = TRUE]
      blocks ==
        (0 :> [magic |-> "HPFS"]) @@ (16 :> [magic |-> "SB_MAGIC", version |-> 2, root |-> 20])
        @@ (20 :> InFnode(21)) @@ (21 :> Dnode(TRUE, <<Self, Dirent2(20, 33, 3, 22), Dirent2(40, 28, 0, 24), End(23)>>))
        @@ (22 :> Dnode(FALSE, <<Dirent2(10, 30, 11, 0), End(0)>>)) @@ (24 :> Dnode(FALSE, <<Dirent2(30, 31, 9, 0), End(0)>>))
        @@ (23 :> Dnode(FALSE, <<Dirent2(50, 35, 2, 0), End(0)>>))
        @@ (28 :> InFnode(29)) @@ (29 :> Dnode(TRUE, <<Self, Dirent2(11, 33, 3, 0), Dirent2(12, 35, 2, 0), End(0)>>))
        @@ (30 :> Fnode(FALSE, <<Extent(0, 2, 40), Extent(2, 1, 45), Extent(3, 3, 47)>>))
        @@ (31 :> Fnode(TRUE, <<[file_secno |-> 4, down |-> 32], [file_secno |-> 99, down |-> 34]>>))
        @@ (32 :> Anode(31, <<Extent(0, 1, 53), Extent(1, 3, 50)>>)) @@ (34 :> Anode(31, <<Extent(4, 1, 54)>>))
        @@ (33 :> Fnode(FALSE, <<Extent(0, 2, 42)>>)) @@ (35 :> Fnode(FALSE, <<Extent(0, 1, 44)>>))
        @@ DataBlocks(40..54, 2)
      three == ContentOf(<<42, 43>>, 2, 3)
      two == ContentOf(<<44>>, 2, 2)
  IN [fs |-> "hpfs", slice |-> 7, blocks |-> blocks, starts |-> {0, 3, 8}, fragile |-> {20, 21, 24, 30, 32, 45, 51},
      files |-> (<<10>> :> ContentOf(<<40, 41, 45, 47, 48, 49>>, 2, 11)) @@ (<<30>> :> ContentOf(<<53, 50, 51, 52, 54>>, 2, 9))
             @@ (<<20>> :> three) @@ (<<40, 11>> :> three) @@ (<<50>> :> two) @@ (<<40, 12>> :> two) @@ (<<40>> :> <<>>),
      paths |-> {<<10>>, <<30>>, <<40>>, <<40, 12>>, <<15>>, <<50>>, <<60>>}, edges |-> <<30>> :> {8}, dirs |-> <<40>> :> {11, 12}]

\* ISO 9660: sectors of four units; Rock Ridge names, one of them behind a
\* continuation, and a directory of two sectors.
Iso ==
  LET Rec(name, type, extent, size, chunks) == [name |-> name, type |-> type, extent |-> extent, size |-> size, chunks |-> chunks]
      NM(name) == [kind |-> "NM", name |-> name]
      PX(type) == [kind |-> "PX", type |-> type]
      CE(extent) == [kind |-> "CE", extent |-> extent]
      RR(flags) == [kind |-> "RR", flags |-> flags]
      Other == [kind |-> "TF"]
      Dots == <<Rec("self", "dir", 20, 8, <<>>), Rec("parent", "dir", 20, 8, <<>>)>>
      blocks ==
        (16 :> [type |-> "boot"]) @@ (17 :> [type |-> "ISO_VD_PRIMARY", root |-> [extent |-> 20, size |-> 8]])
        @@ (20 :> Dots \o <<Rec("A", "reg", 30, 11, <<>>), Rec("B", "reg", 34, 6, <<RR({"NM"}), NM("bb"), PX("dir")>>)>>)
        @@ (21 :> <<Rec("C", "reg", 36, 3, <<Other, CE(25), Other>>), Rec("S", "dir", 22, 4, <<PX("dir"), NM("ss")>>),
                    Rec("L", "reg", 37, 1, <<NM("link"), PX("other")>>)>>)
        @@ (22 :> Dots \o <<Rec("D", "reg", 36, 2, <<PX("reg"), CE(26)>>)>>)
        @@ (25 :> <<NM("cc"), PX("reg")>>) @@ (26 :> <<Other, NM("dd")>>) @@ DataBlocks(30..37, 4)
  IN [fs |-> "iso", blocks |-> blocks, starts |-> {0, 5}, fragile |-> {16, 21, 25, 32, 35}, also |-> {"C"},
      files |-> (<<"A">> :> ContentOf(<<30, 31, 32>>, 4, 11)) @@ (<<"bb">> :> ContentOf(<<34, 35>>, 4, 6))
             @@ (<<"cc">> :> ContentOf(<<36>>, 4, 3)) @@ (<<"ss", "dd">> :> ContentOf(<<36>>, 4, 2)),
      paths |-> {<<"A">>, <<"bb">>, <<"cc">>, <<"ss", "dd">>, <<"link">>, <<"B">>, <<"ss">>, <<"A", "x">>},
      dirs |-> (<<>> :> {"A", "bb", "cc", "ss", "link"}) @@ (<<"ss">> :> {"dd"})]

---------------------------------------------------------------------------
(* JFS: blocks of two units, groups of four inodes in extents of two       *)

\* The root directory is a tree of two pages, the file set's inode and a file
\* have trees of a page; a file in extents of its inode, links up and down; one
\* with a hole between its extents and one with holes around its only one.
Jfs ==
  LET Xad(offset, length, address) == [offset |-> offset, length |-> length, address |-> address]
      Inline(xads) == [leaf |-> TRUE, xads |-> xads, next |-> 0]
      Below(address) == [leaf |-> FALSE, xads |-> <<Xad(0, 9, address)>>, slots |-> <<[address |-> address]>>, next |-> 0]
      Slots(slots, next) == [leaf |-> TRUE, slots |-> slots, next |-> next]
      Slot(name, inumber) == [name |-> name, inumber |-> inumber]
      Node(mode, number, size, tree) ==
        [mode |-> mode, number |-> number, parent |-> 2, size |-> size, tree |-> tree, fast |-> FALSE, link |-> <<>>]
      None4 == Node("none", 0, 0, Inline(<<>>))
      blocks ==
        (64 :> [magic |-> "JFS_MAGIC"]) @@ (16 :> Node("none", 16, 0, Below(17)))
        @@ (17 :> Inline(<<Xad(0, 2, 20), Xad(2, 2, 24)>>)) @@ (21 :> <<26, 27>>) @@ (24 :> <<28, 29>>) @@ (25 :> <<34, 34>>)
        @@ (34 :> <<Node("reg", 8, 7, Inline(<<Xad(0, 1, 52), Xad(3, 1, 53)>>)), Node("reg", 9, 5, Inline(<<Xad(1, 1, 54)>>))>>)
        @@ (26 :> <<None4, None4>>) @@ (27 :> <<Node("dir", 2, 2, Below(30)), Node("reg", 3, 11, Inline(<<Xad(0, 2, 40), Xad(2, 1, 45), Xad(3, 3, 42)>>))>>)
        @@ (28 :> <<Node("reg", 4, 9, Below(18)), Node("dir", 5, 4, Slots(<<Slot("C", 4), Slot("up", 6), Slot("g", 8), Slot("k", 9)>>, 0))>>)
        @@ (29 :> <<[Node("link", 6, 2, Inline(<<>>)) EXCEPT !.fast = TRUE, !.link = <<"/", "A">>],
                    Node("link", 7, 2, Inline(<<Xad(0, 1, 38)>>))>>)
        @@ (18 :> Inline(<<Xad(0, 3, 46), Xad(3, 2, 50)>>)) @@ (38 :> <<"S", "C">>)
        @@ (30 :> Slots(<<Slot("A", 3), Slot("B", 4)>>, 31)) @@ (31 :> Slots(<<Slot("S", 5), Slot("down", 7)>>, 0))
        @@ DataBlocks(40..54, 2)
      a == ContentOf(<<40, 41, 45, 42, 43, 44>>, 2, 11)
      b == ContentOf(<<46, 47, 48, 50, 51>>, 2, 9)
  IN [fs |-> "jfs", blocks |-> blocks, starts |-> {0, 3, 5}, fragile |-> {16, 21, 28, 27, 45, 47, 50},
      files |-> (<<"A">> :> a) @@ (<<"B">> :> b) @@ (<<"S", "C">> :> b) @@ (<<"S", "up">> :> a) @@ (<<"down">> :> b)
             @@ (<<"S", "g">> :> ContentOf(<<52, 0, 0, 53>>, 2, 7)) @@ (<<"S", "k">> :> ContentOf(<<0, 54, 0>>, 2, 5)),
      paths |-> {<<"A">>, <<"B">>, <<"S", "C">>, <<"S", "up">>, <<"S", "g">>, <<"S", "k">>, <<"down">>, <<"S">>, <<"A", "x">>, <<"S", "x">>},
      dirs |-> (<<>> :> {"A", "B", "S", "down", ".", ".."}) @@ (<<"S">> :> {"C", "up", "g", "k", ".", ".."})]

---------------------------------------------------------------------------
(* XFS: blocks of two units, groups of 40 blocks whose numbers step by 64, *)
(* directory blocks of eight units with their index from block 16 on       *)

\* Files in extents and in a B-tree, across both groups; the root directory has
\* an index in three blocks, the others are in a block and in an inode; a file with
\* a hole between its extents and one with holes around its only one.
Xfs ==
  LET Xad(offset, len, start) == [offset |-> offset, len |-> len, start |-> start]
      Node(mode, size, xads) == [mode |-> mode, size |-> size, format |-> "extents", xads |-> xads]
      Btree(size, ptr) == [mode |-> "reg", size |-> size, format |-> "btree", ptr |-> ptr]
      Link(text) == [mode |-> "link", size |-> Len(text), format |-> "local", link |-> text]
      Dir(entries) == [mode |-> "dir", size |-> 1, format |-> "local", entries |-> entries, parent |-> 8]
      E(name, inumber) == [name |-> name, inumber |-> inumber]
      Free(n) == [free |-> n]
      LeafN(kind, count, stale, forw) == [kind |-> kind, count |-> count, stale |-> stale, forw |-> forw]
      Page(xads, right) == [level |-> 0, xads |-> xads, rightsib |-> right]
      blocks ==
        (0 :> [magic |-> "XFS_SB_MAGIC", version |-> "XFS_SB_VERSION_4", rootino |-> 8])
        @@ (4 :> <<Node("dir", 16, <<Xad(0, 4, 10), Xad(4, 2, 74), Xad(6, 2, 16), Xad(16, 4, 30), Xad(20, 8, 32)>>),
                   Node("reg", 11, <<Xad(0, 2, 84), Xad(2, 1, 19), Xad(3, 3, 86)>>)>>)
        @@ (5 :> <<Btree(9, 80), Link(<<"T", "C">>)>>) @@ (43 :> <<Dir(<<E("D", 9), E("up", 137), E("g", 12), E("k", 13)>>), Node("dir", 8, <<Xad(0, 4, 26)>>)>>)
        @@ (44 :> <<Node("reg", 3, <<Xad(0, 2, 92)>>), Node("link", 2, <<Xad(0, 1, 18)>>)>>) @@ (18 :> <<"/", "A">>)
        @@ (10 :> <<[magic |-> "DATA"], E(".", 8)>>) @@ (11 :> <<E("..", 8), E("A", 9)>>) @@ (12 :> <<E("B", 10), Free(3)>>) @@ (13 :> <<0, 0>>)
        @@ (50 :> <<[magic |-> "DATA"], Free(1)>>) @@ (51 :> <<E("S", 134), E("T", 135)>>) @@ (16 :> <<E("l", 11), Free(3)>>) @@ (17 :> <<0, 0>>)
        @@ (30 :> [kind |-> "NODE", before |-> 20]) @@ (32 :> LeafN("LEAFN", 4, 0, 24)) @@ (36 :> LeafN("LEAFN", 4, 1, 0))
        @@ (26 :> <<[magic |-> "XFS_DIR2_BLOCK_MAGIC"], E(".", 135)>>) @@ (27 :> <<E("..", 8), Free(1)>>)
        @@ (28 :> <<E("C", 136), Free(1)>>) @@ (29 :> <<0, LeafN("TAIL", 4, 1, 0)>>)
        @@ (56 :> [level |-> 1, ptr |-> 81]) @@ (57 :> Page(<<Xad(0, 2, 22)>>, 82)) @@ (58 :> Page(<<Xad(2, 1, 25), Xad(3, 2, 90)>>, 999))
        @@ (6 :> <<Node("reg", 7, <<Xad(0, 1, 7), Xad(3, 1, 8)>>), Node("reg", 5, <<Xad(1, 1, 9)>>)>>)
        @@ DataBlocks({7, 8, 9, 19, 22, 23, 25} \cup (60..69), 2)
      a == ContentOf(<<60, 61, 19, 62, 63, 64>>, 2, 11)
      c == ContentOf(<<68, 69>>, 2, 3)
  IN [fs |-> "xfs", blocks |-> blocks, starts |-> {0, 3, 5}, fragile |-> {5, 44, 61, 66},
      files |-> (<<"A">> :> a) @@ (<<"S", "D">> :> a) @@ (<<"S", "up">> :> a) @@ (<<"B">> :> ContentOf(<<22, 23, 25, 66, 67>>, 2, 9))
             @@ (<<"T", "C">> :> c) @@ (<<"l">> :> c) @@ (<<"S", "g">> :> ContentOf(<<7, 0, 0, 8>>, 2, 7)) @@ (<<"S", "k">> :> ContentOf(<<0, 9, 0>>, 2, 5)),
      paths |-> {<<"A">>, <<"B">>, <<"l">>, <<"S", "D">>, <<"S", "up">>, <<"S", "g">>, <<"S", "k">>, <<"T", "C">>, <<"T">>, <<"T", "x">>},
      dirs |-> (<<>> :> {"A", "B", "S", "T", "l", ".", ".."}) @@ (<<"S">> :> {"D", "up", "g", "k", ".", ".."}) @@ (<<"T">> :> {"C", ".", ".."})]

---------------------------------------------------------------------------
(* ReiserFS: blocks of two units, a journal of 16 blocks from block 20 on  *)

\* A tree of four levels.  The machine stopped before what the journal holds was
\* brought home: transaction 6 goes around the ring's end, 7 has more blocks than
\* a descriptor's numbers and one of 6's again, 8 a new root, 9 no commit.  One
\* file has a hole.
Reiser ==
  LET K(dir, obj, off) == dir * 10000 + obj * 100 + off
      Stat(dir, obj, mode, size) == [dir |-> dir, obj |-> obj, off |-> 0, type |-> "stat", mode |-> mode, size |-> size]
      Direct(dir, obj, off, units) == [dir |-> dir, obj |-> obj, off |-> off, type |-> "direct", units |-> units]
      Indirect(dir, obj, off, bs) == [dir |-> dir, obj |-> obj, off |-> off, type |-> "indirect", blocks |-> bs]
      Entries(dir, obj, off, list) == [dir |-> dir, obj |-> obj, off |-> off, type |-> "dir", entries |-> list]
      E(name, dir, obj) == [name |-> name, obj |-> <<dir, obj>>, visible |-> TRUE]
      Leaf(items) == [level |-> 1, keys |-> <<>>, children |-> <<>>, items |-> items]
      Inner(level, keys, children) == [level |-> level, keys |-> keys, children |-> children, items |-> <<>>]
      Super1(root) == [magic |-> "ReIsEr2Fs", version |-> 2, journal_block |-> 20, journal_size |-> 16, journal_dev |-> 0, root |-> root]
      Desc(id, len, real) == [desc |-> TRUE, id |-> id, len |-> len, mount |-> 3, real |-> real]
      Commit(id, len, real) == [commit |-> TRUE, id |-> id, len |-> len, real |-> real]
      Old(obj) == Leaf(<<Stat(2, obj, "dir", 1)>>)
      blocks ==
        (0 :> BootBlock) @@ (16 :> Super1(40)) @@ (40 :> Inner(4, <<>>, <<64>>)) @@ (41 :> Inner(4, <<K(2, 12, 1)>>, <<64, 65>>))
        @@ (64 :> Inner(3, <<K(2, 10, 1)>>, <<60, 61>>)) @@ (65 :> Inner(3, <<K(12, 13, 5)>>, <<62, 63>>))
        @@ (60 :> Inner(2, <<K(1, 2, 30)>>, <<50, 51>>)) @@ (61 :> Inner(2, <<K(2, 11, 0)>>, <<52, 53>>))
        @@ (62 :> Inner(2, <<>>, <<54>>)) @@ (63 :> Inner(2, <<K(12, 15, 0)>>, <<56, 57>>))
        @@ (50 :> Leaf(<<Stat(1, 2, "dir", 1), Entries(1, 2, 1, <<E(".", 1, 2), E("..", 0, 1), E("A", 2, 10), [E("x", 2, 11) EXCEPT !.visible = FALSE]>>)>>))
        @@ (51 :> Old(10)) @@ (52 :> Old(10)) @@ (53 :> Old(11))
        @@ (54 :> Leaf(<<Entries(2, 12, 1, <<E(".", 2, 12), E("..", 1, 2), E("C", 12, 13), E("up", 12, 15)>>), Stat(2, 14, "link", 2), Direct(2, 14, 1, <<"S", "C">>)>>))
        @@ (55 :> Leaf(<<Stat(12, 13, "reg", 9), Indirect(12, 13, 1, <<72, 73>>)>>))
        @@ (56 :> Leaf(<<Indirect(12, 13, 5, <<0, 75>>), Direct(12, 13, 9, <<5601>>)>>))
        @@ (57 :> Leaf(<<Stat(12, 15, "link", 2), Direct(12, 15, 1, <<"/", "A">>)>>))
        @@ (36 :> [first |-> 13, last |-> 5, mount |-> 3])
        @@ (33 :> Desc(6, 2, <<52, 53>>)) @@ (34 :> Old(10))
        @@ (35 :> Leaf(<<Stat(2, 11, "reg", 3), Direct(2, 11, 1, <<5301, 5302, 5303>>), Stat(2, 12, "dir", 1)>>)) @@ (20 :> Commit(6, 2, <<>>))
        @@ (21 :> Desc(7, 3, <<52, 62>>)) @@ (22 :> Leaf(<<Indirect(2, 10, 1, <<70, 71>>), Direct(2, 10, 5, <<5201, 5202, 5203>>)>>))
        @@ (23 :> Inner(2, <<K(12, 13, 0)>>, <<54, 55>>))
        @@ (24 :> Leaf(<<Entries(1, 2, 30, <<E("B", 2, 11), E("S", 2, 12), E("l", 2, 14)>>), Stat(2, 10, "reg", 7)>>)) @@ (25 :> Commit(7, 3, <<51>>))
        @@ (26 :> Desc(8, 1, <<16>>)) @@ (27 :> Super1(41)) @@ (28 :> Commit(8, 1, <<>>))
        @@ (29 :> Desc(9, 1, <<50>>)) @@ (30 :> Old(2)) @@ (31 :> Commit(3, 1, <<>>)) @@ (32 :> Old(2))
        @@ DataBlocks(70..75, 2)
      a == ContentOf(<<70, 71>>, 2, 4) \o <<5201, 5202, 5203>>
      c == ContentOf(<<72, 73, 0, 75>>, 2, 8) \o <<5601>>
  IN [fs |-> "reiser", blocks |-> blocks, starts |-> {0, 3, 6}, fragile |-> {24, 26, 57, 71},
      files |-> (<<"A">> :> a) @@ (<<"B">> :> <<5301, 5302, 5303>>) @@ (<<"S", "C">> :> c) @@ (<<"S", "up">> :> a) @@ (<<"l">> :> c),
      paths |-> {<<"A">>, <<"B">>, <<"S", "C">>, <<"S", "up">>, <<"l">>, <<"x">>},
      dirs |-> (<<>> :> {".", "..", "A", "B", "S", "l"}) @@ (<<"S">> :> {".", "..", "C", "up"})]

---------------------------------------------------------------------------
(* NTFS: blocks of two units, records and index blocks of two blocks, the  *)
(* clusters of a compressed file together by four, two to a chunk          *)

NtfsAttr(type, id, vcn, runs, size) ==
  [type |-> type, id |-> id, nonres |-> TRUE, comp |-> FALSE, vcn |-> vcn, runs |-> runs, size |-> size, data |-> <<>>, entries |-> <<>>]
Resident(type, id, data) == [NtfsAttr(type, id, 0, <<>>, 0) EXCEPT !.nonres = FALSE, !.data = data]
IndexRoot(entries) == [Resident("ROOT", 9, <<>>) EXCEPT !.entries = entries]
NtfsRecord(dir, attrs) == [kind |-> "FILE", attrs |-> attrs, dir |-> dir, used |-> TRUE]
NtfsName(name, mft) == [name |-> name, mft |-> mft, system |-> FALSE]
Run(len, delta) == [len |-> len, delta |-> delta]
ListEntry(type, vcn, mft, id) == [type |-> type, vcn |-> vcn, mft |-> mft, id |-> id, at |-> <<>>]

\* Each of the records or index blocks of s in two blocks from `first` on.
TwoBlocksEach(first, s) ==
  [b \in first .. first + 2 * Len(s) - 1 |-> IF (b - first) % 2 = 0 THEN <<s[1 + (b - first) \div 2], 0>> ELSE <<0, 0>>]
NtfsBoot(spc) == [ntfs |-> TRUE, spc |-> spc, mft_start |-> 4]
NtfsMft(runs) == NtfsRecord(FALSE, <<NtfsAttr("DATA", 1, 0, runs, 40)>>)
FreeRecord == [NtfsRecord(FALSE, <<>>) EXCEPT !.used = FALSE]

\* The table of records is in two parts, and its second part noted in a record
\* of its own; a sparse file, a file whose runs are in two records, a small one
\* and a small directory; a big directory with a block of it not in use.
Ntfs ==
  LET records == <<
        NtfsRecord(FALSE, <<Resident("LIST", 0, <<ListEntry("DATA", 0, 0, 1), ListEntry("DATA", 12, 3, 7)>>), NtfsAttr("DATA", 1, 0, <<Run(12, 4)>>, 40)>>),
        FreeRecord, FreeRecord, NtfsRecord(FALSE, <<NtfsAttr("DATA", 7, 12, <<Run(8, 60)>>, 0)>>),
        NtfsRecord(FALSE, <<NtfsAttr("DATA", 2, 0, <<Run(2, 30), Run(1, 0), Run(2, 5)>>, 9)>>),
        NtfsRecord(TRUE, <<IndexRoot(<<NtfsName("S", 8), [NtfsName("$B", 0) EXCEPT !.system = TRUE]>>),
                           NtfsAttr("ALLOC", 3, 0, <<Run(4, 20), Run(2, 6)>>, 12), Resident("BITMAP", 4, <<TRUE, FALSE, TRUE>>)>>)>>
      more == <<
        NtfsRecord(FALSE, <<NtfsAttr("LIST", 0, 0, <<Run(1, 40)>>, 2), NtfsAttr("DATA", 2, 0, <<Run(2, 42)>>, 7)>>),
        NtfsRecord(FALSE, <<NtfsAttr("DATA", 3, 2, <<Run(1, 45), Run(1, 2)>>, 0)>>),
        NtfsRecord(TRUE, <<IndexRoot(<<NtfsName("R", 9), NtfsName("d", 2)>>)>>), NtfsRecord(FALSE, <<Resident("DATA", 1, <<901, 902, 903>>)>>)>>
      Index(entries) == [kind |-> "INDX", entries |-> entries]
      blocks ==
        (0 :> NtfsBoot(1)) @@ TwoBlocksEach(4, records) @@ TwoBlocksEach(60, more)
        @@ TwoBlocksEach(20, <<Index(<<NtfsName("A", 4)>>), Index(<<NtfsName("y", 2)>>)>>) @@ TwoBlocksEach(26, <<Index(<<NtfsName("L", 6)>>)>>)
        @@ (40 :> <<ListEntry("DATA", 0, 6, 2), ListEntry("DATA", 2, 7, 3)>>) @@ DataBlocks({30, 31, 35, 36} \cup (42..48), 2)
  IN [fs |-> "ntfs", blocks |-> blocks, starts |-> {0, 3, 6}, fragile |-> {11, 12, 26, 31, 40, 47, 62},
      files |-> (<<"A">> :> ContentOf(<<30, 31, 0, 35, 36>>, 2, 9)) @@ (<<"L">> :> ContentOf(<<42, 43, 45, 47>>, 2, 7)) @@ (<<"S", "R">> :> <<901, 902, 903>>),
      paths |-> {<<"A">>, <<"L">>, <<"S", "R">>, <<"y">>, <<"S", "d">>, <<"A", "x">>},
      dirs |-> (<<>> :> {"A", "L", "S"}) @@ (<<"S">> :> {"R", "d"})]

\* A compressed file: clusters of which three hold two chunks, one of these
\* stored, four in a hole, four that are not compressed, and the last chunk.
NtfsCompressed ==
  LET Header(size, yields) == [size |-> size, yields |-> yields]
      ones == <<1, 2, 3, 4>>
      fives == <<5, 6, 7>>
      stream == <<Header(0, ones), Header(4, <<>>)>> \o UnitsOf(30, 4)
      file == [NtfsAttr("DATA", 2, 0, <<Run(2, 30), Run(1, 6), Run(5, 0), Run(4, 14), Run(1, 10), Run(3, 0)>>, 27) EXCEPT !.comp = TRUE]
      records == <<NtfsMft(<<Run(12, 4)>>), FreeRecord, FreeRecord, FreeRecord, NtfsRecord(FALSE, <<file>>),
                   NtfsRecord(TRUE, <<IndexRoot(<<NtfsName("C", 4)>>)>>)>>
      blocks ==
        (0 :> NtfsBoot(1)) @@ TwoBlocksEach(4, records) @@ (30 :> SubSeq(stream, 1, 2)) @@ (31 :> SubSeq(stream, 3, 4)) @@ (36 :> SubSeq(stream, 5, 6))
        @@ (60 :> <<Header(1, Append(fives, 0)), 0>>) @@ DataBlocks(50..53, 2)
  IN [fs |-> "ntfs", blocks |-> blocks, starts |-> {0, 5, 14, 22}, fragile |-> {31, 51},
      files |-> <<"C">> :> ones \o UnitsOf(30, 4) \o Hole(8) \o ContentOf(<<50, 51, 52, 53>>, 2, 8) \o fives,
      paths |-> {<<"C">>}, dirs |-> <<>> :> {"C"}]

\* Clusters of two blocks, and a file that fills one and most of the next.
NtfsClusters ==
  LET records == <<NtfsMft(<<Run(6, 2)>>), FreeRecord, FreeRecord, FreeRecord, NtfsRecord(FALSE, <<NtfsAttr("DATA", 2, 0, <<Run(2, 15)>>, 7)>>),
                   NtfsRecord(TRUE, <<IndexRoot(<<NtfsName("A", 4)>>)>>)>>
  IN [fs |-> "ntfs", blocks |-> (0 :> NtfsBoot(2)) @@ TwoBlocksEach(4, records) @@ DataBlocks(30..33, 2), starts |-> {0, 4}, fragile |-> {},
      files |-> <<"A">> :> ContentOf(<<30, 31, 32, 33>>, 2, 7), paths |-> {<<"A">>}, dirs |-> <<>> :> {"A"}]

NtfsImages == [ntfs |-> Ntfs, ntfsz |-> NtfsCompressed, ntfsclusters |-> NtfsClusters]

UfsImages == [ffs |-> UfsDisk("FS_MAGIC", 2, 1), ufs2 |-> UfsDisk("FS_UFS2_MAGIC", 2, 2)]
=============================================================================
