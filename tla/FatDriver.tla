------------------------------ MODULE FatDriver ------------------------------
(***************************************************************************)
(* filesys/fsys_fat.c: FAT12, FAT16, FAT32 and exFAT.  The driver walks the *)
(* chain of a file's clusters in the allocation table, of which it keeps   *)
(* some sectors (FAT_BUF, `cached_fat`), and remembers between calls where *)
(* in the chain it is.  Offsets in the table count half bytes, so that     *)
(* FAT12's entries lie across sectors.  What is in FAT_BUF is told by the  *)
(* sector it was loaded from: `loaded`, which the code does not keep.      *)
(***************************************************************************)
EXTENDS FileDriver

CONSTANTS SECTOR_SIZE,          \* units of a file in a sector
          FAT_CACHE_SECTORS,    \* FAT_CACHE_SIZE in sectors
          FAT_MAX_12BIT_CLUST,
          EOF_MARKER            \* every number from here on ends a chain

HalfBytes == 2 * SECTOR_SIZE
Invalid == -(FAT_CACHE_SECTORS * HalfBytes)

CeilDiv(a, b) == (a + b - 1) \div b

---------------------------------------------------------------------------
(* fat_mount()                                                             *)

\* What the boot sector p says, or None if it is not taken.
SuperOfFat(p) ==
  LET fat_length == IF p.fat_length # 0 THEN p.fat_length ELSE p.fat32_length
      root_offset == p.reserved_sects + p.num_fats * fat_length
      data_offset == root_offset + CeilDiv(p.dir_entries, SECTOR_SIZE)
      num_clust == 2 + (p.sectors - data_offset) \div p.sects_per_clust
      type == IF p.fat_length = 0 THEN 32
              ELSE IF num_clust > FAT_MAX_12BIT_CLUST THEN 16 ELSE 12
      size == CASE type = 32 -> 8 [] type = 16 -> 4 [] type = 12 -> 3
      active == IF type = 32 /\ p.mirror_off THEN p.active_fat ELSE 0
  IN IF \/ p.sects_per_clust \notin {1, 2, 4} \/ p.reserved_sects = 0
        \/ p.num_fats \notin {1, 2} \/ p.secs_track = 0 \/ p.heads = 0
        \/ (type = 32) = (p.dir_entries # 0) \/ active >= p.num_fats
        \/ num_clust <= 2 \/ (size * num_clust) \div HalfBytes > fat_length
     THEN None
     ELSE [fat_type |-> type, fat_size |-> size, fat_offset |-> p.reserved_sects + (active * fat_length),
           root_offset |-> root_offset, root_max |-> p.dir_entries, data_offset |-> data_offset,
           num_clust |-> num_clust, sects_per_clust |-> p.sects_per_clust,
           root_cluster |-> IF type = 32 THEN p.root_cluster ELSE -1]

SuperOfExfat(p) ==
  IF \/ p.fat_count \notin {1, 2} \/ (p.second_active /\ p.fat_count < 2)
     \/ p.cluster_count <= 2 \/ (8 * p.cluster_count) \div HalfBytes > p.fat_sector_count
  THEN None
  ELSE [fat_type |-> 64, fat_size |-> 8,
        fat_offset |-> p.fat_sector_start + IF p.second_active THEN p.fat_sector_count ELSE 0,
        root_offset |-> p.cluster_sector_start, root_max |-> 0,
        data_offset |-> p.cluster_sector_start, num_clust |-> p.cluster_count,
        sects_per_clust |-> p.sects_per_clust, root_cluster |-> p.rootdir_cluster]

\* The boot sector is read, then the first entry of the table, whose value is
\* not looked at any more.
FatMounted(d, super) ==
  IF super = None THEN [d |-> d, ok |-> FALSE]
  ELSE IF ~Readable(d, super.fat_offset) THEN [d |-> Devread(d, super.fat_offset), ok |-> FALSE]
  ELSE [d |-> [d EXCEPT !.mem = [super |-> super, cached_fat |-> Invalid, loaded |-> None,
                                 file_cluster |-> 0, contig_size |-> 0, taint |-> FALSE,
                                 current_cluster_num |-> 0, current_cluster |-> 0]],
        ok |-> TRUE]

FatMount(d) ==
  LET p == image.blocks[0]
  IN IF ~Readable(d, 0) THEN [d |-> Devread(d, 0), ok |-> FALSE]
     ELSE FatMounted(d, IF p.fat_length = 0 /\ p.fat32_length = 0 THEN SuperOfExfat(p) ELSE SuperOfFat(p))

---------------------------------------------------------------------------
(* fat_read()                                                              *)

ClusterSize(d) == d.mem.super.sects_per_clust * SECTOR_SIZE

\* The entry at the offset pos in half bytes of FAT_BUF: the disk's table at
\* that place, or any number if no entry starts there.  What memory holds before
\* a table was read to it is `image.buffer`.
EntryAt(d, pos) ==
  LET loaded == d.mem.loaded
      table == image.tables[loaded]
      at == table.from * HalfBytes + pos
      n == at \div d.mem.super.fat_size
  IN IF loaded # None /\ at % d.mem.super.fat_size = 0 /\ n \in DOMAIN table.entries THEN table.entries[n] ELSE image.buffer

\* cached_fat is set before the sectors are read.  The offset of the entry of the
\* cluster -1 is a number without a sign, and the sector outside the partition.
SectorsFrom(d, base) ==
  LET first == IF base < 0 THEN MAXINT ELSE d.mem.super.fat_offset + base \div HalfBytes
  IN first .. first + FAT_CACHE_SECTORS - 1

LoadFat(d, base) ==
  IF \A s \in SectorsFrom(d, base) : Readable(d, s)
  THEN [d EXCEPT !.mem.cached_fat = base, !.mem.taint = FALSE,
                 !.mem.loaded = d.mem.super.fat_offset + base \div HalfBytes]
  ELSE [Devread(d, CHOOSE s \in SectorsFrom(d, base) : ~Readable(d, s)) EXCEPT
          !.mem.cached_fat = base, !.mem.taint = TRUE]

Cached(d, fat_entry) ==
  /\ fat_entry >= d.mem.cached_fat
  /\ fat_entry - d.mem.cached_fat + d.mem.super.fat_size <= FAT_CACHE_SECTORS * HalfBytes

\* The loop to the logical cluster: [d, at], at is "there", "eof" or "error".
RECURSIVE ToCluster(_, _)

Follow(d, next, logical) ==
  CASE next >= EOF_MARKER -> [d |-> d, at |-> "eof"]
    [] next < 2 \/ next \in d.mem.super.num_clust .. EOF_MARKER - 1 ->
         [d |-> Failing(d, "ERR_FSYS_CORRUPT"), at |-> "error"]
    [] OTHER -> ToCluster([d EXCEPT !.mem.current_cluster = next, !.mem.current_cluster_num = @ + 1], logical)

WithTable(d, fat_entry, logical) ==
  IF d.mem.taint THEN [d |-> d, at |-> "error"]
  ELSE Follow(d, EntryAt(d, fat_entry - d.mem.cached_fat), logical)

ToCluster(d, logical) ==
  LET fat_entry == d.mem.current_cluster * d.mem.super.fat_size
  IN IF logical <= d.mem.current_cluster_num THEN [d |-> d, at |-> "there"]
     ELSE IF Cached(d, fat_entry) THEN Follow(d, EntryAt(d, fat_entry - d.mem.cached_fat), logical)
     ELSE WithTable(LoadFat(d, fat_entry - (fat_entry % HalfBytes)), fat_entry, logical)

\* devread() of n units at the offset off from a sector, over several sectors.
Units(d, sector, off, n) ==
  LET at(i) == sector + (off + i - 1) \div SECTOR_SIZE
      fails == {i \in 1..n : ~Readable(d, at(i))}
  IN IF fails # {} THEN [d |-> Devread(d, at(CHOOSE i \in fails : TRUE)), ok |-> FALSE, bytes |-> Junk(n)]
     ELSE [d |-> d, ok |-> TRUE, bytes |-> [i \in 1..n |-> image.blocks[at(i)][((off + i - 1) % SECTOR_SIZE) + 1]]]

SectorOf(d, cluster) == d.mem.super.data_offset + (cluster - 2) * d.mem.super.sects_per_clust

\* errnum of a unit that could not be read is looked at in the end only.
RECURSIVE ReadClusters(_, _, _)

AfterUnits(u, size, len, got) == ReadClusters([u.d EXCEPT !.pos = @ + size], len - size, got \o u.bytes)

AtCluster(w, offset, len, got) ==
  LET size == Least(ClusterSize(w.d) - offset, len)
  IN CASE w.at = "error" -> [d |-> w.d, bytes |-> <<>>]
       [] w.at = "eof"   -> [d |-> w.d, bytes |-> got]
       [] w.at = "there" -> AfterUnits(Units(w.d, SectorOf(w.d, w.d.mem.current_cluster), offset, size), size, len, got)

ReadClusters(d, len, got) ==
  IF len = 0 THEN [d |-> d, bytes |-> IF d.err = NoError THEN got ELSE <<>>]
  ELSE AtCluster(ToCluster(d, d.pos \div ClusterSize(d)), d.pos % ClusterSize(d), len, got)

\* Going back means starting at the file's first cluster again.
Rewound(d) ==
  IF d.pos \div ClusterSize(d) < d.mem.current_cluster_num
  THEN [d EXCEPT !.mem.current_cluster_num = 0, !.mem.current_cluster = d.mem.file_cluster]
  ELSE d

\* FAT12's and FAT16's root directory, in front of the clusters.  fat_mount()
\* gives it the cluster -1, fat_read() looks for MAXINT.
RootUnits(u, size) ==
  IF u.ok THEN [d |-> [u.d EXCEPT !.pos = @ + size], bytes |-> u.bytes] ELSE [d |-> u.d, bytes |-> <<>>]

ReadRoot(d, len) ==
  LET size == Least(len, d.mem.super.root_max - d.pos)
  IN IF d.mem.super.root_max <= d.pos \/ d.mem.super.fat_type > 16 THEN [d |-> d, bytes |-> <<>>]
     ELSE RootUnits(Units(d, d.mem.super.root_offset, d.pos, size), size)

\* exFAT's files without a chain.
ContiguousUnits(u, size) ==
  [d |-> [u.d EXCEPT !.pos = @ + size, !.mem.current_cluster_num = 0, !.mem.current_cluster = u.d.mem.file_cluster],
   bytes |-> IF u.d.err = NoError THEN u.bytes ELSE <<>>]

ReadContiguous(d, len) ==
  LET size == Least(len, d.mem.contig_size - d.pos)
  IN IF d.pos >= d.mem.contig_size THEN [d |-> d, bytes |-> <<>>]
     ELSE ContiguousUnits(Units(d, SectorOf(d, d.mem.file_cluster), d.pos, size), size)

FatRead(d, len) ==
  IF len = 0 THEN [d |-> d, bytes |-> <<>>]
  ELSE IF d.mem.file_cluster = MAXINT THEN ReadRoot(d, len)
  ELSE IF d.mem.super.fat_type = 64 /\ d.mem.contig_size # 0 THEN ReadContiguous(d, len)
  ELSE ReadClusters(Rewound(d), len, <<>>)

---------------------------------------------------------------------------
(* fat_dir().  A name is a sequence of parts: thirteen (exFAT: fifteen)    *)
(* characters in an entry.  `st` is what the loop over the entries keeps:  *)
(* the slot and checksum of a long name, exFAT's expected entry and what   *)
(* the entries before told of the file.                                    *)

Blank == <<>>   \* the name asked for in a listing

ExfatStart == [next |-> "file", count |-> 0, seen |-> 0, dir |-> TRUE, cluster |-> 0, size |-> 0, contig |-> FALSE]
NewSearch == [slot |-> -2, sum |-> -1, parts |-> <<>>, ex |-> ExfatStart]

\* A part of a long name, which is written from its end: [st, names].
LongEntry(st, e) ==
  LET s == IF e.first THEN [st EXCEPT !.slot = e.id, !.sum = e.sum, !.parts = [i \in 1..e.id |-> ""]] ELSE st
  IN [names |-> <<>>,
      st |-> IF e.id # s.slot \/ s.slot = 0 \/ s.sum # e.sum THEN [s EXCEPT !.sum = -1]
             ELSE [s EXCEPT !.slot = @ - 1, !.parts[e.id] = e.part]]

\* The checksum of the short name is not compared with the long name's.
ShortEntryUnchecked(st, e) ==
  IF st.slot = 0 THEN [st |-> [st EXCEPT !.slot = -2], names |-> <<st.parts, e.name>>]
  ELSE [st |-> st, names |-> <<e.name>>]

\* The names under which the file is looked for, the long one first.
ShortEntry(st, e) ==
  IF st.sum # -1 /\ st.slot = 0
  THEN [st |-> [st EXCEPT !.slot = -2], names |-> IF e.sum = st.sum THEN <<st.parts, e.name>> ELSE <<e.name>>]
  ELSE [st |-> st, names |-> <<e.name>>]

\* exFAT: a set of entries must come in its order; one out of order is left
\* out, also when it begins a set of its own.
ExfatEntry(st, e) ==
  LET ex == st.ex
      all == ex.seen + 1 >= ex.count
  IN IF e.kind # ex.next THEN [st |-> [st EXCEPT !.ex.next = "file"], names |-> <<>>]
     ELSE CASE e.kind = "file" ->
            [st |-> [st EXCEPT !.ex.dir = e.dir, !.ex.seen = 0, !.ex.next = "info",
                               !.ex.count = IF e.count \in 2..18 THEN e.count - 1 ELSE e.count],
             names |-> <<>>]
          [] e.kind = "info" ->
            [st |-> [st EXCEPT !.ex.cluster = e.cluster, !.ex.size = e.size, !.ex.contig = e.contig, !.ex.next = "name"],
             names |-> <<>>]
          [] e.kind = "name" ->
            LET parts == SubSeq(st.parts, 1, ex.seen) \o <<e.part>>
            IN [st |-> [st EXCEPT !.parts = parts, !.ex.seen = @ + 1, !.ex.next = IF all THEN "file" ELSE "name"],
                names |-> IF all THEN <<parts>> ELSE <<>>]

Entry(d, st, e) ==
  IF d.mem.super.fat_type = 64 THEN ExfatEntry(st, e)
  ELSE CASE e.kind = "long" -> LongEntry(st, e)
         [] e.kind = "short" -> ShortEntry(st, e)
         [] OTHER -> [st |-> st, names |-> <<>>]    \* deleted, or a volume's name

\* What an entry that was found says of the file.
FoundEntry(d, st, e) ==
  IF d.mem.super.fat_type = 64
  THEN [dir |-> st.ex.dir, size |-> st.ex.size, cluster |-> st.ex.cluster, contig |-> st.ex.contig]
  ELSE [dir |-> e.dir, size |-> e.size, cluster |-> e.cluster, contig |-> FALSE]

\* The loop over the entries of a directory: [d, st, found, names].
RECURSIVE Search(_, _, _, _, _)

Matched(d, x, e, name, listing, names) ==
  CASE x.names = <<>> -> Search(d, x.st, name, listing, names)
    [] x.names # <<>> /\ listing -> Search(d, x.st, name, listing, names \cup {x.names[1]})
    [] x.names # <<>> /\ ~listing /\ name \in ToSet(x.names) ->
         [d |-> d, st |-> x.st, found |-> FoundEntry(d, x.st, e), names |-> names]
    [] OTHER -> Search(d, [x.st EXCEPT !.sum = -1], name, listing, names)

\* A failed reading of the table, or of the root directory's place, can lead to
\* sectors that are no directory's, in which nothing of meaning is found.
Astray(d) == SectorOf(d, d.mem.current_cluster) \notin image.directories

AtEntry(r, st, name, listing, names) ==
  IF r.bytes = <<>> \/ Astray(r.d) \/ r.bytes[1].kind = "end"
  THEN [d |-> IF r.d.err = NoError /\ names = {} THEN Failing(r.d, "ERR_FILE_NOT_FOUND") ELSE r.d,
        st |-> st, found |-> None, names |-> names]
  ELSE Matched(r.d, Entry(r.d, st, r.bytes[1]), r.bytes[1], name, listing, names)

Search(d, st, name, listing, names) == AtEntry(FatRead(d, 1), st, name, listing, names)

\* The loop over the names of a path; attrib says whether what was found last
\* is a directory: [d, ok, names].
RECURSIVE Walk(_, _, _, _)

Searched(s, path) ==
  LET f == s.found
      round == s.d.mem.super.sects_per_clust * SECTOR_SIZE
      contig == IF s.d.mem.super.fat_type = 64 /\ f.contig THEN CeilDiv(f.size, round) * round ELSE 0
  IN IF f = None
     THEN [d |-> s.d, ok |-> path = <<Blank>> /\ s.names # {} /\ s.d.err = NoError, names |-> s.names]
     ELSE Walk([s.d EXCEPT !.max = f.size, !.mem.file_cluster = f.cluster, !.mem.contig_size = contig],
               s.st, Tail(path), f.dir)

Walk(d0, st, path, dir) ==
  LET d == [d0 EXCEPT !.pos = 0, !.mem.current_cluster_num = MAXINT]
  IN CASE path = <<>> /\ ~dir -> [d |-> d, ok |-> TRUE, names |-> {}]
       [] (path = <<>>) = dir -> [d |-> Failing(d, "ERR_BAD_FILETYPE"), ok |-> FALSE, names |-> {}]
       [] path # <<>> /\ dir ->
            Searched(Search([d EXCEPT !.max = MAXINT], st, Head(path), path = <<Blank>>, {}), path)

FatDir(d, path) ==
  Walk([d EXCEPT !.mem.file_cluster = d.mem.super.root_cluster, !.mem.contig_size = 0], NewSearch, path, TRUE)

---------------------------------------------------------------------------

Mount == \E bad \in Faults : Mounted(bad, FatMount(Now(bad)))
Open == \E path \in image.paths, bad \in Faults : mem # None /\ Opened(path, bad, FatDir(Opening(bad), path))
List == \E path \in DOMAIN image.dirs, bad \in Faults :
          mem # None /\ Listed(path, bad, FatDir(Now(bad), Append(path, Blank)))
Read == \E len \in Lengths, bad \in Faults :
          file # None /\ Delivered(len, bad, FatRead(Clamped(bad), Length(len)))
Reposition == \E pos \in image.starts : Seek(pos)

Next == Mount \/ Open \/ List \/ Read \/ Reposition
Spec == DriverInit /\ [][Next]_dvars
===============================================================================
