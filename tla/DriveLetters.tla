---------------------------- MODULE DriveLetters ----------------------------
(***************************************************************************)
(* kernels/ufsd/drv.c: which drive letter the partition OS/2 boots from    *)
(* gets, and where that partition begins.  A disk is what its sectors hold *)
(* at the place of a partition table (`tables`) and as LVM's letter table  *)
(* (`letters`); a sector that is no table has boot code there, which reads *)
(* as a table all the same.  Letters are numbers, 0 for A.                 *)
(***************************************************************************)
EXTENDS Integers, Sequences, FiniteSets, SequencesExt

CONSTANTS MaxEbrs,   \* the longest chain of extended partitions
          Track,     \* buf_geom.sectors
          BootCode,  \* what boot code reads as: an entry
          None

LetterC == 2
Extended(e) == e.type \in {5, 15}
Empty == [type |-> 0, start |-> 0]
TableAt(disk, sector) == IF sector \in DOMAIN disk.tables THEN disk.tables[sector] ELSE [i \in 1..4 |-> BootCode]

\* Tables that follow the extended partition `first` of the first table; the
\* places are relative to it, and of two extended entries the second counts.
Ebrs(disk, first) ==
  LET NextAfter(sector) == {i \in 1..2 : Extended(TableAt(disk, sector)[i])}
      chain[n \in 1..MaxEbrs] ==
        IF n = 1 THEN <<first.start>>
        ELSE LET before == chain[n - 1] IN
             IF NextAfter(Last(before)) = {} THEN before
             ELSE LET i == CHOOSE i \in NextAfter(Last(before)) : \A j \in NextAfter(Last(before)) : j <= i
                  IN before \o (IF Len(before) = n - 1 THEN <<first.start + TableAt(disk, Last(before))[i].start>> ELSE <<>>)
  IN chain[MaxEbrs]

Mbr(disk) == TableAt(disk, 0)
ExtendedOnes(disk) == {i \in 1..4 : Extended(Mbr(disk)[i])}

\* The letters a disk takes: of its primary partitions one, and every logical.
Supported(table, n, types) == Cardinality({i \in 1..n : table[i].type \in types /\ ~Extended(table[i])})

get_num_parts(disk, types) ==
  (IF Supported(Mbr(disk), 4, types) > 0 THEN 1 ELSE 0)
  + (IF ExtendedOnes(disk) = {} THEN 0
     ELSE LET first == CHOOSE i \in ExtendedOnes(disk) : \A j \in ExtendedOnes(disk) : j <= i
          IN FoldLeft(LAMBDA n, sector : n + Supported(TableAt(disk, sector), 2, types), 0, Ebrs(disk, Mbr(disk)[first])))

\* The disks BIOS counts, other than the one booted from.
assign_auto(disks, boot, types) ==
  LetterC + FoldLeft(LAMBDA n, d : n + (IF d.number = boot \/ ~d.fixed THEN 0 ELSE get_num_parts(d, types)), 0, disks)

\* Walks to the table partition part_no is in.  All entries of a table but the
\* extended ones are counted, empty ones too.
Walk(disk, part_no) ==
  FoldLeft(LAMBDA a, sector :
             IF a.there THEN a
             ELSE [start |-> sector, there |-> a.parts = part_no,
                   parts |-> a.parts + Cardinality({i \in 1..2 : ~Extended(TableAt(disk, sector)[i])})],
           [start |-> 0, there |-> FALSE, parts |-> 4],
           Ebrs(disk, Mbr(disk)[CHOOSE i \in ExtendedOnes(disk) : \A j \in ExtendedOnes(disk) : i <= j])).start

EbrOf(disk, part_no) ==
  IF part_no < 4 THEN Mbr(disk)[part_no + 1].start ELSE IF ExtendedOnes(disk) = {} THEN 0 ELSE Walk(disk, part_no)

\* Asked for the partition, the sector found is read as a table once more.
WithinEbr(table) ==
  LET i == IF ~Extended(table[1]) THEN 1 ELSE IF ~Extended(table[2]) THEN 2 ELSE 3 IN table[i].start
offset(disk, part_no, flag) ==
  LET ebr == EbrOf(disk, part_no) IN IF flag = 0 THEN ebr ELSE ebr + WithinEbr(TableAt(disk, ebr))

\* LVM's table is in the last sector of a track: of the first one, or of the
\* logical partition's.
DlaSector(disk, part_no) == (IF part_no < 4 THEN 0 ELSE offset(disk, part_no, 0)) + Track - 1

dla(disk, part_no) ==
  LET sector == DlaSector(disk, part_no) IN
  IF sector \notin DOMAIN disk.letters THEN None ELSE disk.letters[sector][IF part_no < 4 THEN part_no + 1 ELSE 1]

assign_dlat(disk, part_no) == IF dla(disk, part_no) = None THEN LetterC ELSE dla(disk, part_no)

assign_drvletter(mode, m) ==
  CASE mode.kind = "none" -> LetterC
    [] mode.kind = "auto" -> assign_auto(m.disks, m.boot.number, m.types)
    [] mode.kind = "dlat" -> assign_dlat(m.boot, m.part)
    [] mode.kind = "letter" -> mode.first
=============================================================================
