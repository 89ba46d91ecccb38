----------------------------- MODULE MC_TrackCache -----------------------------
(***************************************************************************)
(* Instances of TrackCache for TLC.  Sector contents are distinct values   *)
(* (drive and sector), so that a wrong sector is always noticed.           *)
(***************************************************************************)
EXTENDS TrackCache

CONSTANTS hd, fd, sd  \* a hard disk, a floppy and a hard disk with short tracks

mcDrive == {hd, fd, sd}

\* The hard disk: LBA, a BIOS track of four sectors, two of which fit the buffer.
mcHd == [lba |-> TRUE, cd |-> FALSE, cyls |-> 2, heads |-> 1, spt |-> 4, total |-> 8, fit |-> 2]
\* The floppy: CHS only.
mcFd == [lba |-> FALSE, cd |-> FALSE, cyls |-> 1, heads |-> 2, spt |-> 2, total |-> 4, fit |-> 2]

\* A hard disk whose whole BIOS track fits the buffer.
mcSmallHd == [mcHd EXCEPT !.cyls = 4, !.spt = 2]

mcGeometry    == [d \in mcDrive |-> CASE d = hd -> mcHd [] d = fd -> mcFd [] d = sd -> mcSmallHd]
mcMedia       == [d \in mcDrive |-> IF d = fd THEN 4 ELSE 8]

mcContents == {<<d, s>> : d \in {hd, sd}, s \in 0..7} \cup {<<fd, s>> : s \in 0..3}
mcDisk == [d \in mcDrive |-> [s \in 0..mcMedia[d]-1 |-> <<d, s>>]]
mcNew  == <<sd, 99>>
mcJunk == <<fd, 99>>
mcData == mcContents \cup {mcNew, mcJunk}

\* An EZ-Drive, and a sector in the middle of a track that looks like one's first.
mcEZD      == {<<hd, 0>>, <<sd, 1>>}
mcBadCHS   == {[cyls |-> 1, heads |-> 1, spt |-> 0]}
mcFloppy   == {fd}

mcRequests == {<<hd, s, n>> : s \in {0, 1}, n \in {1, 4}} \cup {<<hd, 3, 1>>}
              \cup {<<sd, 0, 3>>, <<sd, 1, 1>>, <<sd, 1, 2>>, <<sd, 2, 3>>}
              \cup {<<fd, 0, 2>>, <<fd, 1, 3>>, <<fd, 3, 2>>}
              \* the last goes past the end of the floppy
mcEdge     == {<<fd, 3, 1>>, <<fd, 3, 2>>}   \* its last sector, and one more
mcNothing  == {}
\* In a track that fits the buffer and in one that does not.
mcWrites   == {<<sd, 3, mcNew>>, <<hd, 3, mcNew>>}
===============================================================================
