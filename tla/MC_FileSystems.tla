---------------------------- MODULE MC_FileSystems ----------------------------
(***************************************************************************)
(* The drivers of filesys/, of which one is loaded at a time to the same   *)
(* place and works on the same globals: `image.fs` says which.              *)
(***************************************************************************)
EXTENDS FileDriver, FileSystemImages

Fat == INSTANCE FatDriver WITH SECTOR_SIZE <- 4, FAT_CACHE_SECTORS <- 2,
                               FAT_MAX_12BIT_CLUST <- 10, EOF_MARKER <- 90

Ext2Fs == INSTANCE Ext2Driver WITH BLOCK_SIZE <- 2, NDIR_BLOCKS <- 2, ADDR_PER_BLOCK <- 2,
                                   MAX_LINK_COUNT <- 2, PATH_MAX <- 6

MinixFs == INSTANCE MinixDriver WITH BLOCK_SIZE <- 2, DIRECT <- 2, ADDR_PER_BLOCK <- 2, INODES_PER_BLOCK <- 2,
                                     MAX_LINK_COUNT <- 2, PATH_MAX <- 6
Ufs == INSTANCE UfsDriver WITH BSIZE <- 2, NDADDR <- 2, NINDIR <- 4, MAPBUF_LEN <- 4
Hpfs1 == INSTANCE HpfsDriver WITH SECTOR_SIZE <- 2
Iso1 == INSTANCE IsoDriver WITH ISO_SECTOR_SIZE <- 4
Jfs1 == INSTANCE JfsDriver WITH BSIZE <- 2, INOSPERIAG <- 4, INOSPEREXT <- 2, MAX_LINK_COUNT <- 2, JFS_PATH_MAX <- 6
Xfs1 == INSTANCE XfsDriver WITH BSIZE <- 2, DIRBSIZE <- 8, AGBLOCKS <- 40, AGSPAN <- 64, INOPB <- 2, LINK_MAX <- 6,
                                LEAFBLK <- 16, MAX_LINK_COUNT <- 2
Reiser1 == INSTANCE ReiserDriver WITH BLOCK_SIZE <- 2, CACHED_SLOTS <- 2, MAX_HEIGHT <- 7, JOURNAL_TRANS_HALF <- 2,
                                      JOURNAL_ROOM <- 6, SUPER <- 16, OLD_SUPER <- 2, MAX_LINK_COUNT <- 2, PATH_MAX <- 6
Ntfs1 == INSTANCE NtfsDriver WITH BSIZE <- 2, MFT <- 4, IDX <- 4, CHUNK <- 4, CUNIT <- 4

AllImages == FatImages @@ Ext2Images @@ UfsImages @@ NtfsImages @@ [minix |-> Minix, hpfs |-> Hpfs, iso |-> Iso, jfs |-> Jfs, xfs |-> Xfs, reiser |-> Reiser]

Next ==
  \/ image.fs = "fat" /\ Fat!Next
  \/ image.fs = "ext2" /\ Ext2Fs!Next
  \/ image.fs = "minix" /\ MinixFs!Next
  \/ image.fs = "ufs" /\ Ufs!Next
  \/ image.fs = "hpfs" /\ Hpfs1!Next
  \/ image.fs = "iso" /\ Iso1!Next
  \/ image.fs = "jfs" /\ Jfs1!Next
  \/ image.fs = "xfs" /\ Xfs1!Next
  \/ image.fs = "reiser" /\ Reiser1!Next
  \/ image.fs = "ntfs" /\ Ntfs1!Next
Spec == DriverInit /\ [][Next]_dvars
===============================================================================
