----------------------------- MODULE FileDriver -----------------------------
(***************************************************************************)
(* What every file-system driver shares with the loader: the globals that  *)
(* init() in filesys/fsys.c links it to, and the calls grub_open(), dir(), *)
(* grub_seek() and grub_read() of preldr/func.c make around the driver's   *)
(* fs_dir() and fs_read().  A driver's module extends this one and says    *)
(* what its own functions do to a record of those globals, `d`:            *)
(*    mem  the driver's buffers and static variables   err  errnum         *)
(*    pos  filepos       max  filemax                  bad  see below      *)
(* A disk is a function from block numbers to what a block holds.  A call  *)
(* of the driver runs to its end before the next, so it is one step; the   *)
(* blocks in `bad` cannot be read while it runs, others can: errors come   *)
(* and go.  Positions and lengths count units, of which a file's are       *)
(* numbers that tell where on the disk they lie (0 in a hole), and a       *)
(* directory's are its entries.                                            *)
(***************************************************************************)
EXTENDS Integers, Sequences, FiniteSets, SequencesExt

CONSTANTS Images,   \* disks by their names: [fs, blocks, files, dirs, paths, starts, fragile, ...]
          Lengths,  \* what callers ask for in one read
          MaxCalls, \* bound on the calls in a behaviour
          None

VARIABLES image,    \* the disk, which nothing changes
          mem,      \* the driver's memory at FSYS_BUF
          errnum, filepos, filemax,
          file,     \* the path that is open, or None
          last,     \* the last call and what came of it
          calls

dvars == <<image, mem, errnum, filepos, filemax, file, last, calls>>

MAXINT == 1000
NoError == "ERR_NONE"

\* The globals as a driver's function finds them.
Now(bad) == [mem |-> mem, err |-> errnum, pos |-> filepos, max |-> filemax, bad |-> bad]

\* devread() of a whole block, or of a part of it, succeeds.
Readable(d, b) == b \in DOMAIN image.blocks /\ b \notin d.bad

\* devread(): errnum is set when the block is outside the partition or fails.
Devread(d, b) ==
  IF Readable(d, b) THEN d
  ELSE [d EXCEPT !.err = IF b \in DOMAIN image.blocks THEN "ERR_READ" ELSE "ERR_OUTSIDE_PART"]

\* What a buffer receives from a block: nothing if the read fails.
Loaded(d, b, old) == IF Readable(d, b) THEN image.blocks[b] ELSE old

Failing(d, why) == [d EXCEPT !.err = why]

\* A part of the sequence s that starts at the offset off and has n units.
Part(s, off, n) == SubSeq(s, off + 1, off + n)

\* In the caller's buffer where a read of n units failed: what was there.
Junk(n) == [i \in 1..n |-> -1]

Least(a, b) == IF a < b THEN a ELSE b

---------------------------------------------------------------------------

\* The driver does to the globals what d says, in one call.
Become(d) ==
  /\ calls < MaxCalls /\ calls' = calls + 1
  /\ mem' = d.mem /\ errnum' = d.err /\ filepos' = d.pos /\ filemax' = d.max
  /\ UNCHANGED image

\* fs_mount() made r of Now(bad): [d, ok].  What a mount that fails leaves in
\* memory is used by nothing.
Mounted(bad, r) ==
  /\ Become(IF r.ok THEN r.d ELSE [r.d EXCEPT !.mem = None])
  /\ file' = None /\ last' = [call |-> "mount", ok |-> r.ok, bad |-> bad]

\* grub_open() calls fs_dir() with the error cleared and the position reset,
\* and r is what it makes of that: [d, ok].
Opening(bad) == [Now(bad) EXCEPT !.err = NoError, !.pos = 0]

Opened(path, bad, r) ==
  /\ mem # None
  /\ Become(r.d)
  /\ file' = IF r.ok THEN path ELSE None
  /\ last' = [call |-> "open", path |-> path, ok |-> r.ok, bad |-> bad]

\* dir() calls fs_dir() with print_possibilities, if there is no error from
\* before; r is [d, ok, names].
Listed(path, bad, r) ==
  /\ mem # None /\ errnum = NoError
  /\ Become(r.d)
  /\ file' = None
  /\ last' = [call |-> "dir", path |-> path, ok |-> r.ok, names |-> r.names, bad |-> bad]

\* grub_read() keeps the position, which a driver may have put behind the file's
\* end, and the length within the file.
Position == Least(filepos, filemax)

\* A read goes on behind the file's end.
LengthAsked(len) == len

Length(len) == Least(len, filemax - Position)

\* fs_read() makes r of that: [d, bytes].
Clamped(bad) == [Now(bad) EXCEPT !.pos = Position]

Delivered(len, bad, r) ==
  /\ file # None
  /\ Become(r.d)
  /\ last' = [call |-> "read", at |-> Position, len |-> Length(len), bytes |-> r.bytes,
               bad |-> bad, err |-> errnum]
  /\ UNCHANGED file

\* grub_seek(), to a place a caller starts to read at.
Seek(pos) ==
  /\ file # None /\ pos \in 0..filemax
  /\ Become([Now({}) EXCEPT !.pos = pos])
  /\ last' = [call |-> "seek"]
  /\ UNCHANGED file

\* One block of those that may fail on this disk fails, or none.
Faults == {{}} \cup {{b} : b \in image.fragile}

\* The driver has been loaded and not called.
DriverInit ==
  /\ (\E name \in DOMAIN Images : image = Images[name]) /\ mem = None
  /\ errnum = NoError /\ filepos = 0 /\ filemax = 0
  /\ file = None /\ last = [call |-> "load"] /\ calls = 0

---------------------------------------------------------------------------
(* What the loader expects of a driver, whatever its file system.          *)

\* The driver has noted a block as being in a buffer whose reading failed, or has
\* just taken one (NTFS, with clusters of several blocks) for another.
Tainted == mem # None /\ "taint" \in DOMAIN mem /\ mem.taint

\* A driver that goes on with what a buffer held before when reading to it fails
\* promises something only while there was no error.
Careless == image.fs \in {"jfs", "xfs", "ntfs"}
Vouched == ~Tainted /\ (Careless => errnum = NoError)

\* A hole that the driver does not know for one: it reads what it takes its number
\* 0 for, block 0 of the disk, or fails.  minix, ffs, ufs2 and reiserfs know of no
\* holes (fsys_minix.c:242, fsys_ffs.c:147, fsys_ufs2.c:172, fsys_reiserfs.c:987);
\* ext2 has `blind` files: the table of the block numbers is itself left out
\* (fsys_ext2fs.c:554), or the file is in extents (727).
BlindToHoles ==
  \/ image.fs \in {"minix", "ufs", "reiser"}
  \/ "blind" \in DOMAIN image /\ file \in image.blind

\* A read that jfs or xfs loses its place with: it has a unit of a hole at the
\* file's beginning or end, which no two extents enclose; or one with units of the
\* file behind it, and xfs passes over the extent with these (fsys_xfs.c:562), jfs
\* counts the hole from its beginning where the read began inside it
\* (fsys_jfs.c:263), as does xfs.
OverAGap ==
  last.call = "read" /\ image.fs \in {"jfs", "xfs"} /\
    LET f == image.files[file]
        read == last.at + 1 .. last.at + last.len
    IN \E i \in read : f[i] = 0 /\
         \/ \A j \in 1..i : f[j] = 0
         \/ \A j \in i..Len(f) : f[j] = 0
         \/ (\E j \in read : j > i /\ f[j] # 0) /\ (image.fs = "xfs" \/ (last.at > 0 /\ f[last.at] = 0 /\ f[last.at + 1] = 0))

\* A read over the edge of an anode, of which hpfs goes up to the fnode as if it were
\* one, and which delivers nothing (fsys_hpfs.c:164).
AcrossAnodes ==
  last.call = "read" /\ "edges" \in DOMAIN image /\ file \in DOMAIN image.edges /\
    \E edge \in image.edges[file] : last.at < edge /\ edge < last.at + last.len

\* The files that ext2 does not open as it means to refuse those too large for it
\* (fsys_ext2fs.c:1062).
Refused == IF "refused" \in DOMAIN image THEN image.refused ELSE {}

\* The root directory of a FAT12 or FAT16 disk is read as if it were the cluster
\* -1, three before the data (fsys_fat.c:256, 435): where it does not begin there
\* the names before are not seen, and where this is not in it, or it goes on
\* behind the cluster, anything may be taken for its entries.
Unseen == IF "unseen" \in DOMAIN image THEN image.unseen ELSE {}
LostInRoot == "lost" \in DOMAIN image /\ image.lost

\* What the globals and the record of the last call can be.
TypeOK ==
  /\ calls \in 0..MaxCalls
  /\ filepos \in 0..MAXINT /\ filemax \in 0..MAXINT
  /\ file \in {None} \cup DOMAIN image.files
  /\ last.call \in {"load", "mount", "open", "dir", "seek", "read"}
  /\ file # None => mem # None
  /\ file # None /\ filepos > filemax => OverAGap

\* A read delivers the file's own units from the position on, all that were
\* asked for unless there was an error and it says so, whatever was opened, read,
\* listed or failed before and left in the driver's caches and positions; except
\* for the units of a hole that the driver is blind to, with which a read may also
\* end, and for a read that jfs, xfs or hpfs loses its place with.
ReadsTheFile ==
  last.call = "read" /\ Vouched /\ ~OverAGap /\ ~AcrossAnodes =>
    LET want == Part(image.files[file], last.at, last.len)
        blind == {i \in DOMAIN want : want[i] = 0 /\ BlindToHoles}
    IN /\ Len(last.bytes) <= Len(want)
       /\ \A i \in DOMAIN last.bytes \ blind : last.bytes[i] = want[i]
       /\ Len(last.bytes) = Len(want) \/ errnum # NoError \/ blind # {}
       /\ last.bad = {} /\ last.err = NoError => Len(last.bytes) = Len(want) \/ blind # {}
       /\ filepos = last.at + Len(last.bytes) \/ errnum # NoError

\* An open finds the files of the disk and nothing else, with their sizes, and
\* does not fail unless the disk does; except on a FAT12 or FAT16 disk in whose
\* root directory the driver loses its way, or, failing, for a name in a part of
\* the root directory that it does not come to, and for files that ext2 refuses.
\* hpfs opens a directory as a file without contents (fsys_hpfs.c:310).
FindsTheFile ==
  last.call = "open" /\ Vouched /\ ~LostInRoot =>
    /\ last.ok => /\ last.path \in DOMAIN image.files
                  /\ filemax = Len(image.files[last.path]) /\ filepos = 0
    /\ last.bad = {} /\ last.path \in DOMAIN image.files => last.ok \/ last.path[1] \in Unseen \/ last.path \in Refused

\* A listing names what the directory holds, everything unless the disk fails,
\* with the same exceptions; `also` are names that it may show then.
ListsTheDirectory ==
  last.call = "dir" /\ Vouched /\ ~LostInRoot =>
    /\ last.names \subseteq image.dirs[last.path] \cup (IF "also" \in DOMAIN image THEN image.also ELSE {})
    /\ last.bad = {} => image.dirs[last.path] \ (IF last.path = <<>> THEN Unseen ELSE {}) \subseteq last.names
===========================================================================
