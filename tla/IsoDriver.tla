------------------------------- MODULE IsoDriver -------------------------------
(***************************************************************************)
(* filesys/fsys_iso9660.c, with Rock Ridge.  A file lies in consecutive    *)
(* sectors; in memory are where it starts and the volume's descriptor.  A  *)
(* directory's record is followed by chunks that may give it another name  *)
(* and type or say where more chunks are.                                  *)
(***************************************************************************)
EXTENDS FileDriver

CONSTANT ISO_SECTOR_SIZE    \* units of a file in a sector

Ended(d, ok, names) == [d |-> d, ok |-> ok, names |-> names]
NotFound(d, code, names) == Ended(Failing(d, code), FALSE, names)

\* The primary descriptor is looked for in the sectors from `sector` on.
RECURSIVE IsoMount(_, _)
IsoMount(d, sector) ==
  CASE sector = 32 -> [d |-> d, ok |-> FALSE]
    [] sector < 32 /\ ~Readable(d, sector) -> [d |-> Devread(d, sector), ok |-> FALSE]
    [] sector < 32 /\ Readable(d, sector) ->
         IF image.blocks[sector].type = "ISO_VD_PRIMARY"
         THEN [d |-> [d EXCEPT !.mem = [root |-> image.blocks[sector].root, file_start |-> 0]], ok |-> TRUE]
         ELSE IsoMount(d, sector + 1)

---------------------------------------------------------------------------
(* iso9660_read()                                                          *)

RECURSIVE ReadSectors(_, _, _)
ReadSectors(d, len, got) ==
  LET sector == d.mem.file_start + d.pos \div ISO_SECTOR_SIZE
      offset == d.pos % ISO_SECTOR_SIZE
      size == Least(ISO_SECTOR_SIZE - offset, len)
  IN CASE len = 0 -> [d |-> d, bytes |-> got]
       [] len > 0 /\ Readable(d, sector) ->
            ReadSectors([d EXCEPT !.pos = @ + size], len - size, got \o Part(image.blocks[sector], offset, size))
       [] OTHER -> [d |-> Devread(d, sector), bytes |-> <<>>]

IsoRead(d, len) == IF d.mem.file_start = 0 THEN [d |-> d, bytes |-> <<>>] ELSE ReadSectors(d, len, <<>>)

---------------------------------------------------------------------------
(* iso9660_dir()                                                           *)

\* x is what the chunks have told: the name, the type, what is still expected
\* ({"NM", "PX"} to begin with) and the sector of a continuation, or None.
\* They are read until nothing is expected.  That a continuation cannot be
\* read is no error, nor is any that there was before.
RECURSIVE RockRidge(_, _, _)

Told(x, c) ==
  CASE c.kind = "RR" -> [x EXCEPT !.expect = @ \cap c.flags]
    [] c.kind = "NM" -> [x EXCEPT !.name = c.name, !.expect = @ \ {"NM"}]
    [] c.kind = "PX" -> [x EXCEPT !.type = c.type, !.expect = @ \ {"PX"}]
    [] c.kind = "CE" -> [x EXCEPT !.ce = c.extent]
    [] OTHER -> x

Continued(d, x) ==
  CASE x.ce = None -> [d |-> d, x |-> x]
    [] x.ce # None /\ Readable(d, x.ce) -> RockRidge(d, image.blocks[x.ce], [x EXCEPT !.ce = None])
    [] OTHER -> [d |-> Failing(d, NoError), x |-> x]

AfterChunk(d, rest, x) ==
  IF x.expect = {} THEN [d |-> d, x |-> x]
  ELSE IF rest = <<>> THEN Continued(d, x)
  ELSE RockRidge(d, rest, x)

RockRidge(d, chunks, x) ==
  IF chunks = <<>> THEN [d |-> d, x |-> x] ELSE AfterChunk(d, Tail(chunks), Told(x, Head(chunks)))

Plain(idr) == [name |-> idr.name, type |-> idr.type, expect |-> {"NM", "PX"}, ce |-> None]

RECURSIVE Level(_, _, _), Records(_, _, _, _, _, _)

\* A record whose chunks have been read; at is [extent, size] of what is left of
\* the directory.
Compared(r, idr, rest, at, path, names) ==
  LET d == [r.d EXCEPT !.max = MAXINT]
      found == r.x.name = path[1]
      more == Len(path) > 1
  IN CASE path = <<"">> -> Records(d, rest, at, path, names \cup {r.x.name}, TRUE)
       [] path # <<"">> /\ ~found -> Records(d, rest, at, path, names, TRUE)
       [] path # <<"">> /\ found /\ r.x.type # (IF more THEN "dir" ELSE "reg") -> NotFound(d, "ERR_BAD_FILETYPE", names)
       [] path # <<"">> /\ found /\ more /\ r.x.type = "dir" -> Level(d, [extent |-> idr.extent, size |-> idr.size], Tail(path))
       [] OTHER -> Ended([d EXCEPT !.mem.file_start = idr.extent, !.pos = 0, !.max = idr.size], TRUE, names)

\* The directory was read to its end.
NoMore(d, path, names) ==
  IF path = <<"">> /\ names # {} THEN Ended(d, TRUE, names) ELSE NotFound(d, "ERR_FILE_NOT_FOUND", names)

\* The records of the sector in memory, then the next sector's.
Records(d, records, at, path, names, loaded) ==
  CASE loaded /\ records # <<>> ->
         IF records[1].name \in {"self", "parent"} THEN Records(d, Tail(records), at, path, names, TRUE)
         ELSE Compared(RockRidge(d, records[1].chunks, Plain(records[1])), records[1], Tail(records), at, path, names)
    [] loaded /\ records = <<>> ->
         Records(d, <<>>, [extent |-> at.extent + 1, size |-> at.size - ISO_SECTOR_SIZE], path, names, FALSE)
    [] ~loaded /\ at.size <= 0 -> NoMore(d, path, names)
    [] ~loaded /\ at.size > 0 ->
         IF Readable(d, at.extent) THEN Records(d, image.blocks[at.extent], at, path, names, TRUE)
         ELSE NotFound(d, "ERR_FSYS_CORRUPT", names)

Level(d, at, path) == Records(d, <<>>, at, path, {}, FALSE)

IsoDir(d, path) == Level([d EXCEPT !.mem.file_start = 0], d.mem.root, path)

---------------------------------------------------------------------------

Mount == \E bad \in Faults : Mounted(bad, IsoMount(Now(bad), 16))
Open == \E path \in image.paths, bad \in Faults : mem # None /\ Opened(path, bad, IsoDir(Opening(bad), path))
List == \E path \in DOMAIN image.dirs, bad \in Faults :
          mem # None /\ Listed(path, bad, IsoDir(Now(bad), Append(path, "")))
Read == \E len \in Lengths, bad \in Faults :
          file # None /\ Delivered(len, bad, IsoRead(Clamped(bad), Length(len)))
Reposition == \E pos \in image.starts : Seek(pos)

Next == Mount \/ Open \/ List \/ Read \/ Reposition
Spec == DriverInit /\ [][Next]_dvars
===============================================================================
