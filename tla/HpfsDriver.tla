------------------------------- MODULE HpfsDriver -------------------------------
(***************************************************************************)
(* filesys/fsys_hpfs.c.  A directory is a tree of dnodes, a file's extents *)
(* are in its fnode or in a tree of anodes below it; one of each is in     *)
(* memory.  A name is its rank in `order`, of which "" is the least and    *)
(* the name that ends every dnode the greatest.                            *)
(***************************************************************************)
EXTENDS FileDriver

CONSTANT SECTOR_SIZE    \* units of a file in a sector

Nothing == 0            \* the rank of ""

Ended(d, ok, names) == [d |-> d, ok |-> ok, names |-> names]
NotFound(d, names) == Ended(Failing(d, "ERR_FILE_NOT_FOUND"), FALSE, names)

\* The sector can be read and holds what it is to hold.
Holds(d, sec, magic) == Readable(d, sec) /\ image.blocks[sec].magic = magic

\* A partition of a hard disk must have the type 7.
HpfsMount(d) ==
  IF image.slice = 7 /\ Holds(d, 0, "HPFS") /\ Holds(d, 16, "SB_MAGIC") /\ image.blocks[16].version = 2
  THEN [d |-> [d EXCEPT !.mem = [super |-> image.blocks[16], fnode |-> None, dnode |-> None, anode |-> None]], ok |-> TRUE]
  ELSE [d |-> Devread(Devread(d, 0), 16), ok |-> FALSE]

---------------------------------------------------------------------------
(* hpfs_read()                                                             *)

\* n units from the offset off behind the beginning of a sector.
SectorAt(sec, off) == sec + off \div SECTOR_SIZE
AllReadable(d, sec, off, n) == \A i \in 0..n - 1 : Readable(d, SectorAt(sec, off + i))
UnitsAt(sec, off, n) == [i \in 1..n |-> image.blocks[SectorAt(sec, off + i - 1)][((off + i - 1) % SECTOR_SIZE) + 1]]
FirstBad(d, sec, off, n) == CHOOSE s \in {SectorAt(sec, off + i) : i \in 0..n - 1} : ~Readable(d, s)

RECURSIVE AtTree(_, _, _, _), Extents(_, _, _, _, _)

\* Down to, or up to, another anode.
ToAnode(d, sec, len, got) ==
  IF Holds(d, sec, "ANODE_MAGIC") THEN AtTree([d EXCEPT !.mem.anode = image.blocks[sec]], image.blocks[sec], len, got)
  ELSE [d |-> Devread(d, sec), bytes |-> <<>>]

\* The extents from the i-th on; those in front of the position are skipped.
Extents(d, nodes, i, len, got) ==
  LET off == d.pos - nodes[i].file_secno * SECTOR_SIZE
      left == nodes[i].length * SECTOR_SIZE - off
      l == Least(len, left)
      sec == nodes[i].disk_secno
  IN CASE i > Len(nodes) -> ToAnode(d, IF d.mem.anode = None THEN -1 ELSE d.mem.anode.up, len, got)
       [] i <= Len(nodes) /\ left <= 0 -> Extents(d, nodes, i + 1, len, got)
       [] i <= Len(nodes) /\ left > 0 ->
            CASE ~AllReadable(d, sec, off, l) -> [d |-> Devread(d, FirstBad(d, sec, off, l)), bytes |-> got]
              [] AllReadable(d, sec, off, l) /\ l = len -> [d |-> [d EXCEPT !.pos = @ + l], bytes |-> got \o UnitsAt(sec, off, l)]
              [] OTHER -> Extents([d EXCEPT !.pos = @ + l], nodes, i + 1, len - l, got \o UnitsAt(sec, off, l))

AtTree(d, tree, len, got) ==
  LET below == {i \in DOMAIN tree.nodes : tree.nodes[i].file_secno * SECTOR_SIZE > d.pos}
      i == CHOOSE n \in below : \A m \in below : n <= m
  IN CASE ~tree.internal -> Extents(d, tree.nodes, 1, len, got)
       [] tree.internal /\ below # {} -> ToAnode(d, tree.nodes[i].down, len, got)
       [] OTHER -> ToAnode(d, IF d.mem.anode = None THEN -1 ELSE d.mem.anode.up, len, got)

HpfsRead(d, len) == AtTree(d, d.mem.fnode, len, <<>>)

---------------------------------------------------------------------------
(* hpfs_dir()                                                              *)

RECURSIVE Component(_, _), Scan(_, _, _, _)

GoDown(d, sec, path, names) ==
  IF Holds(d, sec, "DNODE_MAGIC") THEN Scan([d EXCEPT !.mem.dnode = image.blocks[sec]], 1, path, names)
  ELSE Ended(Devread(d, sec), FALSE, names)

\* The name was found.  Whether it is a directory's is not asked.
Found(d, e, path, names) ==
  CASE ~Holds(d, e.fnode, "FNODE_MAGIC") -> NotFound(d, names)
    [] Holds(d, e.fnode, "FNODE_MAGIC") /\ Len(path) > 1 ->
         Component([d EXCEPT !.mem.fnode = image.blocks[e.fnode]], Tail(path))
    [] OTHER -> Ended([d EXCEPT !.mem.fnode = image.blocks[e.fnode], !.pos = 0, !.max = e.file_size], TRUE, names)

\* The i-th entry of the dnode in memory.  A listing meets every entry of the
\* root dnode but does not come back up from one below.
Scan(d, i, path, seen) ==
  LET e == d.mem.dnode.dirents[i]
      listing == path = <<Nothing>>
      names == IF listing THEN seen \cup {e.name} ELSE seen
  IN CASE d.mem.dnode.root /\ e.last /\ listing /\ seen # {} -> Ended(d, TRUE, seen)
       [] ~(d.mem.dnode.root /\ e.last /\ listing /\ seen # {}) ->
            CASE path[1] = e.name -> Found(d, e, path, names)
              [] path[1] < e.name /\ e.down # 0 -> GoDown(d, e.down, path, names)
              [] path[1] < e.name /\ e.down = 0 ->
                   IF ~listing THEN NotFound(d, names)
                   ELSE IF e.last THEN GoDown(d, -1, path, names) ELSE Scan(d, i + 1, path, names)
              [] path[1] > e.name ->
                   CASE ~e.last -> Scan(d, i + 1, path, names)
                     [] e.last /\ e.down # 0 -> GoDown(d, e.down, path, names)
                     [] OTHER -> NotFound(d, names)

\* A name of the path, to be looked for below the fnode in memory; the entry of
\* the directory itself is left out.
InDnode(d, path) == Scan(d, IF d.mem.dnode.dirents[1].first THEN 2 ELSE 1, path, {})

Component(d, path) ==
  LET sec == d.mem.fnode.nodes[1].disk_secno
  IN CASE d.mem.fnode.internal -> NotFound(d, {})
       [] ~d.mem.fnode.internal /\ Holds(d, sec, "DNODE_MAGIC") -> InDnode([d EXCEPT !.mem.dnode = image.blocks[sec]], path)
       [] OTHER -> Ended(Devread(d, sec), FALSE, {})

HpfsDir(d, path) ==
  LET root == d.mem.super.root
  IN IF Holds(d, root, "FNODE_MAGIC") THEN Component([d EXCEPT !.mem.fnode = image.blocks[root]], path)
     ELSE NotFound(d, {})

---------------------------------------------------------------------------

Mount == \E bad \in Faults : Mounted(bad, HpfsMount(Now(bad)))
Open == \E path \in image.paths, bad \in Faults : mem # None /\ Opened(path, bad, HpfsDir(Opening(bad), path))
List == \E path \in DOMAIN image.dirs, bad \in Faults :
          mem # None /\ Listed(path, bad, HpfsDir(Now(bad), Append(path, Nothing)))
Read == \E len \in Lengths, bad \in Faults :
          file # None /\ Delivered(len, bad, HpfsRead(Clamped(bad), Length(len)))
Reposition == \E pos \in image.starts : Seek(pos)

Next == Mount \/ Open \/ List \/ Read \/ Reposition
Spec == DriverInit /\ [][Next]_dvars
===============================================================================
