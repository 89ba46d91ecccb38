------------------------------ MODULE TrackCache ------------------------------
(***************************************************************************)
(* The pre-loader's disk reader: rawread() and rawwrite() over one track   *)
(* buffer (loader/preldr/dskaccess.c) and the BIOS access below them       *)
(* (biosdisk() and get_diskinfo(), loader/preldr/bios.c).                  *)
(*                                                                         *)
(* A request counts whole sectors: byte offsets inside a sector move with  *)
(* the data and are abstracted.  The steps of one rawread() are separate   *)
(* actions, so that every BIOS call may succeed or fail on its own.        *)
(***************************************************************************)
EXTENDS Integers, Sequences

CONSTANTS
  Drive,        \* BIOS drive numbers (the loop drives 0xC0..0xC7 excluded)
  None,         \* buf_drive when no drive is cached (-1 or 0xff)
  Data,         \* contents a sector may have
  EZD,          \* contents whose partition table holds an EZD slice
  Geometry,     \* [Drive -> geometry]: what get_diskinfo reports
  Media,        \* [Drive -> Nat]: sectors the media really have
  InitialDisk,  \* [Drive -> [0..Media-1 -> Data]]
  Absent,       \* drives whose get_diskinfo may fail
  BadCHS,       \* register contents a failed INT 13h/AH=8 leaves behind
  Requests,     \* <<drive, sector, count>> asked for
  Writes,       \* <<drive, sector, contents>> written
  Slots         \* sectors the buffer memory holds (BUFFERLEN)

GeometryType ==
  [lba : BOOLEAN, cd : BOOLEAN, cyls : Nat, heads : Nat, spt : Nat, total : Nat,
   fit : 1..Slots]

ASSUME ConstantsAssumption ==
  /\ None \notin Drive
  /\ Slots \in Nat /\ Slots >= 2
  /\ Geometry \in [Drive -> {g \in GeometryType : g.heads > 0 /\ g.spt > 0}]
  /\ Media \in [Drive -> Nat]
  /\ \A d \in Drive : InitialDisk[d] \in [0..Media[d]-1 -> Data]
  /\ DOMAIN InitialDisk = Drive
  /\ BadCHS \subseteq [cyls : Nat, heads : Nat \ {0}, spt : Nat]
  /\ \A r \in Requests : r \in Drive \X Nat \X Nat
  /\ \A w \in Writes : w \in Drive \X Nat \X Data

VARIABLES
  disk,       \* contents of the media
  buf_drive,  \* drive the buffer and the geometry are said to belong to
  buf_track,  \* first sector of the buffered track, -1 when none
  buf_geom,   \* geometry used for the next access
  buf,        \* the track buffer
  errnum,     \* the global error number
  phase,      \* where rawread() is, or how the last one ended
  rd,         \* rawread()'s locals: drive, sector, left (sectors), at (bufaddr)
  req,        \* the request as the caller made it
  out,        \* sectors delivered to the caller so far
  behind,     \* a write changed a buffered sector and left the buffer as it was
  careful     \* nothing has yet been met that the code does not provide for

cache == <<buf_drive, buf_track, buf_geom, buf, behind>>
vars == <<disk, cache, errnum, phase, rd, req, out, careful>>

MinOf(a, b) == IF a <= b THEN a ELSE b

Quiet == phase \in {"idle", "ok", "failed"}

-------------------------------------------------------------------------------
(* BIOS access. *)

\* The media sector reached by CHS-addressing sector s of drive d with the
\* geometry g; -1 when the drive rejects the address.
Physical(d, g, s) ==
  LET head == s \div g.spt
      true == Geometry[d]
  IN  IF /\ head \div g.heads < true.cyls
         /\ head % g.heads < true.heads
         /\ s % g.spt < true.spt
      THEN ((head \div g.heads) * true.heads + (head % g.heads)) * true.spt + (s % g.spt)
      ELSE -1

\* The one successful outcome of an access to media sectors p .. p+n-1.
Reaches(d, g, p, n) ==
  {r \in {[err |-> "none", geom |-> g, from |-> p]} : p >= 0 /\ p + n <= Media[d]}

CHS(d, g, s, n) ==
  IF (s \div g.spt) \div g.heads >= g.cyls
  THEN {[err |-> "geometry", geom |-> g, from |-> -1]}
  ELSE {[err |-> "error", geom |-> g, from |-> -1]} \cup Reaches(d, g, Physical(d, g, s), n)

\* A drive that failed an LBA access is treated as a CHS drive from then on.
WithoutLBA(g) == [g EXCEPT !.lba = FALSE, !.total = g.cyls * g.heads * g.spt]

\* biosdisk(): the possible outcomes of reading or writing n sectors from s.
biosdisk(d, g, s, n) ==
  IF ~ g.lba THEN CHS(d, g, s, n)
  ELSE (IF Geometry[d].lba THEN Reaches(d, g, s, n) ELSE {})
       \cup (IF g.cd THEN {[err |-> "error", geom |-> g, from |-> -1]}
                     ELSE CHS(d, WithoutLBA(g), s, n))

\* What a failing get_diskinfo() leaves in the geometry it was given: the flags
\* are cleared (or LBA is set) and the CHS fields are stored from the registers
\* before the error is looked at.
Garbled(g, l, b) == [g EXCEPT !.lba = l, !.cd = FALSE, !.cyls = b.cyls,
                              !.heads = b.heads, !.spt = b.spt]

-------------------------------------------------------------------------------
(* The buffer. *)

\* Sectors per virtual track: a BIOS track, cut to what the buffer holds.
VTrack(g) == MinOf(g.fit, g.spt)

Offset == rd.sector % VTrack(buf_geom)   \* soff
Track  == rd.sector - Offset
Count  == VTrack(buf_geom) - Offset      \* num_sect

\* Faulty forms, marked by their names, stand before the definitions they alter.
PartialWhenExact == rd.left >= Count
Partial == rd.left > Count               \* more than one read is needed

\* buf with n sectors of drive d, from media sector p on, read to its start.
Load(d, p, n) == [i \in DOMAIN buf |-> IF i < n THEN disk[d][p + i] ELSE buf[i]]

\* Does writing sector t make the buffered track out of date?
Touches(g, t) == t - (t % g.spt) = buf_track

\* A caller whose probe of another drive failed resets the buffer's drive first.
Clean == errnum # "no_disk" \/ buf_drive = None

\* No part of a track is asked for together with what the drive does not have.
Inside(r) ==
  LET g == Geometry[r[1]]
  IN  r[2] % VTrack(g) = 0 \/ r[2] + r[3] <= MinOf(g.total, WithoutLBA(g).total)

\* Tracks the reader does not provide for: longer than the buffer (BUFFERLEN has
\* room for seven sectors of 512 bytes), so that rawread() counts in tracks of
\* another length than rawwrite(), or without the sector 1 that mapping needs.
Odd(g) == VTrack(g) # g.spt \/ VTrack(g) < 2

\* Is sector t in the buffer, or does the buffer's sector 0 stand for it?
Buffered(g, t) ==
  buf_track # -1 /\ (t \in buf_track..buf_track+VTrack(g)-1 \/ (buf_track = 0 /\ t = 1))

\* The buffer begins with another sector than 0, which looks like an EZ-Drive's, or
\* ends before sector 1.
Mistaken == (rd.sector # 0 /\ Partial) \/ VTrack(buf_geom) < 2

Init ==
  /\ disk = InitialDisk
  /\ buf_drive = None
  /\ buf_track = -1
  /\ buf_geom = [lba |-> FALSE, cd |-> FALSE, cyls |-> 0, heads |-> 0, spt |-> 0,
                 total |-> 0, fit |-> Slots]
  /\ buf \in {[i \in 0..Slots-1 |-> x] : x \in Data}
  /\ errnum = "none"
  /\ phase = "idle"
  /\ rd = [drive |-> None, sector |-> 0, left |-> 0, at |-> 0]
  /\ req = <<>>
  /\ out = <<>>
  /\ behind = FALSE
  /\ careful = TRUE

-------------------------------------------------------------------------------
(* rawread(), step by step. *)

\* A caller, its error number clear, asks for r = <<drive, sector, count>>.
Call(r) ==
  /\ Quiet
  /\ careful' = (careful /\ Clean /\ Inside(r))
  /\ phase' = "loop"
  /\ errnum' = "none"
  /\ req' = r
  /\ out' = <<>>
  /\ rd' = [drive |-> r[1], sector |-> r[2], left |-> r[3], at |-> 0]
  /\ UNCHANGED <<disk, cache>>

Looping == phase = "loop" /\ rd.left > 0 /\ errnum = "none"

\* The buffer belongs to another drive: its geometry is fetched anew.
RefreshKeepsGeometry ==
  /\ Looping
  /\ buf_drive # rd.drive
  /\ buf_drive' = rd.drive
  /\ buf_track' = -1
  /\ behind' = FALSE
  /\ UNCHANGED <<disk, buf, buf_geom, errnum, phase, rd, req, out>>

Refresh ==
  /\ Looping
  /\ buf_drive # rd.drive
  /\ buf_drive' = rd.drive
  /\ buf_track' = -1
  /\ buf_geom' = Geometry[rd.drive]
  /\ behind' = FALSE
  /\ UNCHANGED <<disk, buf, errnum, phase, rd, req, out>>

RefreshFails ==
  /\ Looping
  /\ buf_drive # rd.drive
  /\ rd.drive \in Absent
  /\ \E l \in BOOLEAN, b \in BadCHS : buf_geom' = Garbled(buf_geom, l, b)
  /\ errnum' = "no_disk"
  /\ UNCHANGED <<disk, buf_drive, buf_track, buf, behind, phase, rd, req, out>>

Located == Looping /\ buf_drive = rd.drive

OutOfGeometry ==
  /\ Located
  /\ rd.sector >= buf_geom.total
  /\ errnum' = "geom"
  /\ UNCHANGED <<disk, cache, phase, rd, req, out>>

\* sector % sectors_per_vtrack with a track of no sectors: divide error.
Fault ==
  /\ Located
  /\ rd.sector < buf_geom.total
  /\ VTrack(buf_geom) = 0
  /\ phase' = "fault"
  /\ UNCHANGED <<disk, cache, errnum, rd, req, out>>

Addressed == Located /\ rd.sector < buf_geom.total /\ VTrack(buf_geom) > 0

Hit ==
  /\ Addressed
  /\ Track = buf_track
  /\ phase' = "copy"
  /\ rd' = [rd EXCEPT !.at = Offset]
  /\ UNCHANGED <<disk, cache, errnum, req, out>>

\* Read the whole track, or only its end when more tracks follow.
Fill ==
  /\ Addressed
  /\ Track # buf_track
  /\ LET start == IF Partial THEN rd.sector ELSE Track
         n == IF Partial THEN Count ELSE VTrack(buf_geom)
     IN  \E r \in biosdisk(rd.drive, buf_geom, start, n) :
           /\ buf_geom' = r.geom
           /\ rd' = [rd EXCEPT !.at = IF Partial \/ r.err = "error" THEN 0 ELSE Offset]
           /\ \/ /\ r.err = "none"
                 /\ buf' = Load(rd.drive, r.from, n)
                 /\ buf_track' = Track
                 /\ phase' = "map"
                 /\ UNCHANGED errnum
              \/ /\ r.err # "none"
                 /\ buf_track' = -1
                 /\ errnum' = CASE r.err = "geometry" -> "geom"
                                [] r.err = "error" /\ Partial -> "read"
                                [] OTHER -> errnum
                 /\ phase' = IF r.err = "error" /\ ~ Partial THEN "retry" ELSE "map"
                 /\ UNCHANGED buf
  /\ behind' = FALSE
  /\ UNCHANGED <<disk, buf_drive, req, out>>

\* The whole track failed: read only the sectors asked for.
Retry ==
  /\ phase = "retry"
  /\ \E r \in biosdisk(rd.drive, buf_geom, rd.sector, rd.left) :
       /\ buf_geom' = r.geom
       /\ \/ r.err = "none" /\ buf' = Load(rd.drive, r.from, rd.left) /\ UNCHANGED errnum
          \/ r.err # "none" /\ errnum' = "read" /\ UNCHANGED buf
  /\ phase' = "map"
  /\ UNCHANGED <<disk, buf_drive, buf_track, behind, rd, req, out>>

LooksEZDAtZero == rd.sector = 0 /\ buf[0] \in EZD
LooksEZD == (buf_track = 0 \/ rd.sector = 0) /\ buf[0] \in EZD

NotEZD ==
  /\ phase = "map"
  /\ ~ LooksEZD
  /\ phase' = "copy"
  /\ UNCHANGED <<disk, cache, errnum, rd, req, out>>

\* Sector 1 is in the buffer already: copy it over sector 0.
MapInBuffer ==
  /\ phase = "map"
  /\ LooksEZD
  /\ buf_track = 0 \/ rd.left >= 2
  /\ buf' = [buf EXCEPT ![0] = buf[1]]
  /\ phase' = "copy"
  /\ UNCHANGED <<disk, buf_drive, buf_track, buf_geom, behind, errnum, rd, req, out>>

MapFromDisk ==
  /\ phase = "map"
  /\ LooksEZD
  /\ ~ (buf_track = 0 \/ rd.left >= 2)
  /\ \E r \in biosdisk(rd.drive, buf_geom, 1, 1) :
       /\ buf_geom' = r.geom
       /\ \/ r.err = "none" /\ buf' = Load(rd.drive, r.from, 1) /\ UNCHANGED errnum
          \/ r.err # "none" /\ errnum' = "read" /\ UNCHANGED buf
  /\ phase' = "copy"
  /\ UNCHANGED <<disk, buf_drive, buf_track, behind, rd, req, out>>

CopyUnclipped ==
  /\ phase = "copy"
  /\ out' = out \o [i \in 1..MinOf(rd.left, Count) |-> buf[rd.at + i - 1]]
  /\ rd' = [rd EXCEPT !.sector = @ + Count, !.left = @ - Count]
  /\ phase' = "loop"
  /\ UNCHANGED <<disk, cache, errnum, req>>

Copy ==
  /\ phase = "copy"
  /\ LET n == MinOf(rd.left, Count)
     IN  /\ out' = out \o [i \in 1..n |-> buf[rd.at + i - 1]]
         /\ rd' = [rd EXCEPT !.sector = @ + Count, !.left = @ - n]
  /\ phase' = "loop"
  /\ UNCHANGED <<disk, cache, errnum, req>>

ReturnIgnoresError ==
  /\ phase = "loop"
  /\ rd.left = 0 \/ errnum # "none"
  /\ phase' = IF errnum = "none" THEN "ok" ELSE phase
  /\ UNCHANGED <<disk, cache, errnum, rd, req, out>>

Return ==
  /\ phase = "loop"
  /\ rd.left = 0 \/ errnum # "none"
  /\ phase' = IF errnum = "none" THEN "ok" ELSE "failed"
  /\ UNCHANGED <<disk, cache, errnum, rd, req, out>>

ReadStep ==
  \/ Hit /\ careful' = (careful /\ ~ behind)
  \/ MapInBuffer /\ careful' = (careful /\ ~ Mistaken)
  \/ /\ UNCHANGED careful
     /\ \/ Refresh \/ RefreshFails \/ OutOfGeometry \/ Fault \/ Fill
        \/ Retry \/ NotEZD \/ MapFromDisk \/ Copy \/ Return

-------------------------------------------------------------------------------
(* The other users of the buffer. *)

\* real_open_partition() makes buf_geom valid for the drive being opened.
Mount(d) ==
  /\ Quiet
  /\ buf_drive # d
  /\ \/ /\ buf_drive' = d
        /\ buf_track' = -1
        /\ buf_geom' = Geometry[d]
        /\ errnum' = "none"
        /\ behind' = FALSE
     \/ /\ d \in Absent
        /\ \E l \in BOOLEAN, b \in BadCHS : buf_geom' = Garbled(buf_geom, l, b)
        /\ errnum' = "no_disk"
        /\ UNCHANGED <<buf_drive, buf_track, behind>>
  /\ UNCHANGED <<disk, buf, phase, rd, req, out, careful>>

\* u_parm(PARM_BUF_DRIVE, ACT_SET, -1).
Invalidate ==
  /\ Quiet
  /\ buf_drive' = None
  /\ UNCHANGED <<disk, buf_track, buf_geom, buf, behind, errnum, phase, rd, req, out, careful>>

\* rawwrite() of one sector to the drive the geometry was read for.
Write(w) ==
  LET d == w[1]
      s == w[2]
  IN  /\ Quiet
      /\ careful' = (careful /\ Clean)
      /\ d = buf_drive
      /\ buf_geom.spt > 0
      /\ \E first \in IF s = 0 THEN biosdisk(d, buf_geom, 0, 1)
                     ELSE {[err |-> "none", geom |-> buf_geom, from |-> s]} :
           IF first.err # "none"
           THEN /\ errnum' = "write"
                /\ buf_geom' = first.geom
                /\ UNCHANGED <<disk, buf_track, behind>>
           ELSE LET t == IF s = 0 /\ disk[d][first.from] \in EZD THEN 1 ELSE s
                IN  \E r \in biosdisk(d, first.geom, t, 1) :
                      /\ buf_geom' = r.geom
                      /\ \/ /\ r.err = "none"
                            /\ disk' = [disk EXCEPT ![d][r.from] = w[3]]
                            /\ buf_track' = IF Touches(r.geom, t)
                                            THEN -1 ELSE buf_track
                            /\ behind' = /\ ~ Touches(r.geom, t)
                                         /\ behind \/ (Odd(r.geom) /\ Buffered(r.geom, t))
                            /\ UNCHANGED errnum
                         \/ /\ r.err # "none"
                            /\ errnum' = "write"
                            /\ UNCHANGED <<disk, buf_track, behind>>
      /\ UNCHANGED <<buf_drive, buf, phase, rd, req, out>>

Next ==
  \/ \E r \in Requests : Call(r)
  \/ ReadStep
  \/ \E d \in Drive : Mount(d)
  \/ Invalidate
  \/ \E w \in Writes : Write(w)

Spec == Init /\ [][Next]_vars

\* rawread() is ordinary sequential code: it runs on once called.
FairSpec == Spec /\ WF_vars(ReadStep)
-------------------------------------------------------------------------------
(* Properties. *)

\* The values the variables may take.
TypeOK ==
  /\ DOMAIN disk = Drive
  /\ \A d \in Drive : disk[d] \in [0..Media[d]-1 -> Data]
  /\ buf_drive \in Drive \cup {None}
  /\ buf_track \in Nat \cup {-1}
  /\ buf_geom \in GeometryType
  /\ buf \in [0..Slots-1 -> Data]
  /\ errnum \in {"none", "no_disk", "geom", "read", "write"}
  /\ phase \in {"idle", "ok", "failed", "loop", "retry", "map", "copy", "fault"}
  /\ rd \in [drive : Drive \cup {None}, sector : Nat, left : Nat, at : 0..Slots-1]
  /\ out \in Seq(Data)
  /\ behind \in BOOLEAN
  /\ careful \in BOOLEAN

Device == INSTANCE BlockDevice WITH
  status <- IF Quiet THEN phase ELSE "busy",
  data   <- IF phase = "ok" THEN out ELSE <<>>

\* Between two reads, a buffer that claims a track holds that track of its
\* drive as the media have it now (sector 1 in place of an EZ-Drive's sector 0),
\* but for a drive of odd tracks that has been written to where the buffer is.
CacheCoherent ==
  careful /\ ~ behind /\ Quiet /\ buf_drive # None /\ buf_track # -1 =>
    \A i \in 0..VTrack(Geometry[buf_drive])-1 :
      buf[i] = Device!Contents(buf_drive, buf_track + i)

\* rawread() addresses the media with the geometry of the very drive it reads,
\* so an access can reach no other sector than the one meant and no track has
\* zero sectors.
GeometryOfDrive ==
  careful /\ Located =>
    buf_geom \in {Geometry[buf_drive], WithoutLBA(Geometry[buf_drive])}

\* Every read delivers what the media hold, or fails, until one uses a buffer that
\* a write left behind or takes another sector for an EZ-Drive's first.
ReadsTheDisk == Device!Spec

\* A rawread() that was called returns, but for the divide error.
ReadReturns == phase = "loop" ~> phase \in {"ok", "failed"} \/ (phase = "fault" /\ ~ careful)

\* "then only make the earlier reads for the portion needed.  This saves filling
\* the buffer with data that won't be used" (dskaccess.c 144-148): what a read
\* takes from the buffer was read into it for the sectors asked for.
LeftOutIsNotUsed ==
  phase = "copy" /\ errnum = "none" =>
    \A i \in 0..MinOf(rd.left, Count)-1 :
      buf[rd.at + i] = Device!Contents(rd.drive, rd.sector + i)
===============================================================================
