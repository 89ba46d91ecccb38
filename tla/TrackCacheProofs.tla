--------------------------- MODULE TrackCacheProofs ---------------------------
(***************************************************************************)
(* Proofs about TrackCache, for every number of drives, every geometry,    *)
(* all disks, requests and writes that the assumptions allow, and whatever *)
(* BIOS calls fail.  Types and geometry come first, then the proof that    *)
(* TrackCache implements BlockDevice: what rawread() delivers is what the  *)
(* media hold.                                                             *)
(***************************************************************************)
EXTENDS TrackCache, TLAPS, SequenceTheorems

-------------------------------------------------------------------------------
(* What biosdisk() returns. *)

\* Dividing a natural number by a positive one.
LEMMA DivMod ==
  ASSUME NEW a \in Nat, NEW b \in Nat, b > 0
  PROVE  /\ a \div b \in Nat /\ a % b \in 0..b-1 /\ a = b * (a \div b) + (a % b)
         /\ a - (a % b) \in Nat
<1>1. a \div b \in Nat /\ a % b \in 0..b-1 /\ a = b * (a \div b) + (a % b)
  OBVIOUS
<1>2. b * (a \div b) \in Nat
  BY <1>1
<1> QED BY <1>1, <1>2

\* A CHS address translates to a sector number or to -1.
LEMMA PhysicalType ==
  ASSUME NEW d \in Drive, NEW g \in GeometryType, g.spt > 0, g.heads > 0,
         NEW s \in Nat
  PROVE  Physical(d, g, s) \in Int
<1> DEFINE head == s \div g.spt
<1> DEFINE true == Geometry[d]
<1>1. g.spt \in Nat /\ g.heads \in Nat
  BY DEF GeometryType
<1>2. head \in Nat /\ s % g.spt \in Nat
  BY <1>1, DivMod
<1>3. head \div g.heads \in Nat /\ head % g.heads \in Nat
  <2> HIDE DEF head
  <2> QED BY <1>1, <1>2, DivMod
<1>4. true.spt \in Nat /\ true.heads \in Nat
  BY ConstantsAssumption DEF GeometryType
<1>5. ((head \div g.heads) * true.heads + (head % g.heads)) * true.spt + (s % g.spt) \in Int
  <2> HIDE DEF head, true
  <2>1. (head \div g.heads) * true.heads \in Int
    BY <1>3, <1>4
  <2>2. (head \div g.heads) * true.heads + (head % g.heads) \in Int
    BY <1>3, <2>1
  <2>3. ((head \div g.heads) * true.heads + (head % g.heads)) * true.spt \in Int
    BY <1>4, <2>2
  <2> QED BY <1>2, <2>3
<1> QED BY <1>5 DEF Physical

\* The geometry after an access: the one before it, perhaps without LBA.
LEMMA biosdiskType ==
  ASSUME NEW d \in Drive, NEW g \in GeometryType, g.spt > 0, g.heads > 0,
         NEW s \in Nat, NEW n \in Nat,
         NEW r \in biosdisk(d, g, s, n)
  PROVE  /\ r.err \in {"none", "error", "geometry"}
         /\ r.geom \in GeometryType
         /\ r.geom \in {g, WithoutLBA(g)}
         /\ r.err = "none" => r.from \in Nat /\ r.from + n <= Media[d]
<1>1. WithoutLBA(g) \in GeometryType
  <2>1. g.cyls \in Nat /\ g.heads \in Nat /\ g.spt \in Nat
    BY DEF GeometryType
  <2>2. g.cyls * g.heads * g.spt \in Nat
    BY <2>1
  <2> QED BY <2>2 DEF WithoutLBA, GeometryType
<1>2. WithoutLBA(g).spt = g.spt /\ WithoutLBA(g).heads = g.heads
  BY DEF WithoutLBA, GeometryType
<1>3. Media[d] \in Nat
  BY ConstantsAssumption
<1>4. ASSUME NEW h \in {g, WithoutLBA(g)}, NEW p \in Int, NEW q \in Reaches(d, h, p, n)
      PROVE  /\ q.err = "none" /\ q.geom = h
             /\ q.from \in Nat /\ q.from + n <= Media[d]
  BY <1>3 DEF Reaches
<1>5. ASSUME NEW h \in {g, WithoutLBA(g)}, NEW q \in CHS(d, h, s, n)
      PROVE  /\ q.err \in {"none", "error", "geometry"}
             /\ q.geom = h
             /\ q.err = "none" => q.from \in Nat /\ q.from + n <= Media[d]
  <2>1. Physical(d, h, s) \in Int
    BY <1>1, <1>2, PhysicalType
  <2> QED BY <1>4, <2>1 DEF CHS
<1>6. CASE ~ g.lba
  BY <1>1, <1>5, <1>6 DEF biosdisk
<1>7. CASE g.lba
  <2>1. CASE r \in Reaches(d, g, s, n)
    BY <1>4, <2>1
  <2>2. CASE r \in CHS(d, WithoutLBA(g), s, n)
    BY <1>1, <1>5, <2>2
  <2>3. CASE r = [err |-> "error", geom |-> g, from |-> -1]
    BY <2>3
  <2> QED BY <1>7, <2>1, <2>2, <2>3 DEF biosdisk
<1> QED BY <1>6, <1>7

\* The geometry a failed probe leaves has the type of one, and some heads.
LEMMA GarbledType ==
  ASSUME NEW g \in GeometryType, NEW l \in BOOLEAN, NEW b \in BadCHS
  PROVE  Garbled(g, l, b) \in GeometryType /\ Garbled(g, l, b).heads > 0
<1>1. b \in [cyls : Nat, heads : Nat \ {0}, spt : Nat]
  BY ConstantsAssumption
<1>2. b.cyls \in Nat /\ b.heads \in Nat /\ b.heads > 0 /\ b.spt \in Nat
  BY <1>1
<1>3. Garbled(g, l, b) \in GeometryType
  BY <1>2 DEF Garbled, GeometryType
<1>4. Garbled(g, l, b).heads = b.heads
  BY DEF Garbled, GeometryType
<1> QED BY <1>2, <1>3, <1>4

-------------------------------------------------------------------------------
(* Type correctness. *)

\* What the type invariant rests on: a read in progress has a drive, and past
\* the geometry checks it has a track of at least one sector, some sectors left
\* to read and a place in the buffer from which they fit.
Working ==
  /\ ~ Quiet => rd.drive \in Drive
  /\ phase \in {"retry", "map", "copy"} =>
       /\ buf_drive = rd.drive
       /\ buf_geom.spt > 0
       /\ rd.left > 0
       /\ rd.at \in {0, Offset}
  /\ buf_geom.spt > 0 => buf_geom.heads > 0

TypeInv == TypeOK /\ Working

\* Position of a sector in its virtual track.
LEMMA OffsetType ==
  ASSUME NEW g \in GeometryType, g.spt > 0, NEW s \in Nat
  PROVE  /\ VTrack(g) \in 1..Slots
         /\ s % VTrack(g) \in 0..VTrack(g)-1
         /\ s - (s % VTrack(g)) \in Nat
<1>1. VTrack(g) \in 1..Slots
  BY ConstantsAssumption DEF VTrack, MinOf, GeometryType
<1>2. ASSUME NEW v \in 1..Slots
      PROVE  s % v \in 0..v-1 /\ s - (s % v) \in Nat
  <2>1. v \in Nat /\ v > 0
    BY ConstantsAssumption
  <2> QED BY <2>1, DivMod
<1> QED BY <1>1, <1>2

\* Reading n sectors to the start of the buffer keeps its type.
LEMMA LoadType ==
  ASSUME TypeOK, NEW d \in Drive, NEW p \in Nat, NEW n \in Nat, p + n <= Media[d]
  PROVE  Load(d, p, n) \in [0..Slots-1 -> Data]
<1>1. disk[d] \in [0..Media[d]-1 -> Data] /\ Media[d] \in Nat
  BY ConstantsAssumption DEF TypeOK
<1>2. ASSUME NEW i \in 0..Slots-1, i < n PROVE disk[d][p + i] \in Data
  <2>1. Slots \in Nat
    BY ConstantsAssumption
  <2>2. p + i \in 0..Media[d]-1
    BY <1>1, <1>2, <2>1
  <2> QED BY <1>1, <2>2
<1>3. DOMAIN buf = 0..Slots-1 /\ \A i \in 0..Slots-1 : buf[i] \in Data
  BY DEF TypeOK
<1> QED BY <1>2, <1>3 DEF Load

\* Facts about rawread()'s locals that several actions need.
LEMMA LocalsType ==
  ASSUME TypeInv, buf_geom.spt > 0
  PROVE  /\ VTrack(buf_geom) \in 1..Slots
         /\ Offset \in 0..VTrack(buf_geom)-1
         /\ Track \in Nat
         /\ Count \in 1..VTrack(buf_geom)
         /\ Offset + Count = VTrack(buf_geom)
<1>1. buf_geom \in GeometryType /\ rd.sector \in Nat
  BY DEF TypeInv, TypeOK
<1>2. VTrack(buf_geom) \in 1..Slots /\ Offset \in 0..VTrack(buf_geom)-1 /\ Track \in Nat
  BY <1>1, OffsetType DEF Offset, Track
<1>3. Slots \in Nat
  BY ConstantsAssumption
<1> QED BY <1>2, <1>3 DEF Count

\* The types hold to begin with.
LEMMA TypeInvInit == Init => TypeInv
<1> SUFFICES ASSUME Init PROVE TypeInv
  OBVIOUS
<1> USE DEF Init
<1>1. Slots \in Nat /\ Slots >= 2
  BY ConstantsAssumption
<1>2. DOMAIN disk = Drive /\ \A d \in Drive : disk[d] \in [0..Media[d]-1 -> Data]
  BY ConstantsAssumption
<1>3. buf_geom \in GeometryType
  BY <1>1 DEF GeometryType
<1>4. buf \in [0..Slots-1 -> Data]
  OBVIOUS
<1>5. rd \in [drive : Drive \cup {None}, sector : Nat, left : Nat, at : 0..Slots-1]
  BY <1>1
<1>b. behind \in BOOLEAN /\ careful \in BOOLEAN
  OBVIOUS
<1>6. TypeOK
  BY <1>1, <1>2, <1>3, <1>4, <1>5, <1>b DEF TypeOK
<1>7. Working
  BY DEF Working, Quiet
<1> QED BY <1>6, <1>7 DEF TypeInv

\* The steps of a read that leave the media and the buffer alone.
LEMMA TypeInvControl ==
  ASSUME TypeInv, careful' \in BOOLEAN,
         \/ \E r \in Requests : Call(r)
         \/ Refresh \/ RefreshFails \/ OutOfGeometry \/ Fault \/ Hit \/ NotEZD \/ Return
  PROVE  TypeInv'
<1> USE DEF TypeInv, Quiet
<1>0. Slots \in Nat /\ Slots >= 2 /\ 0 \in 0..Slots-1
  BY ConstantsAssumption
<1>1. ASSUME NEW r \in Requests, Call(r) PROVE TypeInv'
  <2>1. r[1] \in Drive /\ r[2] \in Nat /\ r[3] \in Nat
    BY ConstantsAssumption
  <2>2. rd' \in [drive : Drive \cup {None}, sector : Nat, left : Nat, at : 0..Slots-1]
    BY <1>0, <1>1, <2>1 DEF Call
  <2>3. TypeOK'
    BY <1>1, <2>2 DEF TypeOK, Call, cache
  <2>4. Working'
    BY <1>1, <2>1 DEF Working, Call, cache
  <2> QED BY <2>3, <2>4
<1>2. CASE Refresh
  <2>1. rd.drive \in Drive
    BY <1>2 DEF Refresh, Looping, Working
  <2>2. /\ Geometry[rd.drive] \in GeometryType
        /\ Geometry[rd.drive].heads > 0
    BY <2>1, ConstantsAssumption
  <2>3. TypeOK'
    BY <1>2, <2>1, <2>2 DEF TypeOK, Refresh
  <2>4. Working'
    BY <1>2, <2>1, <2>2 DEF Working, Refresh, Looping
  <2> QED BY <2>3, <2>4
<1>3. CASE RefreshFails
  <2>3. buf_geom' \in GeometryType /\ buf_geom'.heads > 0
    BY <1>3, GarbledType DEF TypeOK, RefreshFails
  <2>4. TypeOK'
    BY <1>3, <2>3 DEF TypeOK, RefreshFails
  <2>5. Working'
    BY <1>3, <2>3 DEF Working, RefreshFails, Looping
  <2> QED BY <2>4, <2>5
<1>4. CASE OutOfGeometry
  BY <1>4 DEF OutOfGeometry, Located, Looping, TypeOK, Working, cache
<1>5. CASE Fault
  BY <1>5 DEF Fault, Located, Looping, TypeOK, Working, cache
<1>6. CASE Hit
  <2>1. buf_geom.spt > 0
    BY <1>6 DEF Hit, Addressed, VTrack, MinOf, TypeOK, GeometryType
  <2>2. Offset \in 0..Slots-1
    BY <1>0, <2>1, LocalsType
  <2>3. rd' = [rd EXCEPT !.at = Offset] /\ rd'.sector = rd.sector /\ rd'.left = rd.left
        /\ rd'.at = Offset /\ rd'.drive = rd.drive
        /\ rd' \in [drive : Drive \cup {None}, sector : Nat, left : Nat, at : 0..Slots-1]
    BY <1>6, <2>2 DEF Hit, TypeOK
  <2>4. TypeOK'
    BY <1>6, <2>3 DEF TypeOK, Hit, cache
  <2>5. Working'
    BY <1>6, <2>1, <2>3 DEF Working, Hit, Addressed, Located, Looping, cache, Offset
  <2> QED BY <2>4, <2>5
<1>7. CASE NotEZD
  BY <1>7 DEF NotEZD, TypeOK, Working, cache, Offset
<1>8. CASE Return
  BY <1>8 DEF Return, TypeOK, Working, cache
<1> QED BY <1>1, <1>2, <1>3, <1>4, <1>5, <1>6, <1>7, <1>8

\* The steps of a read that access the disk or the buffer.
LEMMA TypeInvBuffer ==
  ASSUME TypeInv, careful' \in BOOLEAN, Fill \/ Retry \/ MapInBuffer \/ MapFromDisk \/ Copy
  PROVE  TypeInv'
<1> USE DEF TypeInv, Quiet
<1>0. Slots \in Nat /\ Slots >= 2 /\ 0 \in 0..Slots-1 /\ 1 \in 0..Slots-1
  BY ConstantsAssumption
<1>s. ASSUME buf_geom.spt > 0, NEW n \in Nat, NEW s \in Nat, rd.drive \in Drive,
             NEW r \in biosdisk(rd.drive, buf_geom, s, n)
      PROVE  /\ r.geom \in GeometryType /\ r.geom.spt = buf_geom.spt
             /\ r.geom.heads > 0 /\ VTrack(r.geom) = VTrack(buf_geom)
             /\ r.err = "none" => Load(rd.drive, r.from, n) \in [0..Slots-1 -> Data]
  <2>1. buf_geom \in GeometryType /\ buf_geom.heads > 0
    BY <1>s DEF TypeOK, Working
  <2>2. /\ r.geom \in GeometryType
        /\ r.geom \in {buf_geom, WithoutLBA(buf_geom)}
        /\ r.err = "none" => r.from \in Nat /\ r.from + n <= Media[rd.drive]
    BY <1>s, <2>1, biosdiskType
  <2>3. /\ WithoutLBA(buf_geom).spt = buf_geom.spt
        /\ WithoutLBA(buf_geom).heads = buf_geom.heads
        /\ WithoutLBA(buf_geom).fit = buf_geom.fit
    BY <2>1 DEF WithoutLBA, GeometryType
  <2>4. r.err = "none" => Load(rd.drive, r.from, n) \in [0..Slots-1 -> Data]
    BY <1>s, <2>2, LoadType
  <2> QED BY <2>1, <2>2, <2>3, <2>4 DEF VTrack
<1>1. CASE Fill
  <2>1. /\ buf_geom.spt > 0 /\ rd.drive \in Drive /\ rd.left > 0 /\ buf_drive = rd.drive
        /\ rd.sector \in Nat /\ rd.left \in Nat
    BY <1>1 DEF Fill, Addressed, Located, Looping, VTrack, MinOf, TypeOK, Working, GeometryType
  <2>2. /\ VTrack(buf_geom) \in 1..Slots /\ Offset \in 0..Slots-1
        /\ Track \in Nat /\ Count \in Nat /\ VTrack(buf_geom) \in Nat
    BY <1>0, <2>1, LocalsType
  <2> DEFINE start == IF Partial THEN rd.sector ELSE Track
  <2> DEFINE n == IF Partial THEN Count ELSE VTrack(buf_geom)
  <2>3. start \in Nat /\ n \in Nat
    BY <2>1, <2>2
  <2>4. PICK r \in biosdisk(rd.drive, buf_geom, start, n) :
          /\ buf_geom' = r.geom
          /\ rd' = [rd EXCEPT !.at = IF Partial \/ r.err = "error" THEN 0 ELSE Offset]
          /\ \/ /\ r.err = "none"
                /\ buf' = Load(rd.drive, r.from, n)
                /\ buf_track' = Track
                /\ phase' = "map"
                /\ UNCHANGED errnum
             \/ /\ r.err # "none"
                /\ buf_track' = -1
                /\ errnum' = CASE r.err = "geometry" -> "geom"
                               [] r.err = "error" /\ Partial -> "read"
                               [] OTHER -> errnum
                /\ phase' = IF r.err = "error" /\ ~ Partial THEN "retry" ELSE "map"
                /\ UNCHANGED buf
    BY <1>1 DEF Fill
  <2>5. /\ rd'.at \in {0, Offset} /\ rd'.sector = rd.sector /\ rd'.left = rd.left
        /\ rd'.drive = rd.drive
        /\ rd' \in [drive : Drive \cup {None}, sector : Nat, left : Nat, at : 0..Slots-1]
    BY <1>0, <2>2, <2>4 DEF TypeOK
  <2>g. /\ buf_geom' \in GeometryType /\ buf_geom'.spt = buf_geom.spt
        /\ buf_geom'.heads > 0 /\ VTrack(buf_geom)' = VTrack(buf_geom)
        /\ r.err = "none" => Load(rd.drive, r.from, n) \in [0..Slots-1 -> Data]
    <3> HIDE DEF start, n
    <3>1. /\ r.geom \in GeometryType /\ r.geom.spt = buf_geom.spt
          /\ r.geom.heads > 0 /\ VTrack(r.geom) = VTrack(buf_geom)
          /\ r.err = "none" => Load(rd.drive, r.from, n) \in [0..Slots-1 -> Data]
      BY <1>s, <2>1, <2>3
    <3> QED BY <2>4, <3>1 DEF VTrack
  <2>6. errnum' \in {"none", "no_disk", "geom", "read", "write"}
    BY <2>4 DEF TypeOK
  <2>7. buf_track' \in Nat \cup {-1} /\ buf' \in [0..Slots-1 -> Data]
        /\ phase' \in {"map", "retry"}
    BY <2>2, <2>4, <2>g DEF TypeOK
  <2>8. UNCHANGED <<disk, buf_drive, req, out>> /\ behind' \in BOOLEAN
    BY <1>1 DEF Fill
  <2>9. TypeOK'
    BY <2>5, <2>6, <2>7, <2>8, <2>g DEF TypeOK
  <2>10. Working'
    BY <2>1, <2>5, <2>7, <2>8, <2>g DEF Working, Offset
  <2> QED BY <2>9, <2>10
<1>2. CASE Retry
  <2>1. /\ buf_geom.spt > 0 /\ rd.drive \in Drive /\ rd.left > 0 /\ buf_drive = rd.drive
        /\ rd.sector \in Nat /\ rd.left \in Nat /\ rd.at \in {0, Offset}
    BY <1>2 DEF Retry, TypeOK, Working
  <2>2. PICK r \in biosdisk(rd.drive, buf_geom, rd.sector, rd.left) :
          /\ buf_geom' = r.geom
          /\ \/ r.err = "none" /\ buf' = Load(rd.drive, r.from, rd.left) /\ UNCHANGED errnum
             \/ r.err # "none" /\ errnum' = "read" /\ UNCHANGED buf
    BY <1>2 DEF Retry
  <2>3. /\ buf_geom' \in GeometryType /\ buf_geom'.spt = buf_geom.spt
        /\ buf_geom'.heads > 0 /\ VTrack(buf_geom)' = VTrack(buf_geom)
        /\ buf' \in [0..Slots-1 -> Data]
    <3>1. /\ r.geom \in GeometryType /\ r.geom.spt = buf_geom.spt
          /\ r.geom.heads > 0 /\ VTrack(r.geom) = VTrack(buf_geom)
          /\ r.err = "none" => Load(rd.drive, r.from, rd.left) \in [0..Slots-1 -> Data]
      BY <1>s, <2>1
    <3> QED BY <2>2, <3>1 DEF VTrack, TypeOK
  <2>4. TypeOK'
    BY <1>2, <2>2, <2>3 DEF Retry, TypeOK
  <2>5. Working'
    BY <1>2, <2>1, <2>3 DEF Retry, Working, Offset
  <2> QED BY <2>4, <2>5
<1>3. CASE MapInBuffer
  <2>1. buf' \in [0..Slots-1 -> Data]
    BY <1>0, <1>3 DEF MapInBuffer, TypeOK
  <2>2. TypeOK'
    BY <1>3, <2>1 DEF MapInBuffer, TypeOK
  <2>3. Working'
    BY <1>3 DEF MapInBuffer, Working, Offset
  <2> QED BY <2>2, <2>3
<1>4. CASE MapFromDisk
  <2>1. /\ buf_geom.spt > 0 /\ rd.drive \in Drive /\ rd.left > 0 /\ buf_drive = rd.drive
        /\ rd.at \in {0, Offset}
    BY <1>4 DEF MapFromDisk, TypeOK, Working
  <2>2. PICK r \in biosdisk(rd.drive, buf_geom, 1, 1) :
          /\ buf_geom' = r.geom
          /\ \/ r.err = "none" /\ buf' = Load(rd.drive, r.from, 1) /\ UNCHANGED errnum
             \/ r.err # "none" /\ errnum' = "read" /\ UNCHANGED buf
    BY <1>4 DEF MapFromDisk
  <2>3. /\ buf_geom' \in GeometryType /\ buf_geom'.spt = buf_geom.spt
        /\ buf_geom'.heads > 0 /\ VTrack(buf_geom)' = VTrack(buf_geom)
        /\ buf' \in [0..Slots-1 -> Data]
    <3>1. /\ r.geom \in GeometryType /\ r.geom.spt = buf_geom.spt
          /\ r.geom.heads > 0 /\ VTrack(r.geom) = VTrack(buf_geom)
          /\ r.err = "none" => Load(rd.drive, r.from, 1) \in [0..Slots-1 -> Data]
      BY <1>s, <2>1
    <3> QED BY <2>2, <3>1 DEF VTrack, TypeOK
  <2>4. TypeOK'
    BY <1>4, <2>2, <2>3 DEF MapFromDisk, TypeOK
  <2>5. Working'
    BY <1>4, <2>1, <2>3 DEF MapFromDisk, Working, Offset
  <2> QED BY <2>4, <2>5
<1>5. CASE Copy
  <2> DEFINE n == MinOf(rd.left, Count)
  <2>1. /\ buf_geom.spt > 0 /\ rd.drive \in Drive /\ rd.left > 0 /\ rd.left \in Nat
        /\ rd.at \in {0, Offset} /\ rd.sector \in Nat
    BY <1>5 DEF Copy, TypeOK, Working
  <2>2. /\ VTrack(buf_geom) \in 1..Slots /\ Offset \in 0..VTrack(buf_geom)-1
        /\ Count \in 1..VTrack(buf_geom) /\ Offset + Count = VTrack(buf_geom)
    BY <2>1, LocalsType
  <2>3. n \in Nat /\ n <= rd.left /\ n <= Count
    BY <1>0, <2>1, <2>2 DEF MinOf
  <2>4. rd' \in [drive : Drive \cup {None}, sector : Nat, left : Nat, at : 0..Slots-1]
        /\ rd'.drive = rd.drive
    <3> HIDE DEF n
    <3>1. rd' = [rd EXCEPT !.sector = @ + Count, !.left = @ - n]
      BY <1>5 DEF Copy, n
    <3>2. rd.sector + Count \in Nat /\ rd.left - n \in Nat
      BY <1>0, <2>1, <2>2, <2>3
    <3> QED BY <3>1, <3>2 DEF TypeOK
  <2>5. out' \in Seq(Data)
    <3> HIDE DEF n
    <3>1. ASSUME NEW i \in 1..n PROVE buf[rd.at + i - 1] \in Data
      <4>1. rd.at + i - 1 \in 0..Slots-1
        BY <1>0, <2>1, <2>2, <2>3
      <4> QED BY <4>1 DEF TypeOK
    <3>2. [i \in 1..n |-> buf[rd.at + i - 1]] \in Seq(Data)
      BY <2>3, <3>1
    <3>3. out' = out \o [i \in 1..n |-> buf[rd.at + i - 1]]
      BY <1>5 DEF Copy, n
    <3> QED BY <3>2, <3>3 DEF TypeOK
  <2>6. TypeOK'
    BY <1>5, <2>4, <2>5 DEF Copy, TypeOK, cache
  <2>7. Working'
    BY <1>5, <2>1, <2>4 DEF Copy, Working, cache
  <2> QED BY <2>6, <2>7
<1> QED BY <1>1, <1>2, <1>3, <1>4, <1>5

\* Mounting, invalidating and writing.
LEMMA TypeInvOthers ==
  ASSUME TypeInv, careful' \in BOOLEAN,
         \/ \E d \in Drive : Mount(d)
         \/ Invalidate
         \/ \E w \in Writes : Write(w)
  PROVE  TypeInv'
<1> USE DEF TypeInv, Quiet
<1>1. ASSUME NEW d \in Drive, Mount(d) PROVE TypeInv'
  <2>1. Geometry[d] \in GeometryType /\ Geometry[d].heads > 0
    BY ConstantsAssumption
  <2>2. buf_geom' \in GeometryType /\ buf_geom'.heads > 0
    BY <1>1, <2>1, GarbledType DEF Mount, TypeOK
  <2>3. TypeOK'
    BY <1>1, <2>2 DEF Mount, TypeOK
  <2>4. Working'
    BY <1>1, <2>2 DEF Mount, Working
  <2> QED BY <2>3, <2>4
<1>2. CASE Invalidate
  BY <1>2 DEF Invalidate, TypeOK, Working
<1>3. ASSUME NEW w \in Writes, Write(w) PROVE TypeInv'
  <2> DEFINE d == w[1]
  <2> DEFINE s == w[2]
  <2>1. d \in Drive /\ s \in Nat /\ w[3] \in Data
    BY ConstantsAssumption
  <2>2. /\ buf_geom \in GeometryType /\ buf_geom.spt > 0 /\ buf_geom.heads > 0
        /\ Quiet /\ UNCHANGED <<buf_drive, buf, phase, rd, req, out>>
    BY <1>3 DEF Write, TypeOK, Working
  <2>3. PICK first \in IF s = 0 THEN biosdisk(d, buf_geom, 0, 1)
                       ELSE {[err |-> "none", geom |-> buf_geom, from |-> s]} :
           IF first.err # "none"
           THEN /\ errnum' = "write"
                /\ buf_geom' = first.geom
                /\ UNCHANGED <<disk, buf_track>>
           ELSE \E r \in biosdisk(d, first.geom, IF s = 0 /\ disk[d][first.from] \in EZD
                                                THEN 1 ELSE s, 1) :
                  /\ buf_geom' = r.geom
                  /\ \/ /\ r.err = "none"
                        /\ disk' = [disk EXCEPT ![d][r.from] = w[3]]
                        /\ buf_track' \in {-1, buf_track}
                        /\ UNCHANGED errnum
                     \/ /\ r.err # "none"
                        /\ errnum' = "write"
                        /\ UNCHANGED <<disk, buf_track>>
    BY <1>3 DEF Write
  <2>g. ASSUME NEW h \in GeometryType, h.spt > 0, h.heads > 0, NEW t \in Nat,
               NEW r \in biosdisk(d, h, t, 1)
        PROVE  /\ r.geom \in GeometryType /\ r.geom.heads > 0 /\ r.geom.spt > 0
               /\ r.err = "none" => r.from \in 0..Media[d]-1
    <3>1. /\ r.geom \in GeometryType /\ r.geom \in {h, WithoutLBA(h)}
          /\ r.err = "none" => r.from \in Nat /\ r.from + 1 <= Media[d]
      BY <2>1, <2>g, biosdiskType
    <3>2. WithoutLBA(h).heads = h.heads /\ WithoutLBA(h).spt = h.spt
      BY DEF WithoutLBA, GeometryType
    <3>3. Media[d] \in Nat
      BY <2>1, ConstantsAssumption
    <3> QED BY <2>g, <3>1, <3>2, <3>3
  <2>4. first.geom \in GeometryType /\ first.geom.heads > 0 /\ first.geom.spt > 0
    <3>1. CASE s = 0
      <4>1. first \in biosdisk(d, buf_geom, 0, 1)
        BY <2>3, <3>1
      <4> QED BY <2>2, <2>g, <4>1
    <3>2. CASE s # 0
      <4>1. first.geom = buf_geom
        BY <2>3, <3>2
      <4> QED BY <2>2, <4>1
    <3> QED BY <3>1, <3>2
  <2>5. /\ buf_geom' \in GeometryType /\ buf_geom'.heads > 0
        /\ buf_track' \in {-1, buf_track}
        /\ errnum' \in {errnum, "write"}
        /\ \/ UNCHANGED disk
           \/ \E p \in 0..Media[d]-1 : disk' = [disk EXCEPT ![d][p] = w[3]]
    <3>1. CASE first.err # "none"
      BY <2>3, <2>4, <3>1
    <3>2. CASE first.err = "none"
      <4> DEFINE t == IF s = 0 /\ disk[d][first.from] \in EZD THEN 1 ELSE s
      <4>1. t \in Nat
        BY <2>1
      <4> HIDE DEF t
      <4>2. PICK r \in biosdisk(d, first.geom, t, 1) :
              /\ buf_geom' = r.geom
              /\ \/ /\ r.err = "none"
                    /\ disk' = [disk EXCEPT ![d][r.from] = w[3]]
                    /\ buf_track' \in {-1, buf_track}
                    /\ UNCHANGED errnum
                 \/ /\ r.err # "none"
                    /\ errnum' = "write"
                    /\ UNCHANGED <<disk, buf_track>>
        BY <2>3, <3>2 DEF t
      <4>3. /\ r.geom \in GeometryType /\ r.geom.heads > 0
            /\ r.err = "none" => r.from \in 0..Media[d]-1
        BY <2>4, <2>g, <4>1
      <4> QED BY <4>2, <4>3
    <3> QED BY <3>1, <3>2
  <2>6. DOMAIN disk' = Drive /\ \A e \in Drive : disk'[e] \in [0..Media[e]-1 -> Data]
    <3> HIDE DEF d
    <3>1. DOMAIN disk = Drive /\ \A e \in Drive : disk[e] \in [0..Media[e]-1 -> Data]
      BY DEF TypeOK
    <3>2. ASSUME NEW p \in 0..Media[d]-1, disk' = [disk EXCEPT ![d][p] = w[3]]
          PROVE  DOMAIN disk' = Drive /\ \A e \in Drive : disk'[e] \in [0..Media[e]-1 -> Data]
      <4>1. DOMAIN disk' = Drive
        BY <3>1, <3>2
      <4>2. disk'[d] = [disk[d] EXCEPT ![p] = w[3]]
        BY <2>1, <3>1, <3>2
      <4>3. disk'[d] \in [0..Media[d]-1 -> Data]
        BY <2>1, <3>1, <4>2
      <4>4. \A e \in Drive : e # d => disk'[e] = disk[e]
        BY <3>1, <3>2
      <4> QED BY <3>1, <4>1, <4>3, <4>4
    <3> QED BY <2>5, <3>1, <3>2
  <2>b. behind' \in BOOLEAN
    BY <1>3 DEF Write, TypeOK
  <2>7. TypeOK'
    BY <2>2, <2>5, <2>6, <2>b DEF TypeOK
  <2>8. Working'
    BY <2>2, <2>5 DEF Working
  <2> QED BY <2>7, <2>8
<1> QED BY <1>1, <1>2, <1>3

\* Every step of the specification preserves the types.
LEMMA TypeInvStep == TypeInv /\ [Next]_vars => TypeInv'
<1> SUFFICES ASSUME TypeInv, [Next]_vars PROVE TypeInv'
  OBVIOUS
<1>0. careful' \in BOOLEAN
  BY DEF TypeInv, TypeOK, Next, vars, Call, ReadStep, Mount, Invalidate, Write
<1>1. CASE \E r \in Requests : Call(r)
  BY <1>0, <1>1, TypeInvControl
<1>2. CASE ReadStep
  BY <1>0, <1>2, TypeInvControl, TypeInvBuffer DEF ReadStep
<1>3. CASE \/ \E d \in Drive : Mount(d)
           \/ Invalidate
           \/ \E w \in Writes : Write(w)
  BY <1>0, <1>3, TypeInvOthers
<1>4. CASE UNCHANGED vars
  BY <1>4 DEF vars, cache, TypeInv, TypeOK, Working, Quiet, Offset
<1> QED BY <1>1, <1>2, <1>3, <1>4 DEF Next

\* In every reachable state the variables have their types: no sector number,
\* no sector count and no place in the buffer that rawread() computes is ever
\* negative or outside the buffer, whatever the geometry a probe leaves behind.
THEOREM TypeCorrect == Spec => []TypeOK
<1>1. TypeInv => TypeOK
  BY DEF TypeInv
<1> QED BY <1>1, TypeInvInit, TypeInvStep, PTL DEF Spec

-------------------------------------------------------------------------------
(* The geometry in use. *)

\* What get_diskinfo() reports of a drive, or what remains of it when an LBA
\* access failed.
Usable(d) == {Geometry[d], WithoutLBA(Geometry[d])}

\* The geometry is the cached drive's, but for a probe that has just failed; the
\* steps that follow an access are not reached with such a failure.
GeometryInv ==
  careful =>
    /\ buf_drive # None /\ errnum # "no_disk" => buf_geom \in Usable(buf_drive)
    /\ phase \in {"retry", "map", "copy"} => errnum # "no_disk"

\* An access leaves a usable geometry usable.
LEMMA UsableKept ==
  ASSUME NEW d \in Drive, NEW e \in Drive, NEW g \in Usable(d), NEW s \in Nat, NEW n \in Nat,
         g.spt > 0, NEW r \in biosdisk(e, g, s, n)
  PROVE  r.geom \in Usable(d) /\ r.geom.spt > 0
<1>1. Geometry[d] \in GeometryType /\ Geometry[d].heads > 0
  BY ConstantsAssumption
<1>2. WithoutLBA(Geometry[d]) \in GeometryType
  <2>1. Geometry[d].cyls * Geometry[d].heads * Geometry[d].spt \in Nat
    BY <1>1 DEF GeometryType
  <2> QED BY <1>1, <2>1 DEF WithoutLBA, GeometryType
<1>3. /\ WithoutLBA(WithoutLBA(Geometry[d])) = WithoutLBA(Geometry[d])
      /\ WithoutLBA(Geometry[d]).heads = Geometry[d].heads
      /\ WithoutLBA(Geometry[d]).spt = Geometry[d].spt
  BY <1>1 DEF WithoutLBA, GeometryType
<1>4. g \in GeometryType /\ g.heads > 0
  BY <1>1, <1>2, <1>3 DEF Usable
<1>5. r.geom \in {g, WithoutLBA(g)}
  BY <1>4, biosdiskType
<1>6. WithoutLBA(g).spt = g.spt
  BY <1>4 DEF WithoutLBA, GeometryType
<1> QED BY <1>3, <1>5, <1>6 DEF Usable

\* A read in progress has a drive.
LEMMA ReadingADrive ==
  ASSUME TypeInv, ~ Quiet
  PROVE  rd.drive \in Drive /\ rd.drive # None
  BY ConstantsAssumption DEF TypeInv, Working

\* The steps of a read keep to the geometry of the drive being read.
LEMMA GeometryInvRead ==
  ASSUME TypeInv, GeometryInv, ReadStep
  PROVE  GeometryInv'
<1> USE DEF GeometryInv
<1> SUFFICES ASSUME careful PROVE GeometryInv'
  BY DEF ReadStep
<1>1. CASE Refresh
  BY <1>1 DEF Refresh, Looping, Usable
<1>2. CASE RefreshFails
  BY <1>2 DEF RefreshFails, Looping
<1>3. CASE OutOfGeometry
  BY <1>3 DEF OutOfGeometry, Located, Looping, cache
<1>4. CASE Fault
  BY <1>4 DEF Fault, cache
<1>5. CASE Hit
  BY <1>5 DEF Hit, Addressed, Located, Looping, cache
<1>6. CASE Fill
  <2>1. /\ buf_geom.spt > 0 /\ rd.sector \in Nat /\ buf_drive = rd.drive
        /\ errnum = "none" /\ ~ Quiet
    BY <1>6 DEF Fill, Addressed, Located, Looping, Quiet, VTrack, MinOf, TypeInv, TypeOK, GeometryType
  <2>2. /\ VTrack(buf_geom) \in Nat /\ Track \in Nat /\ Count \in Nat
    BY <2>1, LocalsType, ConstantsAssumption
  <2>3. rd.drive \in Drive /\ buf_geom \in Usable(rd.drive)
    BY <2>1, ReadingADrive
  <2> DEFINE start == IF Partial THEN rd.sector ELSE Track
             n     == IF Partial THEN Count ELSE VTrack(buf_geom)
  <2>4. start \in Nat /\ n \in Nat
    BY <2>1, <2>2
  <2>5. PICK r \in biosdisk(rd.drive, buf_geom, start, n) : buf_geom' = r.geom
    BY <1>6 DEF Fill
  <2>6. buf_geom' \in Usable(rd.drive)
    <3> HIDE DEF start, n
    <3> QED BY <2>1, <2>3, <2>4, <2>5, UsableKept
  <2>7. buf_drive' = buf_drive /\ errnum' \in {"none", "geom", "read"}
    BY <1>6, <2>1 DEF Fill
  <2> QED BY <2>1, <2>6, <2>7
<1>7. CASE Retry
  <2>1. /\ rd.drive \in Drive /\ buf_drive = rd.drive /\ buf_drive # None /\ buf_geom.spt > 0
        /\ rd.sector \in Nat /\ rd.left \in Nat /\ errnum # "no_disk"
    BY <1>7, ReadingADrive DEF Retry, Quiet, TypeInv, TypeOK, Working
  <2>2. buf_geom' \in Usable(rd.drive)
    BY <1>7, <2>1, UsableKept DEF Retry
  <2>3. buf_drive' = buf_drive /\ errnum' # "no_disk"
    BY <1>7, <2>1 DEF Retry
  <2> QED BY <2>1, <2>2, <2>3
<1>8. CASE NotEZD
  BY <1>8 DEF NotEZD, cache
<1>9. CASE MapInBuffer
  BY <1>9 DEF MapInBuffer
<1>10. CASE MapFromDisk
  <2>1. /\ rd.drive \in Drive /\ buf_drive = rd.drive /\ buf_drive # None /\ buf_geom.spt > 0
        /\ errnum # "no_disk"
    BY <1>10, ReadingADrive DEF MapFromDisk, Quiet, TypeInv, Working
  <2>2. buf_geom' \in Usable(rd.drive)
    BY <1>10, <2>1, UsableKept DEF MapFromDisk
  <2>3. buf_drive' = buf_drive /\ errnum' # "no_disk"
    BY <1>10, <2>1 DEF MapFromDisk
  <2> QED BY <2>1, <2>2, <2>3
<1>11. CASE Copy
  BY <1>11 DEF Copy, cache
<1>12. CASE Return
  BY <1>12 DEF Return, cache
<1> QED BY <1>1, <1>2, <1>3, <1>4, <1>5, <1>6, <1>7, <1>8, <1>9, <1>10, <1>11, <1>12 DEF ReadStep

\* So do the other users of the buffer, if failed probes are followed up.
LEMMA GeometryInvOthers ==
  ASSUME TypeInv, GeometryInv,
         \/ \E r \in Requests : Call(r)
         \/ \E d \in Drive : Mount(d)
         \/ Invalidate
         \/ \E w \in Writes : Write(w)
  PROVE  GeometryInv'
<1> USE DEF GeometryInv
<1> SUFFICES ASSUME careful, careful' PROVE GeometryInv'
  BY DEF Call, Mount, Invalidate, Write
<1>1. ASSUME NEW r \in Requests, Call(r) PROVE GeometryInv'
  BY <1>1 DEF Call, Clean, cache
<1>2. ASSUME NEW d \in Drive, Mount(d) PROVE GeometryInv'
  BY <1>2 DEF Mount, Quiet, Usable
<1>3. CASE Invalidate
  BY <1>3 DEF Invalidate
<1>4. ASSUME NEW w \in Writes, Write(w) PROVE GeometryInv'
  <2> DEFINE d == w[1]
             s == w[2]
  <2>1. d \in Drive /\ s \in Nat
    BY ConstantsAssumption
  <2>2. /\ d = buf_drive /\ buf_drive # None /\ errnum # "no_disk" /\ buf_geom.spt > 0
        /\ buf_geom \in Usable(d) /\ Quiet /\ UNCHANGED <<buf_drive, phase>>
    BY <1>4, <2>1, ConstantsAssumption DEF Write, Clean
  <2>3. PICK first \in IF s = 0 THEN biosdisk(d, buf_geom, 0, 1)
                       ELSE {[err |-> "none", geom |-> buf_geom, from |-> s]} :
           IF first.err # "none"
           THEN errnum' = "write" /\ buf_geom' = first.geom
           ELSE \E r \in biosdisk(d, first.geom, IF s = 0 /\ disk[d][first.from] \in EZD
                                                THEN 1 ELSE s, 1) :
                  buf_geom' = r.geom /\ errnum' \in {errnum, "write"}
    BY <1>4 DEF Write
  <2>4. first.geom \in Usable(d) /\ first.geom.spt > 0
    <3>1. CASE s = 0
      <4>1. first \in biosdisk(d, buf_geom, 0, 1)
        BY <2>3, <3>1
      <4> HIDE DEF d
      <4> QED BY <2>1, <2>2, <4>1, UsableKept
    <3>2. CASE s # 0
      BY <2>2, <2>3, <3>2
    <3> QED BY <3>1, <3>2
  <2>5. buf_geom' \in Usable(d) /\ errnum' # "no_disk"
    <3>1. CASE first.err # "none"
      BY <2>3, <2>4, <3>1
    <3>2. CASE first.err = "none"
      <4> DEFINE t == IF s = 0 /\ disk[d][first.from] \in EZD THEN 1 ELSE s
      <4>1. t \in Nat
        BY <2>1
      <4> HIDE DEF t
      <4>2. PICK r \in biosdisk(d, first.geom, t, 1) :
              buf_geom' = r.geom /\ errnum' \in {errnum, "write"}
        BY <2>3, <3>2 DEF t
      <4> HIDE DEF d, s
      <4> QED BY <2>1, <2>2, <2>4, <4>1, <4>2, UsableKept
    <3> QED BY <3>1, <3>2
  <2> QED BY <2>2, <2>5 DEF Quiet
<1> QED BY <1>1, <1>2, <1>3, <1>4

LEMMA GeometryInvInit == Init => GeometryInv
BY DEF Init, GeometryInv

LEMMA GeometryInvStep == TypeInv /\ GeometryInv /\ [Next]_vars => GeometryInv'
<1> SUFFICES ASSUME TypeInv, GeometryInv, [Next]_vars PROVE GeometryInv'
  OBVIOUS
<1>1. CASE ReadStep
  BY <1>1, GeometryInvRead
<1>2. CASE \/ \E r \in Requests : Call(r)
           \/ \E d \in Drive : Mount(d)
           \/ Invalidate
           \/ \E w \in Writes : Write(w)
  BY <1>2, GeometryInvOthers
<1>3. CASE UNCHANGED vars
  BY <1>3 DEF vars, cache, GeometryInv
<1> QED BY <1>1, <1>2, <1>3 DEF Next

\* As long as every failed probe is followed by an invalidation, as exec_cfg() has it after a
\* script that fails, rawread() never addresses a drive with the geometry of another, nor with what a
\* failed probe left: no track has zero sectors and no sector is taken for another.
THEOREM GeometryAlwaysOfDrive == Spec => []GeometryOfDrive
<1>1. TypeInv /\ GeometryInv => GeometryOfDrive
  <2> SUFFICES ASSUME TypeInv, GeometryInv, careful, Located
               PROVE  buf_geom \in Usable(buf_drive)
    BY DEF GeometryOfDrive, Usable
  <2>1. errnum = "none" /\ buf_drive = rd.drive /\ ~ Quiet
    BY DEF Located, Looping, Quiet
  <2> QED BY <2>1, ReadingADrive DEF GeometryInv
<1> QED BY <1>1, GeometryInvInit, GeometryInvStep, TypeInvInit, TypeInvStep, PTL DEF Spec

-------------------------------------------------------------------------------
(* Arithmetic. *)

\* Quotient and remainder are the only ones.
LEMMA ModUnique ==
  ASSUME NEW b \in Nat, b > 0, NEW q \in Int, NEW r \in 0..b-1, b * q + r \in Nat
  PROVE  (b * q + r) % b = r
<1> DEFINE a == b * q + r
           k == a \div b
           m == q - k
<1>1. a \in Nat /\ k \in Nat /\ a % b \in 0..b-1 /\ a = b * k + (a % b)
  BY DivMod
<1>2. m \in Int /\ q = m + k
  BY <1>1
<1> HIDE DEF k
<1>3. b * q = b * m + b * k
  BY <1>1, <1>2
<1> HIDE DEF m
<1>4. b * m = (a % b) - r
  BY <1>1, <1>2, <1>3
<1>5. m >= 1 => b * m >= b
  BY <1>2
<1>6. m <= -1 => b * m <= -b
  BY <1>2
<1>7. m = 0
  BY <1>1, <1>2, <1>4, <1>5, <1>6
<1> QED BY <1>1, <1>4, <1>7

\* The track of a sector, and the one after it.
LEMMA TrackOf ==
  ASSUME NEW v \in Nat, v > 0, NEW s \in Nat
  PROVE  /\ s % v \in 0..v-1
         /\ s - (s % v) \in Nat
         /\ (s - (s % v)) % v = 0
         /\ (s - (s % v) + v) % v = 0
<1> DEFINE q == s \div v
<1>1. q \in Nat /\ s % v \in 0..v-1 /\ s = v * q + (s % v) /\ s - (s % v) \in Nat
  BY DivMod
<1> HIDE DEF q
<1>2. s - (s % v) = v * q + 0 /\ s - (s % v) + v = v * (q + 1) + 0
  BY <1>1
<1>3. v * q + 0 \in Nat /\ v * (q + 1) + 0 \in Nat
  BY <1>1, <1>2
<1>4. (v * q + 0) % v = 0 /\ (v * (q + 1) + 0) % v = 0
  BY <1>1, <1>3, ModUnique
<1> QED BY <1>1, <1>2, <1>4

\* A sector in an aligned track has that track.
LEMMA InTrack ==
  ASSUME NEW v \in Nat, v > 0, NEW t \in Nat, t % v = 0, NEW i \in 0..v-1
  PROVE  (t + i) % v = i
<1> DEFINE q == t \div v
<1>1. q \in Nat /\ t = v * q + (t % v)
  BY DivMod
<1> HIDE DEF q
<1>2. t + i = v * q + i /\ v * q + i \in Nat
  BY <1>1
<1> QED BY <1>1, <1>2, ModUnique

-------------------------------------------------------------------------------
(* What an access reads. *)

\* An address in cylinders, heads and sectors reaches the sector it was made of.
LEMMA PhysicalIsSector ==
  ASSUME NEW d \in Drive, NEW g \in Usable(d), g.spt > 0, NEW s \in Nat
  PROVE  Physical(d, g, s) \in {s, -1}
<1> DEFINE H == Geometry[d].heads
           S == Geometry[d].spt
           h == s \div S
<1>1. H \in Nat /\ H > 0 /\ S \in Nat
  BY ConstantsAssumption DEF GeometryType
<1>2. g.heads = H /\ g.spt = S
  BY ConstantsAssumption DEF Usable, WithoutLBA, GeometryType
<1>3. h \in Nat /\ s = S * h + (s % S) /\ s % S \in Nat
  BY <1>1, <1>2, DivMod
<1> HIDE DEF h
<1> HIDE DEF H, S
<1>4. h \div H \in Nat /\ h % H \in Nat /\ h = H * (h \div H) + (h % H)
  BY <1>1, <1>3, DivMod
<1>5. (h \div H) * H + (h % H) = h
  BY <1>1, <1>4
<1>6. ((h \div H) * H + (h % H)) * S + (s % S) = s
  BY <1>1, <1>3, <1>5
<1> QED BY <1>2, <1>6 DEF Physical, h, H, S

LEMMA ReadsWhereAsked ==
  ASSUME NEW d \in Drive, NEW g \in Usable(d), g.spt > 0, NEW s \in Nat, NEW n \in Nat,
         NEW r \in biosdisk(d, g, s, n), r.err = "none"
  PROVE  r.from = s /\ s + n <= Media[d]
<1>1. WithoutLBA(g) \in Usable(d) /\ WithoutLBA(g).spt > 0
  <2>1. Geometry[d] \in GeometryType
    BY ConstantsAssumption
  <2>2. /\ WithoutLBA(WithoutLBA(Geometry[d])) = WithoutLBA(Geometry[d])
        /\ WithoutLBA(Geometry[d]).spt = Geometry[d].spt
    BY <2>1 DEF WithoutLBA, GeometryType
  <2> QED BY <2>2 DEF Usable
<1>2. ASSUME NEW h, NEW p, NEW q \in Reaches(d, h, p, n)
      PROVE  q.from = p /\ p + n <= Media[d] /\ p >= 0
  BY DEF Reaches
<1>3. ASSUME NEW h \in Usable(d), h.spt > 0, NEW q \in CHS(d, h, s, n), q.err = "none"
      PROVE  q.from = s /\ s + n <= Media[d]
  <2>1. q \in Reaches(d, h, Physical(d, h, s), n)
    BY <1>3 DEF CHS
  <2> QED BY <1>2, <1>3, <2>1, PhysicalIsSector
<1>4. CASE ~ g.lba
  BY <1>3, <1>4 DEF biosdisk
<1>5. CASE g.lba
  BY <1>1, <1>2, <1>3, <1>5 DEF biosdisk
<1> QED BY <1>4, <1>5

-------------------------------------------------------------------------------
(* The invariant. *)

\* Sectors per virtual track of a drive, and sectors it has in either geometry.
Sectors(d) == VTrack(Geometry[d])
End(d)     == MinOf(Geometry[d].total, WithoutLBA(Geometry[d]).total)

\* What a caller is to see as sector s of a disk with the contents f.
Seen(f, s) == f[IF s = 0 /\ f[0] \in EZD THEN 1 ELSE s]

\* Offset, Track, Count and Partial of the model, by the drive being read.
Off  == rd.sector % Sectors(rd.drive)
Base == rd.sector - Off
Room == Sectors(rd.drive) - Off
Many == rd.left > Room

\* The buffer claims a track, and it holds the track t of drive d.
Cached == buf_drive # None /\ buf_track # -1
Holds(d, t) == \A i \in 0..Sectors(d)-1 : buf[i] = Seen(disk[d], t + i)

\* Only the end of the track was read, and the read goes on behind it.
Leftover ==
  /\ errnum = "none" /\ buf_drive = rd.drive /\ rd.left > 0
  /\ rd.sector = buf_track + Sectors(rd.drive)
  /\ rd.sector < End(rd.drive)

\* The sectors that the last access put into the buffer: the whole track, its
\* end, or only the sectors asked for.
Start  == IF buf_track = -1 \/ Many THEN rd.sector ELSE Base
Length == CASE buf_track = -1 -> rd.left
            [] buf_track # -1 /\ Many -> Room
            [] OTHER -> Sectors(rd.drive)

TrackInv ==
  /\ Cached => /\ buf_track % Sectors(buf_drive) = 0
               /\ buf_track + Sectors(buf_drive) <= Media[buf_drive]
  /\ Quiet /\ Cached => Holds(buf_drive, buf_track) \/ behind
  /\ phase = "loop" /\ Cached => Holds(buf_drive, buf_track) \/ Leftover \/ behind
  /\ phase \in {"retry", "map", "copy"} => ~ behind
  /\ phase \in {"map", "copy"} /\ errnum # "none" => buf_track = -1

RetryInv ==
  phase = "retry" => buf_track = -1 /\ errnum = "none" /\ rd.left <= Room /\ rd.at = 0

MapInv ==
  phase = "map" /\ errnum = "none" =>
    /\ buf_track \in {-1, Base}
    /\ buf_track = -1 => rd.left <= Room
    /\ rd.at = rd.sector - Start
    /\ Start + Length <= Media[rd.drive]
    /\ \A i \in 0..Length-1 : buf[i] = disk[rd.drive][Start + i]

CopyInv ==
  phase = "copy" /\ errnum = "none" =>
    /\ \A i \in 0..Room-1 : i < rd.left => buf[rd.at + i] = Seen(disk[rd.drive], rd.sector + i)
    /\ buf_track # -1 =>
         /\ buf_track = Base
         /\ Holds(rd.drive, Base) \/ (Many /\ Off # 0)

\* What has been delivered, and that what is left out is not missed.
OutInv ==
  ~ Quiet =>
    /\ req \in Requests /\ rd.drive = req[1]
    /\ rd.left > 0 => Off = 0 \/ rd.sector + rd.left <= End(rd.drive)
    /\ errnum = "none" =>
         /\ Len(out) + rd.left = req[3]
         /\ rd.left > 0 => rd.sector = req[2] + Len(out)
         /\ \A i \in 1..Len(out) : out[i] = Seen(disk[req[1]], req[2] + i - 1)

CacheInv == careful => TrackInv /\ RetryInv /\ MapInv /\ CopyInv /\ OutInv

Inv == TypeInv /\ GeometryInv /\ CacheInv

-------------------------------------------------------------------------------
(* Facts for the steps. *)

LEMMA SectorsType ==
  ASSUME NEW d \in Drive
  PROVE  /\ Sectors(d) \in Nat /\ Sectors(d) >= 1 /\ Sectors(d) <= Slots
         /\ \A g \in Usable(d) : VTrack(g) = Sectors(d) /\ g.spt > 0 /\ g \in GeometryType
         /\ \A g \in Usable(d) : g.total >= End(d)
         /\ End(d) \in Nat /\ Slots \in Nat
<1>1. /\ Geometry[d] \in GeometryType /\ Geometry[d].spt > 0 /\ Slots \in Nat
  BY ConstantsAssumption
<1>2. WithoutLBA(Geometry[d]) \in GeometryType
  <2>1. Geometry[d].cyls * Geometry[d].heads * Geometry[d].spt \in Nat
    BY <1>1 DEF GeometryType
  <2> QED BY <1>1, <2>1 DEF WithoutLBA, GeometryType
<1>3. /\ WithoutLBA(Geometry[d]).spt = Geometry[d].spt
      /\ WithoutLBA(Geometry[d]).fit = Geometry[d].fit
  BY <1>1 DEF WithoutLBA, GeometryType
<1>4. /\ VTrack(Geometry[d]) \in Nat /\ VTrack(Geometry[d]) >= 1
      /\ VTrack(Geometry[d]) <= Slots
  BY <1>1 DEF VTrack, MinOf, GeometryType
<1>5. VTrack(WithoutLBA(Geometry[d])) = VTrack(Geometry[d])
  BY <1>3 DEF VTrack
<1>6. /\ Geometry[d].total \in Nat /\ WithoutLBA(Geometry[d]).total \in Nat
      /\ End(d) \in Nat /\ End(d) <= Geometry[d].total /\ End(d) <= WithoutLBA(Geometry[d]).total
  BY <1>1, <1>2 DEF End, MinOf, GeometryType
<1> QED BY <1>1, <1>2, <1>3, <1>4, <1>5, <1>6 DEF Usable, Sectors

\* Between the geometry check and the copy the drive's own geometry is in use.
LEMMA Locals ==
  ASSUME Inv, careful, ~ Quiet, buf_drive = rd.drive, errnum # "no_disk"
  PROVE  /\ rd.drive \in Drive /\ buf_geom \in Usable(rd.drive) /\ buf_geom.spt > 0
         /\ rd.sector \in Nat /\ rd.left \in Nat
         /\ Off \in 0..Sectors(rd.drive)-1 /\ Base \in Nat /\ Room \in 1..Sectors(rd.drive)
         /\ Base % Sectors(rd.drive) = 0 /\ (Base + Sectors(rd.drive)) % Sectors(rd.drive) = 0
         /\ rd.sector = Base + Off /\ Room = Sectors(rd.drive) - Off
         /\ VTrack(buf_geom) = Sectors(rd.drive)
         /\ Offset = Off /\ Track = Base /\ Count = Room /\ (Partial <=> Many)
<1>1. rd.drive \in Drive /\ buf_geom \in Usable(rd.drive)
  BY ReadingADrive DEF Inv, GeometryInv
<1>2. /\ Sectors(rd.drive) \in Nat /\ Sectors(rd.drive) >= 1
      /\ VTrack(buf_geom) = Sectors(rd.drive) /\ buf_geom.spt > 0
  BY <1>1, SectorsType
<1>3. rd.sector \in Nat /\ rd.left \in Nat
  BY DEF Inv, TypeInv, TypeOK
<1>4. /\ Off \in 0..Sectors(rd.drive)-1 /\ Base \in Nat
      /\ Base % Sectors(rd.drive) = 0 /\ (Base + Sectors(rd.drive)) % Sectors(rd.drive) = 0
  <2>1. Sectors(rd.drive) > 0
    BY <1>2
  <2> QED BY <1>2, <1>3, <2>1, TrackOf DEF Off, Base
<1>5. Offset = Off /\ Track = Base /\ Count = Room /\ (Partial <=> Many)
  BY <1>2 DEF Offset, Off, Track, Base, Count, Room, Partial, Many
<1>6. rd.sector = Base + Off /\ Room = Sectors(rd.drive) - Off /\ Room \in 1..Sectors(rd.drive)
  BY <1>2, <1>3, <1>4 DEF Base, Room
<1> QED BY <1>1, <1>2, <1>3, <1>4, <1>5, <1>6

\* What an access leaves in the buffer.
LEMMA Loaded ==
  ASSUME Inv, NEW d \in Drive, NEW s \in Nat, NEW n \in 0..Slots
  PROVE  \A i \in 0..n-1 : Load(d, s, n)[i] = disk[d][s + i]
<1>1. DOMAIN buf = 0..Slots-1 /\ Slots \in Nat
  BY ConstantsAssumption DEF Inv, TypeInv, TypeOK
<1> QED BY <1>1 DEF Load

-------------------------------------------------------------------------------
(* The steps of a read. *)

LEMMA CacheInvInit == Init => CacheInv
BY DEF Init, CacheInv, TrackInv, RetryInv, MapInv, CopyInv, OutInv, Cached, Quiet

\* A read begins: the buffer is as the last one left it.
LEMMA CacheCall ==
  ASSUME Inv, NEW r \in Requests, Call(r)
  PROVE  CacheInv'
<1> SUFFICES ASSUME careful, careful' PROVE CacheInv'
  BY DEF Call, CacheInv
<1>1. r[1] \in Drive /\ r[2] \in Nat /\ r[3] \in Nat /\ Inside(r)
  BY ConstantsAssumption DEF Call
<1>2. /\ UNCHANGED <<disk, buf_drive, buf_track, buf, behind>> /\ phase' = "loop" /\ errnum' = "none"
      /\ req' = r /\ out' = <<>> /\ Quiet
      /\ rd'.drive = r[1] /\ rd'.sector = r[2] /\ rd'.left = r[3]
  BY DEF Call, cache
<1>3. TrackInv'
  BY <1>2 DEF Inv, CacheInv, TrackInv, Cached, Holds, Quiet
<1>4. OutInv'
  <2>1. Off' = 0 \/ rd'.sector + rd'.left <= End(rd'.drive)
    BY <1>1, <1>2 DEF Inside, Off, Sectors, End
  <2> QED BY <1>1, <1>2, <2>1 DEF OutInv
<1> QED BY <1>2, <1>3, <1>4 DEF CacheInv, RetryInv, MapInv, CopyInv

\* The buffer is given up, or nothing changes but the error number or the phase.
LEMMA CacheControl ==
  ASSUME Inv, careful,
         Refresh \/ RefreshFails \/ OutOfGeometry \/ Fault \/ (Hit /\ ~ behind) \/ Return
  PROVE  CacheInv'
<1> USE DEF Inv
<1> SUFFICES TrackInv' /\ RetryInv' /\ MapInv' /\ CopyInv' /\ OutInv'
  BY DEF CacheInv
<1>0. TrackInv /\ RetryInv /\ MapInv /\ CopyInv /\ OutInv
  BY DEF CacheInv
<1>1. CASE Refresh
  BY <1>0, <1>1 DEF Refresh, Looping, Quiet, TrackInv, RetryInv, MapInv, CopyInv, OutInv, Cached, Off
<1>2. CASE RefreshFails
  BY <1>0, <1>2 DEF RefreshFails, Looping, Quiet, TrackInv, RetryInv, MapInv, CopyInv, OutInv, Cached,
                  Holds, Leftover, Off
<1>3. CASE OutOfGeometry
  <2>1. /\ phase = "loop" /\ errnum = "none" /\ buf_drive = rd.drive /\ ~ Quiet
        /\ rd.sector >= buf_geom.total
    BY <1>3 DEF OutOfGeometry, Located, Looping, Quiet
  <2>2. ~ Leftover
    <3>1. /\ rd.drive \in Drive /\ buf_geom \in Usable(rd.drive) /\ rd.sector \in Nat
      BY <2>1, Locals
    <3>2. buf_geom.total >= End(rd.drive) /\ End(rd.drive) \in Nat /\ buf_geom.total \in Nat
      BY <3>1, SectorsType DEF TypeInv, TypeOK, GeometryType
    <3> QED BY <2>1, <3>1, <3>2 DEF Leftover
  <2> QED BY <1>0, <1>3, <2>1, <2>2 DEF OutOfGeometry, cache, Quiet, TrackInv, RetryInv, MapInv, CopyInv,
                  OutInv, Cached, Holds, Off
<1>4. CASE Fault
  BY <1>0, <1>4 DEF Fault, Located, Looping, cache, Quiet, TrackInv, RetryInv, MapInv, CopyInv, OutInv,
                  Cached, Holds, Off
<1>5. CASE Hit /\ ~ behind
  <2>1. /\ phase = "loop" /\ errnum = "none" /\ buf_drive = rd.drive /\ ~ Quiet /\ phase' = "copy"
        /\ Track = buf_track
    BY <1>5 DEF Hit, Addressed, Located, Looping, Quiet
  <2>2. /\ rd.drive \in Drive /\ Base = buf_track /\ Base \in Nat /\ Off \in 0..Sectors(rd.drive)-1
        /\ rd.sector = Base + Off /\ Offset = Off /\ Room = Sectors(rd.drive) - Off
        /\ Room \in 1..Sectors(rd.drive) /\ rd.drive # None
    BY <2>1, Locals, ConstantsAssumption
  <2>3. Sectors(rd.drive) \in Nat /\ Sectors(rd.drive) >= 1
    BY <2>2, SectorsType
  <2>4. /\ rd'.at = Off /\ rd'.sector = rd.sector /\ rd'.left = rd.left /\ rd'.drive = rd.drive
        /\ UNCHANGED <<disk, buf_drive, buf_track, buf, behind, errnum, req, out>>
    BY <1>5, <2>2 DEF Hit, cache, TypeInv, TypeOK
  <2>5. ~ Leftover
    BY <2>2, <2>3 DEF Leftover
  <2>6. Holds(rd.drive, Base)
    BY <1>0, <1>5, <2>1, <2>2, <2>5 DEF TrackInv, Cached
  <2>7. Off' = Off /\ Base' = Base /\ Room' = Room
    BY <2>4 DEF Off, Base, Room
  <2>8. CopyInv'
    <3>1. ASSUME NEW i \in 0..Room-1
          PROVE  buf[Off + i] = Seen(disk[rd.drive], rd.sector + i)
      <4>1. Off + i \in 0..Sectors(rd.drive)-1 /\ Base + (Off + i) = rd.sector + i
        BY <2>2, <2>3
      <4> QED BY <2>6, <4>1 DEF Holds
    <3>2. Holds(rd.drive, Base)'
      BY <2>4, <2>6, <2>7 DEF Holds
    <3> QED BY <2>2, <2>4, <2>7, <3>1, <3>2 DEF CopyInv
  <2>9. TrackInv' /\ RetryInv' /\ MapInv'
    BY <1>0, <1>5, <2>1, <2>4 DEF Quiet, TrackInv, RetryInv, MapInv, Cached
  <2>10. OutInv'
    BY <1>0, <2>1, <2>4, <2>7 DEF Quiet, OutInv
  <2> QED BY <2>8, <2>9, <2>10
<1>6. CASE Return
  BY <1>0, <1>6 DEF Return, cache, Quiet, TrackInv, RetryInv, MapInv, CopyInv, OutInv, Cached, Holds, Leftover
<1> QED BY <1>1, <1>2, <1>3, <1>4, <1>5, <1>6

\* The whole track is read, or its end when the read goes on behind it.
LEMMA CacheFill ==
  ASSUME Inv, careful, Fill
  PROVE  CacheInv'
<1> SUFFICES TrackInv' /\ RetryInv' /\ MapInv' /\ CopyInv' /\ OutInv'
  BY DEF CacheInv
<1>0. OutInv
  BY DEF Inv, CacheInv
<1>1. /\ phase = "loop" /\ errnum = "none" /\ buf_drive = rd.drive /\ ~ Quiet /\ rd.left > 0
      /\ UNCHANGED <<disk, buf_drive, req, out>> /\ behind' = FALSE
  BY DEF Fill, Addressed, Located, Looping, Quiet
<1>2. /\ rd.drive \in Drive /\ buf_geom \in Usable(rd.drive) /\ buf_geom.spt > 0
      /\ rd.sector \in Nat /\ rd.left \in Nat
      /\ Base \in Nat /\ Off \in 0..Sectors(rd.drive)-1 /\ Room \in 1..Sectors(rd.drive)
      /\ Base % Sectors(rd.drive) = 0
      /\ rd.sector = Base + Off /\ Room = Sectors(rd.drive) - Off
      /\ VTrack(buf_geom) = Sectors(rd.drive)
      /\ Offset = Off /\ Track = Base /\ Count = Room /\ (Partial <=> Many)
  BY <1>1, Locals
<1>3. Sectors(rd.drive) \in Nat /\ Sectors(rd.drive) >= 1 /\ Sectors(rd.drive) <= Slots /\ Slots \in Nat
  BY <1>2, SectorsType
<1> DEFINE start == IF Partial THEN rd.sector ELSE Track
           n     == IF Partial THEN Count ELSE VTrack(buf_geom)
<1>4. start \in Nat /\ n \in 1..Sectors(rd.drive) /\ n \in Nat /\ n \in 0..Slots
  BY <1>2, <1>3
<1>5. PICK r \in biosdisk(rd.drive, buf_geom, start, n) :
        /\ rd' = [rd EXCEPT !.at = IF Partial \/ r.err = "error" THEN 0 ELSE Offset]
        /\ \/ /\ r.err = "none"
              /\ buf' = Load(rd.drive, r.from, n)
              /\ buf_track' = Track
              /\ phase' = "map"
              /\ UNCHANGED errnum
           \/ /\ r.err # "none"
              /\ buf_track' = -1
              /\ errnum' = CASE r.err = "geometry" -> "geom"
                             [] r.err = "error" /\ Partial -> "read"
                             [] OTHER -> errnum
              /\ phase' = IF r.err = "error" /\ ~ Partial THEN "retry" ELSE "map"
              /\ UNCHANGED buf
  BY DEF Fill
<1>6. /\ rd'.sector = rd.sector /\ rd'.left = rd.left /\ rd'.drive = rd.drive
      /\ rd'.at = IF Partial \/ r.err = "error" THEN 0 ELSE Offset
  BY <1>5 DEF Inv, TypeInv, TypeOK
<1>7. Off' = Off /\ Base' = Base /\ Room' = Room /\ Many' = Many
  BY <1>6 DEF Off, Base, Room, Many
<1>8. OutInv'
  BY <1>0, <1>1, <1>5, <1>6, <1>7 DEF Quiet, OutInv
<1>9. CASE r.err = "none"
  <2>1. r.from = start /\ start + n <= Media[rd.drive]
    <3> HIDE DEF start, n
    <3> QED BY <1>2, <1>4, <1>9, ReadsWhereAsked
  <2>2. /\ phase' = "map" /\ errnum' = "none" /\ buf_track' = Base
        /\ buf' = Load(rd.drive, start, n)
    BY <1>1, <1>2, <1>5, <1>9, <2>1
  <2>3. \A i \in 0..n-1 : buf'[i] = disk[rd.drive][start + i]
    <3> HIDE DEF start, n
    <3> QED BY <1>2, <1>4, <2>2, Loaded
  <2>4. Start' = start /\ Length' = n
    BY <1>2, <1>6, <1>7, <2>2 DEF Start, Length
  <2>5. rd'.at = rd'.sector - Start'
    BY <1>2, <1>6, <1>9, <2>4
  <2>6. MapInv'
    BY <1>1, <1>2, <1>6, <1>7, <2>1, <2>2, <2>3, <2>4, <2>5 DEF MapInv
  <2>7. Base + Sectors(rd.drive) <= Media[rd.drive]
    <3>1. start + n = Base + Sectors(rd.drive)
      BY <1>2, <1>3
    <3> QED BY <2>1, <3>1
  <2>8. TrackInv' /\ RetryInv' /\ CopyInv'
    BY <1>1, <1>2, <2>2, <2>7 DEF TrackInv, RetryInv, CopyInv, Quiet
  <2> QED BY <1>8, <2>6, <2>8
<1>10. CASE r.err # "none"
  <2>1. buf_track' = -1 /\ phase' \in {"map", "retry"}
    BY <1>5, <1>10
  <2>2. phase' = "map" => errnum' # "none"
    <3>1. r.err \in {"none", "error", "geometry"}
      <4>1. buf_geom \in GeometryType /\ buf_geom.heads > 0
        BY <1>2 DEF Inv, TypeInv, TypeOK, Working
      <4> HIDE DEF start, n
      <4> QED BY <1>2, <1>4, <4>1, biosdiskType
    <3> QED BY <1>5, <1>10, <3>1
  <2>3. phase' = "retry" => errnum' = "none" /\ ~ Many /\ rd'.at = 0
    BY <1>1, <1>2, <1>5, <1>6, <1>10
  <2>4. RetryInv'
    BY <1>2, <1>6, <1>7, <2>1, <2>3 DEF RetryInv, Many
  <2>5. TrackInv' /\ MapInv' /\ CopyInv'
    BY <1>1, <2>1, <2>2 DEF TrackInv, MapInv, CopyInv, Quiet, Cached
  <2> QED BY <1>8, <2>4, <2>5
<1> QED BY <1>9, <1>10

\* The track could not be read: only the sectors asked for are.
LEMMA CacheRetry ==
  ASSUME Inv, careful, Retry
  PROVE  CacheInv'
<1> SUFFICES TrackInv' /\ RetryInv' /\ MapInv' /\ CopyInv' /\ OutInv'
  BY DEF CacheInv
<1>0. RetryInv /\ OutInv
  BY DEF Inv, CacheInv
<1>1. /\ phase = "retry" /\ phase' = "map" /\ errnum = "none" /\ buf_track = -1 /\ ~ Quiet
      /\ buf_drive = rd.drive /\ rd.left > 0 /\ rd.left <= Room /\ rd.at = 0
      /\ UNCHANGED <<disk, buf_drive, buf_track, rd, req, out>>
  BY <1>0 DEF Retry, Quiet, RetryInv, Inv, TypeInv, Working
<1>2. /\ rd.drive \in Drive /\ buf_geom \in Usable(rd.drive) /\ buf_geom.spt > 0
      /\ rd.sector \in Nat /\ rd.left \in Nat /\ Room \in 1..Sectors(rd.drive)
  BY <1>1, Locals
<1>3. Sectors(rd.drive) \in Nat /\ Sectors(rd.drive) <= Slots /\ Slots \in Nat
  BY <1>2, SectorsType
<1>4. rd.left \in 0..Slots
  BY <1>1, <1>2, <1>3
<1>5. PICK r \in biosdisk(rd.drive, buf_geom, rd.sector, rd.left) :
        \/ r.err = "none" /\ buf' = Load(rd.drive, r.from, rd.left) /\ UNCHANGED errnum
        \/ r.err # "none" /\ errnum' = "read" /\ UNCHANGED buf
  BY DEF Retry
<1>6. Off' = Off /\ Base' = Base /\ Room' = Room /\ Start' = rd.sector /\ Length' = rd.left
  BY <1>1 DEF Off, Base, Room, Start, Length
<1>7. MapInv'
  <2>1. CASE r.err = "none"
    <3>1. r.from = rd.sector /\ rd.sector + rd.left <= Media[rd.drive]
      BY <1>2, <2>1, ReadsWhereAsked
    <3>2. \A i \in 0..rd.left-1 : buf'[i] = disk[rd.drive][rd.sector + i]
      <4>1. buf' = Load(rd.drive, rd.sector, rd.left)
        BY <1>5, <2>1, <3>1
      <4>2. \A i \in 0..rd.left-1 : Load(rd.drive, rd.sector, rd.left)[i] = disk[rd.drive][rd.sector + i]
        BY <1>2, <1>4, Loaded
      <4> QED BY <4>1, <4>2
    <3> QED BY <1>1, <1>2, <1>6, <3>1, <3>2 DEF MapInv
  <2>2. CASE r.err # "none"
    BY <1>5, <2>2 DEF MapInv
  <2> QED BY <2>1, <2>2
<1>8. TrackInv' /\ RetryInv' /\ CopyInv'
  <2>1. behind' = FALSE
    BY <1>1 DEF Retry, Inv, CacheInv, TrackInv
  <2> QED BY <1>1, <2>1 DEF TrackInv, RetryInv, CopyInv, Quiet, Cached
<1>9. OutInv'
  BY <1>0, <1>1, <1>5, <1>6 DEF OutInv, Quiet
<1> QED BY <1>7, <1>8, <1>9

\* What the sectors just read look like, and that mapping them makes of the disk's
\* sectors those a caller is to see.
LEMMA Mapped ==
  ASSUME Inv, careful, phase = "map", errnum = "none"
  PROVE  /\ rd.drive \in Drive /\ Start \in Nat /\ Length \in Nat /\ Length >= 1
         /\ \A i \in 0..Length-1 : buf[i] = disk[rd.drive][Start + i]
         /\ Start = 0 /\ disk[rd.drive][0] \in EZD => LooksEZD
         /\ LooksEZD => disk[rd.drive][Start] \in EZD
         /\ LooksEZD /\ (rd.sector = 0 \/ ~ Many) => Start = 0
         /\ /\ buf_track = 0 \/ (rd.sector = 0 /\ rd.left >= 2)
            /\ Start = 0
            /\ Sectors(rd.drive) >= 2
            => Length >= 2
         /\ 1..Length-1 \subseteq 1..Slots-1
<1>0. MapInv
  BY DEF Inv, CacheInv
<1>1. /\ buf_track \in {-1, Base} /\ (buf_track = -1 => rd.left <= Room)
      /\ Start + Length <= Media[rd.drive]
      /\ \A i \in 0..Length-1 : buf[i] = disk[rd.drive][Start + i]
  BY <1>0 DEF MapInv
<1>2. /\ buf_drive = rd.drive /\ rd.left > 0 /\ ~ Quiet
  BY DEF Inv, TypeInv, Working, Quiet
<1>3. /\ rd.drive \in Drive /\ rd.sector \in Nat /\ rd.left \in Nat /\ Base \in Nat
      /\ Off \in 0..Sectors(rd.drive)-1 /\ Room \in 1..Sectors(rd.drive)
      /\ rd.sector = Base + Off /\ Room = Sectors(rd.drive) - Off
  BY <1>2, Locals
<1>4. Sectors(rd.drive) \in Nat /\ Sectors(rd.drive) >= 1 /\ Sectors(rd.drive) <= Slots /\ Slots \in Nat
  BY <1>3, SectorsType
<1>5. Start \in Nat /\ Length \in Nat /\ Length >= 1 /\ Length <= Slots
  BY <1>1, <1>2, <1>3, <1>4 DEF Start, Length
<1>6. buf[0] = disk[rd.drive][Start]
  BY <1>1, <1>5
<1>7. Start = 0 => buf_track = 0 \/ rd.sector = 0
  BY <1>1 DEF Start
<1>8. LooksEZD /\ (rd.sector = 0 \/ ~ Many) => Start = 0
  BY <1>1, <1>3, <1>4 DEF Start, LooksEZD
<1>9. /\ buf_track = 0 \/ (rd.sector = 0 /\ rd.left >= 2)
      /\ Start = 0
      /\ Sectors(rd.drive) >= 2
      => Length >= 2
  BY <1>1, <1>3, <1>4 DEF Start, Length
<1> QED BY <1>1, <1>3, <1>4, <1>5, <1>6, <1>7, <1>8, <1>9 DEF LooksEZD

LEMMA CacheMap ==
  ASSUME Inv, careful, NotEZD \/ (MapInBuffer /\ ~ Mistaken) \/ MapFromDisk
  PROVE  CacheInv'
<1> SUFFICES TrackInv' /\ RetryInv' /\ MapInv' /\ CopyInv' /\ OutInv'
  BY DEF CacheInv
<1>0. TrackInv /\ MapInv /\ OutInv
  BY DEF Inv, CacheInv
<1>1. /\ phase = "map" /\ phase' = "copy" /\ ~ Quiet
      /\ UNCHANGED <<disk, buf_drive, buf_track, behind, rd, req, out>>
      /\ errnum' = "none" => errnum = "none"
      /\ errnum' # "none" /\ errnum = "none" => MapFromDisk
  BY DEF NotEZD, MapInBuffer, MapFromDisk, Quiet, cache
<1>2. buf_drive = rd.drive /\ rd.left > 0
  BY <1>1 DEF Inv, TypeInv, Working
<1>3. Off' = Off /\ Base' = Base /\ Room' = Room /\ Many' = Many
  BY <1>1 DEF Off, Base, Room, Many
<1>4. OutInv'
  BY <1>0, <1>1, <1>3 DEF OutInv, Quiet
<1>5. TrackInv' /\ RetryInv' /\ MapInv'
  <2>1. ~ Cached \/ (/\ buf_track % Sectors(buf_drive) = 0
                     /\ buf_track + Sectors(buf_drive) <= Media[buf_drive])
    BY <1>0 DEF TrackInv
  <2>2. errnum' # "none" => buf_track = -1
    <3>1. CASE errnum # "none"
      BY <1>0, <1>1, <3>1 DEF TrackInv
    <3>2. CASE errnum = "none" /\ MapFromDisk
      <4>1. buf_track \in {-1, Base} /\ ~ (buf_track = 0) /\ (buf_track = 0 \/ rd.sector = 0)
        BY <1>0, <1>1, <3>2 DEF MapInv, MapFromDisk, LooksEZD
      <4>2. rd.sector = 0 => Base = 0
        <5>1. rd.drive \in Drive /\ Base \in Nat /\ Off \in Nat /\ rd.sector = Base + Off
          BY <1>1, <1>2, <3>2, Locals, SectorsType
        <5> QED BY <5>1
      <4> QED BY <4>1, <4>2
    <3> QED BY <1>1, <3>1, <3>2
  <2>3. ~ behind
    BY <1>0, <1>1 DEF TrackInv
  <2> QED BY <1>1, <2>1, <2>2, <2>3 DEF TrackInv, RetryInv, MapInv, Cached, Quiet
<1>6. CASE errnum' # "none"
  BY <1>4, <1>5, <1>6 DEF CopyInv
<1>7. CASE errnum' = "none"
  <2>1. errnum = "none"
    BY <1>1, <1>7
  <2>2. /\ rd.drive \in Drive /\ rd.sector \in Nat /\ rd.left \in Nat /\ Base \in Nat
        /\ Off \in 0..Sectors(rd.drive)-1 /\ Room \in 1..Sectors(rd.drive)
        /\ rd.sector = Base + Off /\ Room = Sectors(rd.drive) - Off
        /\ buf_geom \in Usable(rd.drive) /\ buf_geom.spt > 0
        /\ VTrack(buf_geom) = Sectors(rd.drive) /\ (Partial <=> Many)
    BY <1>1, <1>2, <2>1, Locals
  <2>3. /\ Sectors(rd.drive) \in Nat /\ Sectors(rd.drive) >= 1 /\ Sectors(rd.drive) <= Slots
        /\ Slots \in Nat
    BY <2>2, SectorsType
  <2>4. /\ Start \in Nat /\ Length \in Nat /\ Length >= 1
        /\ \A i \in 0..Length-1 : buf[i] = disk[rd.drive][Start + i]
        /\ Start = 0 /\ disk[rd.drive][0] \in EZD => LooksEZD
        /\ LooksEZD => disk[rd.drive][Start] \in EZD
        /\ LooksEZD /\ (rd.sector = 0 \/ ~ Many) => Start = 0
        /\ /\ buf_track = 0 \/ (rd.sector = 0 /\ rd.left >= 2)
           /\ Start = 0
           /\ Sectors(rd.drive) >= 2
           => Length >= 2
        /\ 1..Length-1 \subseteq 1..Slots-1
    BY <1>1, <2>1, Mapped
  <2>5. \A i \in 0..Length-1 : buf'[i] = Seen(disk[rd.drive], Start + i)
    <3>1. CASE NotEZD
      <4>1. ~ LooksEZD /\ buf' = buf
        BY <3>1 DEF NotEZD, cache
      <4> QED BY <2>4, <4>1 DEF Seen
    <3>2. CASE MapInBuffer /\ ~ Mistaken
      <4>1. LooksEZD /\ (buf_track = 0 \/ rd.left >= 2) /\ buf' = [buf EXCEPT ![0] = buf[1]]
        BY <3>2 DEF MapInBuffer
      <4>2. Length >= 2 /\ Start = 0
        BY <2>2, <2>3, <2>4, <3>2, <4>1 DEF LooksEZD, Mistaken
      <4>3. DOMAIN buf = 0..Slots-1 /\ 0 \in 0..Slots-1
        BY <2>3 DEF Inv, TypeInv, TypeOK
      <4>4. buf'[0] = buf[1] /\ \A i \in 1..Length-1 : buf'[i] = buf[i]
        BY <2>4, <4>1, <4>3
      <4>5. buf[1] = disk[rd.drive][1]
        BY <2>4, <4>1, <4>2
      <4> QED BY <2>4, <4>1, <4>2, <4>4, <4>5 DEF Seen
    <3>3. CASE MapFromDisk
      <4>1. LooksEZD /\ buf_track # 0 /\ rd.left < 2 /\ Start = 0
        BY <2>2, <2>4, <3>3 DEF MapFromDisk, LooksEZD
      <4>2. PICK r \in biosdisk(rd.drive, buf_geom, 1, 1) :
              r.err = "none" /\ buf' = Load(rd.drive, r.from, 1)
        BY <1>7, <3>3 DEF MapFromDisk
      <4>a. 1 \in Nat /\ 1 \in 0..Slots
        BY ConstantsAssumption
      <4>3. r.from = 1
        <5>1. rd.drive \in Drive /\ buf_geom \in Usable(rd.drive) /\ buf_geom.spt > 0
          BY <2>2
        <5> QED BY <4>2, <4>a, <5>1, ReadsWhereAsked
      <4>4. buf'[0] = disk[rd.drive][1]
        <5>1. \A i \in 0..1-1 : Load(rd.drive, 1, 1)[i] = disk[rd.drive][1 + i]
          BY <2>2, <4>a, Loaded
        <5> QED BY <4>2, <4>3, <5>1
      <4>5. Length = 1
        <5>1. buf_track \in {-1, Base} /\ rd.left > 0
          BY <1>0, <1>1, <1>2, <2>1 DEF MapInv
        <5>2. rd.sector = 0 /\ Base = 0
          BY <2>2, <4>1 DEF LooksEZD
        <5> QED BY <2>2, <4>1, <5>1, <5>2 DEF Length
      <4> QED BY <2>4, <4>1, <4>4, <4>5 DEF Seen
    <3> QED BY <1>1, <3>1, <3>2, <3>3 DEF MapFromDisk, NotEZD
  <2>6. /\ buf_track \in {-1, Base} /\ rd.at = rd.sector - Start /\ (buf_track = -1 => rd.left <= Room)
    BY <1>0, <1>1, <2>1 DEF MapInv
  <2>7. \A i \in 0..Room-1 : i < rd.left => buf'[rd.at + i] = Seen(disk[rd.drive], rd.sector + i)
    <3>1. ASSUME NEW i \in 0..Room-1, i < rd.left
          PROVE  rd.at + i \in 0..Length-1 /\ Start + (rd.at + i) = rd.sector + i
      <4>1. CASE buf_track = -1
        <5>1. Start = rd.sector /\ Length = rd.left
          BY <4>1 DEF Start, Length
        <5> QED BY <2>2, <2>3, <2>6, <3>1, <5>1
      <4>2. CASE buf_track # -1 /\ Many
        <5>1. Start = rd.sector /\ Length = Room
          BY <4>2 DEF Start, Length
        <5> QED BY <2>2, <2>3, <2>6, <3>1, <5>1
      <4>3. CASE buf_track # -1 /\ ~ Many
        <5>1. Start = Base /\ Length = Sectors(rd.drive)
          BY <4>3 DEF Start, Length
        <5> QED BY <2>2, <2>3, <2>6, <3>1, <5>1
      <4> QED BY <4>1, <4>2, <4>3
    <3> QED BY <2>5, <3>1
  <2>8. buf_track # -1 => buf_track = Base /\ (Holds(rd.drive, Base)' \/ (Many /\ Off # 0))
    <3> SUFFICES ASSUME buf_track # -1, ~ (Many /\ Off # 0) PROVE Holds(rd.drive, Base)'
      BY <2>6
    <3>1. Start = Base /\ Length = Sectors(rd.drive)
      BY <2>2, <2>3 DEF Start, Length
    <3> QED BY <1>1, <1>3, <2>5, <3>1 DEF Holds
  <2>9. CopyInv'
    BY <1>1, <1>3, <2>7, <2>8 DEF CopyInv
  <2> QED BY <1>4, <1>5, <2>9
<1> QED BY <1>6, <1>7

\* What was delivered grows by sectors that the buffer holds.
LEMMA CacheCopy ==
  ASSUME Inv, careful, Copy
  PROVE  CacheInv'
<1> SUFFICES TrackInv' /\ RetryInv' /\ MapInv' /\ CopyInv' /\ OutInv'
  BY DEF CacheInv
<1>0. TrackInv /\ CopyInv /\ OutInv
  BY DEF Inv, CacheInv
<1>1. /\ phase = "copy" /\ phase' = "loop" /\ ~ Quiet /\ buf_drive = rd.drive /\ rd.left > 0
      /\ rd.at \in {0, Offset} /\ errnum # "no_disk"
      /\ UNCHANGED <<disk, buf_drive, buf_track, buf_geom, buf, behind, errnum, req>>
  BY DEF Copy, Quiet, cache, Inv, TypeInv, Working, GeometryInv
<1>2. /\ rd.drive \in Drive /\ rd.sector \in Nat /\ rd.left \in Nat /\ Base \in Nat
      /\ Off \in 0..Sectors(rd.drive)-1 /\ Room \in 1..Sectors(rd.drive)
      /\ (Base + Sectors(rd.drive)) % Sectors(rd.drive) = 0
      /\ rd.sector = Base + Off /\ Room = Sectors(rd.drive) - Off
      /\ Offset = Off /\ Count = Room
  BY <1>1, Locals
<1>3. /\ Sectors(rd.drive) \in Nat /\ Sectors(rd.drive) >= 1 /\ Sectors(rd.drive) <= Slots
      /\ Slots \in Nat /\ End(rd.drive) \in Nat
  BY <1>2, SectorsType
<1> DEFINE n == MinOf(rd.left, Count)
           more == [i \in 1..n |-> buf[rd.at + i - 1]]
<1>4. n \in Nat /\ n >= 1 /\ n <= Room /\ n <= rd.left /\ (Many => n = Room) /\ (~ Many => n = rd.left)
  BY <1>1, <1>2, <1>3 DEF MinOf, Many
<1>5. /\ out' = out \o more
      /\ rd'.sector = rd.sector + Count /\ rd'.left = rd.left - n /\ rd'.drive = rd.drive
  BY DEF Copy, Inv, TypeInv, TypeOK
<1> HIDE DEF n
<1>6. /\ rd'.sector = Base + Sectors(rd.drive)
      /\ rd'.left > 0 => Many
      /\ Many => rd'.left = rd.left - Room
  <2>1. rd'.sector = Base + Sectors(rd.drive)
    BY <1>2, <1>3, <1>5
  <2>2. rd'.left > 0 => Many
    BY <1>2, <1>4, <1>5
  <2>3. Many => rd'.left = rd.left - Room
    BY <1>4, <1>5
  <2> QED BY <2>1, <2>2, <2>3
<1>7. Off' = 0
  BY <1>2, <1>5, <1>6 DEF Off
<1>8. more \in Seq(Data) /\ Len(more) = n /\ \A i \in 1..n : more[i] = buf[rd.at + i - 1]
  <2>1. ASSUME NEW i \in 1..n PROVE buf[rd.at + i - 1] \in Data
    <3>1. rd.at + i - 1 \in 0..Slots-1
      BY <1>1, <1>2, <1>3, <1>4
    <3> QED BY <3>1 DEF Inv, TypeInv, TypeOK
  <2> QED BY <1>4, <2>1
<1> HIDE DEF more
<1>9. /\ Len(out) \in Nat /\ Len(out') = Len(out) + n
      /\ \A i \in 1..Len(out) : out'[i] = out[i]
      /\ \A i \in 1..n : out'[Len(out) + i] = more[i]
  <2>1. out \in Seq(Data) /\ Len(out) \in Nat
    BY LenProperties DEF Inv, TypeInv, TypeOK
  <2>2. /\ Len(out \o more) = Len(out) + Len(more)
        /\ \A i \in 1..Len(out)+Len(more) :
             (out \o more)[i] = IF i <= Len(out) THEN out[i] ELSE more[i - Len(out)]
    BY <1>8, <2>1, ConcatProperties
  <2>3. ASSUME NEW i \in 1..n PROVE out'[Len(out) + i] = more[i]
    <3>1. /\ Len(out) + i \in 1..Len(out)+Len(more) /\ ~ (Len(out) + i <= Len(out))
          /\ Len(out) + i - Len(out) = i
      BY <1>4, <1>8, <2>1
    <3> QED BY <1>5, <2>2, <3>1
  <2>4. ASSUME NEW i \in 1..Len(out) PROVE out'[i] = out[i]
    <3>1. i \in 1..Len(out)+Len(more) /\ i <= Len(out)
      BY <1>4, <1>8, <2>1
    <3> QED BY <1>5, <2>2, <3>1
  <2> QED BY <1>5, <1>8, <2>1, <2>2, <2>3, <2>4
<1>10. OutInv'
  <2>1. req \in Requests /\ rd.drive = req[1] /\ req[2] \in Nat /\ req[3] \in Nat
    BY <1>0, <1>1, ConstantsAssumption DEF OutInv
  <2>2. CASE errnum # "none"
    BY <1>1, <1>5, <1>7, <2>1, <2>2 DEF OutInv
  <2>3. CASE errnum = "none"
    <3>1. /\ Len(out) + rd.left = req[3] /\ rd.sector = req[2] + Len(out)
          /\ \A i \in 1..Len(out) : out[i] = Seen(disk[req[1]], req[2] + i - 1)
      BY <1>0, <1>1, <2>3 DEF OutInv
    <3>2. Len(out') + rd'.left = req[3] /\ (rd'.left > 0 => rd'.sector = req[2] + Len(out'))
      <4>1. Len(out) \in Nat /\ Len(out') = Len(out) + n
        BY <1>9
      <4>2. /\ rd'.left > 0 => n = Room
            /\ rd'.sector = rd.sector + Room /\ rd'.left = rd.left - n
        BY <1>2, <1>4, <1>5, <1>6
      <4>3. /\ n \in Nat /\ rd.left \in Nat /\ rd.sector \in Nat /\ Room \in Int
            /\ req[2] \in Nat /\ req[3] \in Nat
        BY <1>2, <1>3, <1>4, <2>1
      <4> DEFINE a == Len(out)
                 b == Len(out')
      <4>4. a \in Nat /\ b = a + n /\ a + rd.left = req[3] /\ rd.sector = req[2] + a
        BY <3>1, <4>1
      <4> HIDE DEF a, b
      <4>5. b + rd'.left = req[3] /\ (rd'.left > 0 => rd'.sector = req[2] + b)
        BY <4>2, <4>3, <4>4
      <4> QED BY <4>5 DEF b
    <3>3. \A i \in 1..n : more[i] = Seen(disk[req[1]], rd.sector + i - 1)
      <4>1. \A i \in 0..Room-1 : i < rd.left => buf[rd.at + i] = Seen(disk[req[1]], rd.sector + i)
        BY <1>0, <1>1, <2>1, <2>3 DEF CopyInv
      <4>2. ASSUME NEW i \in 1..n
            PROVE  /\ i - 1 \in 0..Room-1 /\ i - 1 < rd.left
                   /\ rd.at + (i - 1) = rd.at + i - 1 /\ rd.sector + (i - 1) = rd.sector + i - 1
        BY <1>1, <1>2, <1>3, <1>4
      <4>3. ASSUME NEW i \in 1..n
            PROVE  buf[rd.at + i - 1] = Seen(disk[req[1]], rd.sector + i - 1)
        BY <4>1, <4>2
      <4> QED BY <1>8, <4>3
    <3>4. ASSUME NEW i \in 1..Len(out')
          PROVE  out'[i] = Seen(disk[req[1]], req[2] + i - 1)
      <4>1. CASE i \in 1..Len(out)
        BY <1>9, <3>1, <4>1
      <4>2. CASE i \notin 1..Len(out)
        <5>1. /\ i - Len(out) \in 1..n /\ Len(out) + (i - Len(out)) = i
              /\ rd.sector + (i - Len(out)) - 1 = req[2] + i - 1
            <6> DEFINE a == Len(out)
                     b == Len(out')
          <6>1. a \in Nat /\ b = a + n /\ rd.sector = req[2] + a /\ i \in 1..b /\ i \notin 1..a
            BY <1>9, <3>1, <4>2
          <6>2. n \in Nat /\ req[2] \in Nat
            BY <1>4, <2>1
          <6> HIDE DEF a, b
          <6>3. i - a \in 1..n /\ a + (i - a) = i /\ rd.sector + (i - a) - 1 = req[2] + i - 1
            BY <6>1, <6>2
          <6> QED BY <6>3 DEF a
        <5>2. out'[Len(out) + (i - Len(out))] = Seen(disk[req[1]], rd.sector + (i - Len(out)) - 1)
          BY <1>9, <3>3, <5>1
        <5> QED BY <5>1, <5>2
      <4> QED BY <4>1, <4>2
    <3> QED BY <1>1, <1>5, <1>7, <2>1, <3>2, <3>4 DEF OutInv
  <2> QED BY <2>2, <2>3
<1>11. TrackInv'
  <2> SUFFICES ASSUME Cached
               PROVE  /\ buf_track % Sectors(buf_drive) = 0
                      /\ buf_track + Sectors(buf_drive) <= Media[buf_drive]
                      /\ (Holds(buf_drive, buf_track) \/ Leftover)'
    BY <1>0, <1>1 DEF TrackInv, Cached, Quiet
  <2>1. errnum = "none" /\ buf_track = Base /\ (Holds(rd.drive, Base) \/ (Many /\ Off # 0))
    BY <1>0, <1>1 DEF TrackInv, CopyInv, Cached
  <2>2. CASE Holds(rd.drive, Base)
    <3>1. Holds(buf_drive, buf_track)'
      BY <1>1, <2>1, <2>2 DEF Holds
    <3> QED BY <1>0, <3>1 DEF TrackInv
  <2>3. CASE Many /\ Off # 0
    <3>1. rd.sector + rd.left <= End(rd.drive)
      BY <1>0, <1>1, <2>3 DEF OutInv
    <3>2. rd'.left > 0 /\ rd'.sector < End(rd.drive)
      BY <1>2, <1>3, <1>6, <2>3, <3>1 DEF Many
    <3>3. Leftover'
      BY <1>1, <1>5, <1>6, <2>1, <3>2 DEF Leftover
    <3> QED BY <1>0, <3>3 DEF TrackInv
  <2> QED BY <2>1, <2>2, <2>3
<1>12. RetryInv' /\ MapInv' /\ CopyInv'
  BY <1>1 DEF RetryInv, MapInv, CopyInv
<1> QED BY <1>10, <1>11, <1>12

-------------------------------------------------------------------------------
(* The other users of the buffer. *)

\* The buffer of drive d holds nothing that a write to its sector t makes out of date.
Spared(d, t) ==
  /\ ~ behind
  /\ Cached => /\ t \notin buf_track..buf_track+Sectors(d)-1
               /\ buf_track = 0 => t # 1

\* The sector that rawwrite() means by w.
Place(w) == IF w[2] = 0 /\ disk[w[1]][0] \in EZD THEN 1 ELSE w[2]

LEMMA WriteDoes ==
  ASSUME Inv, careful, careful', NEW w \in Writes, Write(w)
  PROVE  /\ w[1] \in Drive /\ w[1] = buf_drive /\ buf_drive # None
         /\ UNCHANGED <<buf_drive, buf, phase, rd, req, out>> /\ Quiet
         /\ \/ UNCHANGED <<disk, buf_track, behind>>
            \/ /\ Place(w) \in 0..Media[w[1]]-1
               /\ disk' = [disk EXCEPT ![w[1]][Place(w)] = w[3]]
               /\ \/ buf_track' = -1
                  \/ buf_track' = buf_track /\ (behind' \/ Spared(w[1], Place(w)))
<1> DEFINE d == w[1]
           s == w[2]
<1>1. d \in Drive /\ s \in Nat /\ Media[d] \in Nat
  BY ConstantsAssumption
<1>2. /\ d = buf_drive /\ buf_drive # None /\ buf_geom.spt > 0 /\ buf_geom \in Usable(d) /\ Quiet
      /\ UNCHANGED <<buf_drive, buf, phase, rd, req, out>>
  BY <1>1, ConstantsAssumption DEF Write, Clean, Inv, GeometryInv
<1>3. PICK first \in IF s = 0 THEN biosdisk(d, buf_geom, 0, 1)
                     ELSE {[err |-> "none", geom |-> buf_geom, from |-> s]} :
         IF first.err # "none"
         THEN UNCHANGED <<disk, buf_track, behind>>
         ELSE \E r \in biosdisk(d, first.geom, IF s = 0 /\ disk[d][first.from] \in EZD
                                              THEN 1 ELSE s, 1) :
                \/ /\ r.err = "none"
                   /\ disk' = [disk EXCEPT ![d][r.from] = w[3]]
                   /\ buf_track' = IF Touches(r.geom, IF s = 0 /\ disk[d][first.from] \in EZD
                                                     THEN 1 ELSE s)
                                   THEN -1 ELSE buf_track
                   /\ behind' = /\ ~ Touches(r.geom, IF s = 0 /\ disk[d][first.from] \in EZD
                                                     THEN 1 ELSE s)
                                /\ \/ behind
                                   \/ /\ Odd(r.geom)
                                      /\ Buffered(r.geom, IF s = 0 /\ disk[d][first.from] \in EZD
                                                          THEN 1 ELSE s)
                \/ r.err # "none" /\ UNCHANGED <<disk, buf_track, behind>>
  BY DEF Write
<1>4. CASE first.err # "none"
  BY <1>1, <1>2, <1>3, <1>4
<1>5. CASE first.err = "none"
  <2>1. /\ first.geom \in Usable(d) /\ first.geom.spt > 0
        /\ s = 0 => first.from = 0
    <3>1. CASE s = 0
      <4>1. first \in biosdisk(d, buf_geom, 0, 1) /\ 0 \in Nat /\ 1 \in Nat
        BY <1>3, <3>1
      <4> HIDE DEF d, s
      <4>2. first.geom \in Usable(d) /\ first.geom.spt > 0
        BY <1>1, <1>2, <4>1, UsableKept
      <4>3. first.from = 0
        BY <1>1, <1>2, <1>5, <4>1, ReadsWhereAsked
      <4> QED BY <4>2, <4>3
    <3>2. CASE s # 0
      BY <1>2, <1>3, <3>2
    <3> QED BY <3>1, <3>2
  <2> DEFINE t == Place(w)
  <2>2. t = IF s = 0 /\ disk[d][first.from] \in EZD THEN 1 ELSE s
    BY <2>1 DEF Place
  <2>3. t \in Nat /\ 1 \in Nat
    BY <1>1 DEF Place
  <2> HIDE DEF t, s, d
  <2>4. PICK r \in biosdisk(d, first.geom, t, 1) :
          \/ /\ r.err = "none"
             /\ disk' = [disk EXCEPT ![d][r.from] = w[3]]
             /\ buf_track' = IF Touches(r.geom, t) THEN -1 ELSE buf_track
             /\ behind' = /\ ~ Touches(r.geom, t)
                          /\ behind \/ (Odd(r.geom) /\ Buffered(r.geom, t))
          \/ r.err # "none" /\ UNCHANGED <<disk, buf_track, behind>>
    BY <1>3, <1>5, <2>2
  <2>5. CASE r.err # "none"
    BY <1>1, <1>2, <2>4, <2>5 DEF d
  <2>6. CASE r.err = "none"
    <3>1. r.from = t /\ t + 1 <= Media[d]
      BY <1>1, <2>1, <2>3, <2>6, ReadsWhereAsked
    <3>2. r.geom \in Usable(d)
      BY <1>1, <2>1, <2>3, UsableKept
    <3>3. /\ r.geom.spt \in Nat /\ r.geom.spt > 0 /\ VTrack(r.geom) = Sectors(d)
          /\ Sectors(d) \in Nat /\ Sectors(d) >= 1
      BY <1>1, <3>2, SectorsType DEF GeometryType
    <3>4. t \in 0..Media[d]-1
      BY <1>1, <2>3, <3>1
    <3>5. ASSUME ~ Touches(r.geom, t), ~ behind' PROVE Spared(d, t)
      <4>1. ~ behind /\ (Odd(r.geom) => ~ Buffered(r.geom, t))
        BY <2>4, <2>6, <3>5
      <4>2. CASE Odd(r.geom)
        BY <3>3, <4>1, <4>2 DEF Buffered, Spared, Cached
      <4>3. CASE ~ Odd(r.geom)
        <5>1. r.geom.spt = Sectors(d) /\ Sectors(d) >= 2
          BY <3>3, <4>3 DEF Odd
        <5>2. ASSUME Cached PROVE buf_track \in Nat /\ buf_track % Sectors(d) = 0
          BY <1>2, <5>2 DEF Inv, CacheInv, TrackInv, TypeInv, TypeOK, Cached
        <5>3. ASSUME NEW i \in 0..Sectors(d)-1, Cached, t = buf_track + i PROVE FALSE
          <6>1. t % Sectors(d) = i
            BY <3>3, <5>2, <5>3, InTrack
          <6>2. t - (t % Sectors(d)) = buf_track
            BY <3>3, <5>2, <5>3, <6>1
          <6> QED BY <3>5, <5>1, <6>2 DEF Touches
        <5>4. ASSUME Cached, t \in buf_track..buf_track+Sectors(d)-1 PROVE FALSE
          <6>1. t - buf_track \in 0..Sectors(d)-1 /\ t = buf_track + (t - buf_track)
            BY <2>3, <3>3, <5>2, <5>4
          <6> QED BY <5>3, <5>4, <6>1
        <5>5. ASSUME Cached, buf_track = 0 PROVE t # 1
          BY <2>3, <3>3, <5>1, <5>4, <5>5
        <5> QED BY <4>1, <5>4, <5>5 DEF Spared
      <4> QED BY <4>2, <4>3
    <3>6. buf_track' = -1 \/ (buf_track' = buf_track /\ (behind' \/ Spared(d, t)))
      <4> HIDE DEF Spared
      <4> QED BY <2>4, <2>6, <3>5
    <3> QED BY <1>1, <1>2, <2>4, <2>6, <3>1, <3>4, <3>6 DEF t, d
  <2> QED BY <2>5, <2>6
<1> QED BY <1>4, <1>5

LEMMA CacheOthers ==
  ASSUME Inv, careful, careful', Invalidate \/ \E d \in Drive : Mount(d)
  PROVE  CacheInv'
<1> USE DEF Inv, CacheInv
<1>1. CASE Invalidate
  BY <1>1 DEF Invalidate, Quiet, TrackInv, RetryInv, MapInv, CopyInv, OutInv, Cached
<1>2. ASSUME NEW d \in Drive, Mount(d) PROVE CacheInv'
  BY <1>2 DEF Mount, Quiet, TrackInv, RetryInv, MapInv, CopyInv, OutInv, Cached, Holds
<1> QED BY <1>1, <1>2

LEMMA CacheWrite ==
  ASSUME Inv, careful, careful', NEW w \in Writes, Write(w)
  PROVE  CacheInv'
<1> DEFINE d == w[1]
           t == Place(w)
           T == buf_track
           V == Sectors(d)
<1>0. TrackInv
  BY DEF Inv, CacheInv
<1>1. /\ d \in Drive /\ d = buf_drive /\ buf_drive # None
      /\ UNCHANGED <<buf_drive, buf, phase>> /\ Quiet
      /\ \/ UNCHANGED <<disk, buf_track, behind>>
         \/ /\ t \in 0..Media[d]-1
            /\ disk' = [disk EXCEPT ![d][t] = w[3]]
            /\ buf_track' = -1 \/ (buf_track' = T /\ (behind' \/ Spared(d, t)))
  BY WriteDoes
<1> SUFFICES TrackInv'
  BY <1>1 DEF CacheInv, RetryInv, MapInv, CopyInv, OutInv, Quiet
<1> HIDE DEF d, t
<1>2. V \in Nat /\ V >= 1 /\ Media[d] \in Nat
  BY <1>1, SectorsType, ConstantsAssumption
<1> HIDE DEF V
<1>3. CASE UNCHANGED <<disk, buf_track, behind>>
  BY <1>0, <1>1, <1>3 DEF TrackInv, Cached, Holds, Quiet
<1>4. CASE ~ UNCHANGED <<disk, buf_track, behind>>
  <2> SUFFICES ASSUME Cached'
               PROVE  /\ T % V = 0 /\ T + V <= Media[d] /\ buf_track' = T
                      /\ behind' \/ \A i \in 0..V-1 : buf[i] = Seen(disk'[d], T + i)
    BY <1>1 DEF TrackInv, Cached, Holds, Quiet, V
  <2>1. /\ t \in 0..Media[d]-1 /\ disk' = [disk EXCEPT ![d][t] = w[3]]
        /\ buf_track' = T /\ T # -1 /\ Cached
    BY <1>1, <1>4 DEF Cached
  <2>2. T % V = 0 /\ T + V <= Media[d] /\ T \in Nat
    BY <1>0, <1>1, <2>1 DEF TrackInv, V, Quiet, Inv, TypeInv, TypeOK
  <2>3. disk[d] \in [0..Media[d]-1 -> Data] /\ DOMAIN disk = Drive
    BY <1>1 DEF Inv, TypeInv, TypeOK
  <2>4. disk'[d] = [disk[d] EXCEPT ![t] = w[3]]
    BY <1>1, <2>1, <2>3
  <2>5. ASSUME Spared(d, t), NEW i \in 0..V-1
        PROVE  buf[i] = Seen(disk'[d], T + i)
    <3>1. buf[i] = Seen(disk[d], T + i)
      BY <1>0, <1>1, <2>1, <2>5 DEF TrackInv, Holds, V, Spared
    <3>2. t \notin T..T+V-1 /\ (T = 0 => t # 1)
      BY <2>1, <2>5 DEF Spared, V
    <3>3. T + i \in 0..Media[d]-1 /\ disk'[d][T + i] = disk[d][T + i]
      BY <1>2, <2>1, <2>2, <2>3, <2>4, <3>2
    <3>4. CASE T + i = 0
      <4>1. T = 0 /\ i = 0
        BY <1>2, <2>2, <3>4
      <4>2. disk'[d][0] = disk[d][0] /\ disk'[d][1] = disk[d][1]
        BY <2>1, <2>3, <2>4, <3>2, <3>3, <3>4, <4>1
      <4> QED BY <3>1, <3>4, <4>2 DEF Seen
    <3>5. CASE T + i # 0
      BY <3>1, <3>3, <3>5 DEF Seen
    <3> QED BY <3>4, <3>5
  <2> QED BY <1>1, <1>4, <2>1, <2>2, <2>5
<1> QED BY <1>3, <1>4

LEMMA CacheNext == Inv /\ [Next]_vars => CacheInv'
<1> SUFFICES ASSUME Inv, careful, careful', [Next]_vars PROVE CacheInv'
  BY DEF CacheInv, Next, vars, Call, ReadStep, Mount, Invalidate, Write
<1>1. CASE ReadStep
  <2>1. CASE Hit /\ ~ behind
    BY <2>1, CacheControl
  <2>2. CASE MapInBuffer /\ ~ Mistaken
    BY <2>2, CacheMap
  <2> QED BY <1>1, <2>1, <2>2, CacheControl, CacheFill, CacheRetry, CacheMap, CacheCopy DEF ReadStep
<1>2. ASSUME NEW r \in Requests, Call(r) PROVE CacheInv'
  BY <1>2, CacheCall
<1>3. CASE Invalidate \/ \E d \in Drive : Mount(d)
  BY <1>3, CacheOthers
<1>4. ASSUME NEW w \in Writes, Write(w) PROVE CacheInv'
  BY <1>4, CacheWrite
<1>5. CASE UNCHANGED vars
  <2> USE <1>5 DEF vars, cache
  <2>1. /\ Off' = Off /\ Base' = Base /\ Room' = Room /\ Many' = Many
        /\ Start' = Start /\ Length' = Length /\ Cached' = Cached /\ Quiet' = Quiet
    BY DEF Off, Base, Room, Many, Start, Length, Cached, Quiet
  <2>2. TrackInv /\ RetryInv /\ MapInv /\ CopyInv /\ OutInv
    BY DEF Inv, CacheInv
  <2>3. TrackInv' /\ RetryInv'
    BY <2>1, <2>2 DEF TrackInv, RetryInv, Holds, Leftover
  <2>4. MapInv' /\ CopyInv' /\ OutInv'
    BY <2>1, <2>2 DEF MapInv, CopyInv, OutInv, Holds
  <2> QED BY <2>3, <2>4 DEF CacheInv
<1> QED BY <1>1, <1>2, <1>3, <1>4, <1>5 DEF Next

LEMMA SpecInv == Spec => []Inv
<1>1. Init => Inv
  BY TypeInvInit, CacheInvInit, GeometryInvInit DEF Inv
<1>2. Inv /\ [Next]_vars => Inv'
  BY TypeInvStep, GeometryInvStep, CacheNext DEF Inv
<1> QED BY <1>1, <1>2, PTL DEF Spec

-------------------------------------------------------------------------------
(* The theorems. *)

LEMMA Contents ==
  ASSUME NEW d, NEW s
  PROVE  Device!Contents(d, s) = Seen(disk[d], s)
BY DEF Device!Contents, Device!Target, Seen

\* Between two reads the track buffer never is out of date: what it claims to hold
\* is what the media hold, after every mixture of reads, writes, changes of drive,
\* failing BIOS calls and partial reads, whatever the length of a track and whatever
\* the sectors look like, but for a track longer than the buffer (or of one sector)
\* that was written to while it was buffered: rawwrite() then keeps the buffer.
THEOREM CacheAlwaysCoherent == Spec => []CacheCoherent
<1>1. Inv => CacheCoherent
  BY Contents DEF Inv, CacheInv, TrackInv, Cached, Holds, Sectors, CacheCoherent
<1> QED BY <1>1, SpecInv, PTL

Status == IF Quiet THEN phase ELSE "busy"
Answered == IF phase = "ok" THEN out ELSE <<>>

\* The end of a read is an answer or a failure of the device.
LEMMA ReturnAnswers ==
  ASSUME Inv, careful, UNCHANGED careful, Return
  PROVE  Device!Promised
<1>1. /\ phase = "loop" /\ (rd.left = 0 \/ errnum # "none") /\ ~ Quiet
      /\ phase' = IF errnum = "none" THEN "ok" ELSE "failed"
      /\ UNCHANGED <<disk, errnum, rd, req, out>>
  BY DEF Return, Quiet
<1>2. CASE errnum # "none"
  BY <1>1, <1>2 DEF Device!Promised, Device!Fail, Quiet
<1>3. CASE errnum = "none"
  <2>1. /\ Len(out) + rd.left = req[3] /\ rd.left = 0
        /\ \A i \in 1..Len(out) : out[i] = Seen(disk[req[1]], req[2] + i - 1)
    BY <1>1, <1>3 DEF Inv, CacheInv, OutInv
  <2>2. out \in Seq(Data) /\ Len(out) \in Nat
    BY LenProperties DEF Inv, TypeInv, TypeOK
  <2>3. Len(out) = req[3]
    BY <2>1, <2>2
  <2>4. out = [i \in 1..req[3] |-> Device!Contents(req[1], req[2] + i - 1)]
    <3>1. out = [i \in 1..Len(out) |-> out[i]]
      BY <2>2
    <3>2. \A i \in 1..req[3] : out[i] = Device!Contents(req[1], req[2] + i - 1)
      BY <2>1, <2>3, Contents
    <3> QED BY <2>3, <3>1, <3>2
  <2>5. Device!Answer
    BY <1>1, <1>3, <2>4 DEF Device!Answer, Quiet
  <2> QED BY <2>5 DEF Device!Promised
<1> QED BY <1>2, <1>3

LEMMA StepAnswers == Inv /\ [Next]_vars => [Device!Next]_(Device!vars)
<1> SUFFICES ASSUME Inv, [Next]_vars
             PROVE  Device!Next \/ UNCHANGED <<disk, Status, req, Answered, careful>>
  BY DEF Device!vars, Status, Answered
<1> SUFFICES ASSUME careful'
             PROVE  (careful /\ Device!Promised) \/ UNCHANGED <<disk, Status, req, Answered, careful>>
  BY DEF Device!Next
<1>0. careful
  BY DEF Next, vars, Call, ReadStep, Mount, Invalidate, Write
<1>1. ASSUME NEW r \in Requests, Call(r) PROVE Device!Promised
  <2>1. Device!Ask(r)
    BY <1>1 DEF Call, Quiet, Device!Ask
  <2> QED BY <2>1 DEF Device!Promised
<1>2. CASE ReadStep /\ Return
  BY <1>0, <1>2, ReturnAnswers DEF ReadStep
<1>3. CASE ReadStep /\ ~ Return
  BY <1>3 DEF ReadStep, Refresh, RefreshFails, OutOfGeometry, Fault, Hit, Addressed, Located, Looping,
              Fill, Retry, NotEZD, MapInBuffer, MapFromDisk, Copy, Quiet, Status, Answered
<1>4. CASE Invalidate \/ \E d \in Drive : Mount(d)
  BY <1>4 DEF Invalidate, Mount, Status, Answered, Quiet
<1>5. ASSUME NEW w \in Writes, Write(w)
      PROVE  Device!Promised \/ UNCHANGED <<disk, Status, req, Answered, careful>>
  <2>1. /\ Quiet /\ UNCHANGED <<phase, req, out>>
        /\ \/ UNCHANGED disk
           \/ disk' = [disk EXCEPT ![w[1]][Place(w)] = w[3]]
    BY <1>0, <1>5, WriteDoes
  <2>2. Place(w) = Device!Target(w[1], w[2])
    BY DEF Place, Device!Target
  <2>3. CASE UNCHANGED disk
    BY <1>0, <1>5, <2>1, <2>3 DEF Status, Answered, Quiet
  <2>4. CASE disk' = [disk EXCEPT ![w[1]][Place(w)] = w[3]]
    <3>1. Device!Write(w)
      BY <2>1, <2>2, <2>4 DEF Device!Write, Quiet
    <3> QED BY <3>1 DEF Device!Promised
  <2> QED BY <2>1, <2>3, <2>4
<1>6. CASE UNCHANGED vars
  BY <1>6 DEF vars, cache, Status, Answered, Quiet
<1> QED BY <1>0, <1>1, <1>2, <1>3, <1>4, <1>5, <1>6 DEF Next

\* Every read fails or delivers exactly what the media hold: behind the track
\* buffer, the partial reads, the retries, the fallback from LBA to CHS and the
\* mapping of an EZ-Drive's first sector, rawread() and rawwrite() implement a disk
\* without a buffer.  The promise ends with a read that finds its track in a buffer
\* a write left behind, or that takes another sector for an EZ-Drive's first.
THEOREM DiskServed == Spec => ReadsTheDisk
<1>1. Init => Device!Init
  BY DEF Init, Device!Init, Quiet
<1>2. Inv /\ [Next]_vars => [Device!Next]_(Device!vars)
  BY StepAnswers
<1> QED BY <1>1, <1>2, SpecInv, PTL DEF Spec, ReadsTheDisk, Device!Spec
===============================================================================
