--------------------------- MODULE ConfigReaderProofs ---------------------------
(***************************************************************************)
(* The lines that are handed on are the lines of the file, for files of    *)
(* any length and every size of the buffer.  Each state is at a place of   *)
(* the file; the lines that end before it have been handed on or are in    *)
(* str, and s has the begin of the line the place is in.                   *)
(***************************************************************************)
EXTENDS ConfigReader, TLAPS, FiniteSetTheorems, SequenceTheorems, WellFoundedInduction

Text_ == Seq(STRING)

\* Where the physical lines of f end.
LineEnds(f) == {i \in DOMAIN f : f[i] = "\n" \/ i = Len(f)}
Rank(f, j) == Cardinality({i \in LineEnds(f) : i <= j})
Lines(f) == Cardinality(LineEnds(f))
LineEnd(f, k) == IF k = 0 THEN 0 ELSE CHOOSE e \in LineEnds(f) : Rank(f, e) = k

\* Logical lines, physical line by physical line.
None_ == [done |-> <<>>, open |-> <<>>]
Join(a, l) == IF Continued(l) THEN [a EXCEPT !.open = @ \o Front(l)]
              ELSE [done |-> Append(a.done, a.open \o l), open |-> <<>>]
IsJoined(f, a, n) == a = [k \in 0..n |-> IF k = 0 THEN None_ ELSE Join(a[k - 1], Clean(PhysicalLines(f)[k]))]
Joined(f) == CHOOSE a : IsJoined(f, a, Lines(f))

-------------------------------------------------------------------------------
(* Numbers and sequences.                                                      *)

LEMMA Least == ASSUME NEW S \in SUBSET Nat, S # {} PROVE \E i \in S : \A j \in S : i <= j
<1>1. PICK i \in S : \A j \in S : ~ (<<j, i>> \in OpToRel(<, Nat))
  BY NatLessThanWellFounded, WFMin
<1>2. \A j \in S : ~ (j < i)
  BY <1>1, Zenon DEF OpToRel
<1>3. \A j \in S : i <= j
  BY <1>2
<1> QED BY <1>3

LEMMA Induction ==
  ASSUME NEW N \in Nat, NEW T \in SUBSET Nat, 0 \in T, \A n \in T : n < N => n + 1 \in T
  PROVE  \A n \in 0..N : n \in T
<1> DEFINE out_ == {n \in Nat : n <= N /\ n \notin T}
<1> SUFFICES ASSUME out_ # {} PROVE FALSE
  OBVIOUS
<1>1. PICK x \in out_ : \A y \in out_ : x <= y
  <2>1. out_ \in SUBSET Nat
    OBVIOUS
  <2> HIDE DEF out_
  <2> QED BY <2>1, Least
<1>2. x # 0 /\ x - 1 \in Nat /\ x - 1 <= N /\ ~ (x <= x - 1)
  OBVIOUS
<1>3. x - 1 \notin out_
  BY <1>1, <1>2
<1> QED BY <1>2, <1>3

\* A part of a text is a text.
LEMMA PartIs ==
  ASSUME NEW l \in Text_, NEW a \in Nat, NEW b \in Nat, b <= Len(l)
  PROVE  /\ SubSeq(l, a + 1, b) \in Text_ /\ (a <= b => Len(SubSeq(l, a + 1, b)) = b - a)
         /\ (b <= a => SubSeq(l, a + 1, b) = <<>>)
         /\ (a <= b => \A i \in 1..(b - a) : SubSeq(l, a + 1, b)[i] = l[a + i])
BY DEF Text_

LEMMA BeginIs ==
  ASSUME NEW l \in Text_, NEW b \in Nat, b <= Len(l) PROVE SubSeq(l, 1, b) \in Text_ /\ Len(SubSeq(l, 1, b)) = b
BY DEF Text_

\* Parts that follow each other make one.
LEMMA PartsJoin ==
  ASSUME NEW l \in Text_, NEW a \in Nat, NEW b \in Nat, NEW c \in Nat, a <= b, b <= c, c <= Len(l)
  PROVE  SubSeq(l, a + 1, b) \o SubSeq(l, b + 1, c) = SubSeq(l, a + 1, c)
<1> DEFINE m == a + 1
<1>1. m \in 1 .. Len(l) + 1 /\ b \in m - 1 .. Len(l) /\ c \in b .. Len(l)
  BY DEF Text_
<1> HIDE DEF m
<1>2. SubSeq(l, m, b) \o SubSeq(l, b + 1, c) = SubSeq(l, m, c)
  BY <1>1, ConcatAdjacentSubSeq DEF Text_
<1> QED BY <1>2 DEF m

\* A part of a part.
LEMMA PartOfPart ==
  ASSUME NEW l \in Text_, NEW a \in Nat, NEW b \in Nat, a <= b, b <= Len(l), NEW x \in Nat, NEW y \in Nat, x <= y, y <= b - a
  PROVE  SubSeq(SubSeq(l, a + 1, b), x + 1, y) = SubSeq(l, a + x + 1, a + y)
<1> DEFINE p_ == SubSeq(l, a + 1, b)
           q == SubSeq(p_, x + 1, y)
           r == SubSeq(l, (a + x) + 1, a + y)
<1>1. p_ \in Text_ /\ Len(p_) = b - a /\ (\A i \in 1..(b - a) : p_[i] = l[a + i])
  BY PartIs
<1> HIDE DEF p_
<1>2. q \in Text_ /\ Len(q) = y - x /\ (\A i \in 1..(y - x) : q[i] = p_[x + i])
  BY <1>1, PartIs
<1>3. r \in Text_ /\ Len(r) = y - x /\ (\A i \in 1..(y - x) : r[i] = l[(a + x) + i])
  <2> DEFINE m == a + x
             n == a + y
  <2>1. m \in Nat /\ n \in Nat /\ m <= n /\ n <= Len(l) /\ n - m = y - x
    BY DEF Text_
  <2> HIDE DEF m, n
  <2>2. /\ SubSeq(l, m + 1, n) \in Text_ /\ Len(SubSeq(l, m + 1, n)) = n - m
        /\ \A i \in 1..(n - m) : SubSeq(l, m + 1, n)[i] = l[m + i]
    BY <2>1, PartIs
  <2> QED BY <2>1, <2>2 DEF m, n
<1> HIDE DEF q, r
<1>4. ASSUME NEW i \in 1..(y - x) PROVE q[i] = r[i]
  <2>1. x + i \in 1..(b - a) /\ a + (x + i) = (a + x) + i
    OBVIOUS
  <2> QED BY <1>1, <1>2, <1>3, <2>1
<1>5. q = r
  BY <1>2, <1>3, <1>4 DEF Text_
<1> QED BY <1>5 DEF p_, q, r

-------------------------------------------------------------------------------
(* The ends of the lines.                                                      *)

LEMMA EndsAre ==
  ASSUME NEW f \in Text_
  PROVE  /\ Len(f) \in Nat /\ DOMAIN f = 1..Len(f)
         /\ LineEnds(f) \subseteq 1..Len(f) /\ IsFiniteSet(LineEnds(f)) /\ Lines(f) \in Nat
         /\ \A j : IsFiniteSet({i \in LineEnds(f) : i <= j}) /\ Rank(f, j) \in Nat
<1>1. Len(f) \in Nat /\ DOMAIN f = 1..Len(f)
  BY DEF Text_
<1>2. LineEnds(f) \subseteq 1..Len(f)
  BY <1>1 DEF LineEnds
<1>3. IsFiniteSet(1..Len(f))
  BY <1>1, FS_Interval
<1>4. IsFiniteSet(LineEnds(f))
  BY <1>2, <1>3, FS_Subset
<1>5. Lines(f) \in Nat
  BY <1>4, FS_CardinalityType DEF Lines
<1>6. ASSUME NEW j PROVE IsFiniteSet({i \in LineEnds(f) : i <= j}) /\ Rank(f, j) \in Nat
  <2>1. IsFiniteSet({i \in LineEnds(f) : i <= j})
    BY <1>4, FS_Subset
  <2> QED BY <2>1, FS_CardinalityType DEF Rank
<1> QED BY <1>1, <1>2, <1>4, <1>5, <1>6

\* The rank goes up by one at each end of a line.
LEMMA RankIs ==
  ASSUME NEW f \in Text_
  PROVE  /\ Rank(f, 0) = 0 /\ Rank(f, Len(f)) = Lines(f)
         /\ \A j \in 0..(Len(f) - 1) : Rank(f, j + 1) = IF j + 1 \in LineEnds(f) THEN Rank(f, j) + 1 ELSE Rank(f, j)
<1>1. Rank(f, 0) = 0
  <2>1. {i \in LineEnds(f) : i <= 0} = {}
    BY EndsAre
  <2> QED BY <2>1, FS_EmptySet DEF Rank
<1>2. Rank(f, Len(f)) = Lines(f)
  <2>1. {i \in LineEnds(f) : i <= Len(f)} = LineEnds(f)
    BY EndsAre
  <2> QED BY <2>1 DEF Rank, Lines
<1>3. ASSUME NEW j \in 0..(Len(f) - 1)
      PROVE  Rank(f, j + 1) = IF j + 1 \in LineEnds(f) THEN Rank(f, j) + 1 ELSE Rank(f, j)
  <2> DEFINE S == {i \in LineEnds(f) : i <= j}
             T == {i \in LineEnds(f) : i <= j + 1}
  <2>1. IsFiniteSet(S) /\ LineEnds(f) \subseteq Nat /\ j \in Nat
    BY EndsAre
  <2>2. CASE j + 1 \in LineEnds(f)
    <3>1. T = S \cup {j + 1} /\ j + 1 \notin S
      BY <2>1, <2>2
    <3> HIDE DEF S, T
    <3>2. Cardinality(T) = Cardinality(S) + 1
      BY <2>1, <3>1, FS_AddElement
    <3> QED BY <2>2, <3>2 DEF Rank, S, T
  <2>3. CASE j + 1 \notin LineEnds(f)
    <3>1. T = S
      BY <2>1, <2>3
    <3> QED BY <2>3, <3>1 DEF Rank
  <2> QED BY <2>2, <2>3
<1> QED BY <1>1, <1>2, <1>3

LEMMA RankGrows ==
  ASSUME NEW f \in Text_, NEW i \in Nat, NEW j \in Nat, i < j
  PROVE  Rank(f, i) <= Rank(f, j) /\ (j \in LineEnds(f) => Rank(f, i) < Rank(f, j))
<1> DEFINE S == {k \in LineEnds(f) : k <= i}
           T == {k \in LineEnds(f) : k <= j}
<1>1. IsFiniteSet(S) /\ IsFiniteSet(T) /\ S \in SUBSET T /\ (j \in LineEnds(f) => j \in T /\ j \notin S)
  <2>1. IsFiniteSet(S) /\ IsFiniteSet(T)
    BY EndsAre
  <2>2. LineEnds(f) \subseteq 1..Len(f) /\ Len(f) \in Nat
    BY EndsAre
  <2>3. \A k \in LineEnds(f) : k \in Nat /\ (k <= i => k <= j)
    BY <2>2
  <2> QED BY <2>1, <2>3
<1> HIDE DEF S, T
<1>2. Cardinality(S) \in Nat /\ Cardinality(T) \in Nat /\ Cardinality(S) <= Cardinality(T)
      /\ (Cardinality(S) = Cardinality(T) => S = T)
  BY <1>1, FS_Subset, FS_CardinalityType
<1>3. Cardinality(S) <= Cardinality(T) /\ (j \in LineEnds(f) => Cardinality(S) < Cardinality(T))
  BY <1>1, <1>2
<1> QED BY <1>3 DEF Rank, S, T

\* Every line has its end.
LEMMA EndIs ==
  ASSUME NEW f \in Text_, NEW k \in 1..Lines(f)
  PROVE  LineEnd(f, k) \in LineEnds(f) /\ Rank(f, LineEnd(f, k)) = k
<1> DEFINE Has(j) == \A n \in 1..Rank(f, j) : \E e \in LineEnds(f) : Rank(f, e) = n
           T == {j \in Nat : Has(j)}
<1>1. 0 \in T
  BY RankIs
<1>2. ASSUME NEW j \in T, j < Len(f) PROVE j + 1 \in T
  <2>0. Len(f) \in Nat /\ Rank(f, j) \in Nat
    BY EndsAre
  <2>1. j \in 0..(Len(f) - 1) /\ Rank(f, j) \in Nat /\ Has(j) /\ j + 1 \in Nat
    BY <1>2, <2>0
  <2>2. CASE j + 1 \in LineEnds(f)
    <3>1. Rank(f, j + 1) = Rank(f, j) + 1
      BY <2>1, <2>2, RankIs
    <3>2. \A n \in 1..Rank(f, j + 1) : n \in 1..Rank(f, j) \/ n = Rank(f, j + 1)
      BY <2>1, <3>1
    <3>3. Has(j + 1)
      BY <2>1, <2>2, <3>2
    <3> QED BY <2>1, <3>3
  <2>3. CASE j + 1 \notin LineEnds(f)
    <3>1. Rank(f, j + 1) = Rank(f, j)
      BY <2>1, <2>3, RankIs
    <3>2. Has(j + 1)
      BY <2>1, <3>1
    <3> QED BY <2>1, <3>2
  <2> QED BY <2>2, <2>3
<1>3. Len(f) \in T
  <2> HIDE DEF T
  <2>1. T \in SUBSET Nat
    BY DEF T
  <2>2. \A j \in T : j < Len(f) => j + 1 \in T
    BY <1>2
  <2>3. \A j \in 0..Len(f) : j \in T
    BY <1>1, <2>1, <2>2, EndsAre, Induction
  <2> QED BY <2>3, EndsAre
<1>4. \E e \in LineEnds(f) : Rank(f, e) = k
  BY <1>3, RankIs
<1>5. LineEnd(f, k) = CHOOSE e \in LineEnds(f) : Rank(f, e) = k
  BY EndsAre DEF LineEnd
<1> QED BY <1>4, <1>5, Zenon

LEMMA EndType ==
  ASSUME NEW f \in Text_, NEW k \in 0..Lines(f)
  PROVE  LineEnd(f, k) \in 0..Len(f) /\ Rank(f, LineEnd(f, k)) = k
<1>1. CASE k = 0
  BY <1>1, RankIs, EndsAre DEF LineEnd
<1>2. CASE k # 0
  <2>1. k \in 1..Lines(f)
    BY <1>2, EndsAre
  <2> QED BY <2>1, EndIs, EndsAre
<1> QED BY <1>1, <1>2

\* The lines end in their order, the last one at the end of the file.
LEMMA EndsInOrder ==
  ASSUME NEW f \in Text_, NEW k \in 0..Lines(f), k < Lines(f)
  PROVE  /\ k + 1 \in 1..Lines(f) /\ LineEnd(f, k) < LineEnd(f, k + 1)
         /\ \A i \in LineEnds(f) : i <= LineEnd(f, k) \/ i >= LineEnd(f, k + 1)
<1> DEFINE a == LineEnd(f, k)
           b == LineEnd(f, k + 1)
<1>1. k + 1 \in 1..Lines(f) /\ k \in Nat
  BY EndsAre
<1>2. a \in 0..Len(f) /\ Rank(f, a) = k
  BY EndType
<1>3. b \in LineEnds(f) /\ Rank(f, b) = k + 1 /\ b \in Nat
  BY <1>1, EndIs, EndsAre
<1> HIDE DEF a, b
<1>4. a \in Nat
  BY <1>2, EndsAre
<1>5. a < b
  <2>1. a # b
    BY <1>1, <1>2, <1>3
  <2>2. ~ (b < a)
    BY <1>1, <1>2, <1>3, <1>4, RankGrows
  <2> QED BY <1>3, <1>4, <2>1, <2>2
<1>6. ASSUME NEW i \in LineEnds(f), a < i, i < b PROVE FALSE
  <2>0. LineEnds(f) \subseteq 1..Len(f) /\ Rank(f, i) \in Nat
    BY EndsAre
  <2>1. i \in Nat /\ Rank(f, i) \in Nat
    BY <2>0
  <2>2. Rank(f, a) < Rank(f, i) /\ Rank(f, i) < Rank(f, b)
    BY <1>3, <1>4, <1>6, <2>1, RankGrows
  <2> QED BY <1>1, <1>2, <1>3, <2>1, <2>2
<1>7. \A i \in LineEnds(f) : i <= a \/ i >= b
  <2>1. LineEnds(f) \subseteq Nat
    BY EndsAre
  <2> QED BY <1>3, <1>4, <1>6, <2>1
<1> QED BY <1>1, <1>5, <1>7 DEF a, b

LEMMA LastEnd ==
  ASSUME NEW f \in Text_ PROVE LineEnd(f, Lines(f)) = Len(f)
<1> DEFINE n == Lines(f)
           a == LineEnd(f, n)
<1>1. n \in Nat /\ n \in 0..n /\ Len(f) \in Nat
  BY EndsAre
<1>2. a \in 0..Len(f) /\ Rank(f, a) = n /\ Rank(f, Len(f)) = n
  BY <1>1, EndType, RankIs
<1>3. Len(f) # 0 => Len(f) \in LineEnds(f)
  BY <1>1, EndsAre DEF LineEnds
<1> HIDE DEF a, n
<1>4. a < Len(f) => Rank(f, a) < Rank(f, Len(f))
  BY <1>1, <1>2, <1>3, RankGrows
<1> QED BY <1>1, <1>2, <1>4 DEF a, n

-------------------------------------------------------------------------------
(* The texts of the lines.                                                     *)

\* What is before the first character of a set.
LEMMA BeforeIs ==
  ASSUME NEW l \in Text_, NEW C
  PROVE  /\ Before(l, C) \in Text_ /\ Len(Before(l, C)) <= Len(l)
         /\ (\A i \in 1..Len(l) : l[i] \notin C) => Before(l, C) = l
         /\ \A n \in 1..Len(l) : l[n] \in C /\ (\A i \in 1..(n - 1) : l[i] \notin C) => Len(Before(l, C)) = n - 1
<1> DEFINE S == {i \in DOMAIN l : l[i] \in C}
           first == CHOOSE i \in S : \A j \in S : i <= j
<1>1. Len(l) \in Nat /\ DOMAIN l = 1..Len(l) /\ S \in SUBSET Nat
  BY DEF Text_
<1>2. Before(l, C) = IF S = {} THEN l ELSE SubSeq(l, 1, first - 1)
  BY DEF Before
<1>3. S # {} => first \in S /\ \A j \in S : first <= j
  <2> HIDE DEF S
  <2> QED BY <1>1, Least
<1> HIDE DEF first
<1>4. CASE S = {}
  <2>1. \A i \in 1..Len(l) : l[i] \notin C
    BY <1>1, <1>4
  <2>2. Before(l, C) = l
    BY <1>2, <1>4
  <2> QED BY <1>1, <2>1, <2>2
<1>5. CASE S # {}
  <2>1. first \in 1..Len(l) /\ l[first] \in C /\ first - 1 \in Nat /\ first - 1 <= Len(l)
    BY <1>1, <1>3, <1>5
  <2>2. Before(l, C) = SubSeq(l, 1, first - 1)
    BY <1>2, <1>5
  <2>3. SubSeq(l, 1, first - 1) \in Text_ /\ Len(SubSeq(l, 1, first - 1)) = first - 1
    BY <2>1, BeginIs
  <2>4. ASSUME NEW n \in 1..Len(l), l[n] \in C, \A i \in 1..(n - 1) : l[i] \notin C PROVE n = first
    <3>1. first <= n
      BY <1>1, <1>3, <1>5, <2>4
    <3>2. ~ (first \in 1..(n - 1))
      BY <2>1, <2>4
    <3> QED BY <2>1, <3>1, <3>2
  <2>5. Before(l, C) \in Text_ /\ Len(Before(l, C)) = first - 1
    BY <2>1, <2>2, <2>3
  <2> HIDE DEF S
  <2> QED BY <1>1, <2>1, <2>4, <2>5
<1> QED BY <1>4, <1>5

LEMMA StripIs ==
  ASSUME NEW l \in Text_ PROVE strip(l) \in Text_ /\ Len(strip(l)) <= Len(l)
<1> DEFINE ink == {i \in DOMAIN l : l[i] \notin Space}
           a == CHOOSE i \in ink : \A j \in ink : i <= j
           b == CHOOSE i \in ink : \A j \in ink : i >= j
<1>1. Len(l) \in Nat /\ DOMAIN l = 1..Len(l) /\ ink \in SUBSET (1..Len(l))
  BY DEF Text_
<1>2. CASE ink = {}
  <2>1. strip(l) = <<>>
    BY <1>2 DEF strip
  <2> QED BY <1>1, <2>1 DEF Text_
<1>3. CASE ink # {}
  <2>1. strip(l) = SubSeq(l, a, b)
    BY <1>3 DEF strip
  <2>2. a \in ink
    <3> HIDE DEF ink
    <3>1. \E i \in ink : \A j \in ink : i <= j
      BY <1>1, <1>3, Least
    <3> QED BY <3>1, Zenon
  <2>3. b \in ink
    <3> DEFINE down == {n \in Nat : Len(l) - n \in ink}
    <3>1. down # {} /\ down \in SUBSET Nat
      <4>1. PICK i \in ink : TRUE
        BY <1>3
      <4>2. Len(l) - i \in Nat /\ Len(l) - (Len(l) - i) = i
        BY <1>1, <4>1
      <4> QED BY <4>1, <4>2
    <3>2. PICK n \in down : \A j \in down : n <= j
      <4> HIDE DEF down
      <4> QED BY <3>1, Least
    <3>3. ASSUME NEW j \in ink PROVE Len(l) - n >= j
      <4>1. Len(l) - j \in down /\ j \in Nat
        <5>1. j \in 1..Len(l)
          BY <1>1
        <5>2. Len(l) - j \in Nat /\ Len(l) - (Len(l) - j) = j
          BY <1>1, <5>1
        <5> QED BY <5>1, <5>2
      <4>2. n \in Nat /\ n <= Len(l) - j
        BY <3>2, <4>1
      <4> QED BY <1>1, <4>1, <4>2
    <3>4. Len(l) - n \in ink
      BY <3>2
    <3> HIDE DEF ink
    <3> QED BY <3>3, <3>4, Zenon
  <2> HIDE DEF a, b
  <2>4. a - 1 \in Nat /\ b \in Nat /\ b <= Len(l) /\ (a - 1) + 1 = a
    BY <1>1, <2>2, <2>3
  <2>5. /\ SubSeq(l, a, b) \in Text_ /\ (a - 1 <= b => Len(SubSeq(l, a, b)) = b - (a - 1))
        /\ (b <= a - 1 => SubSeq(l, a, b) = <<>>)
    BY <2>4, PartIs
  <2>6. Len(<<>>) = 0
    OBVIOUS
  <2>7. Len(SubSeq(l, a, b)) <= Len(l)
    BY <1>1, <2>4, <2>5, <2>6
  <2> QED BY <2>1, <2>5, <2>7
<1> QED BY <1>2, <1>3

LEMMA CleanIs == ASSUME NEW l \in Text_ PROVE Clean(l) \in Text_
BY BeforeIs, StripIs DEF Clean

LEMMA FrontIs == ASSUME NEW l \in Text_, l # <<>> PROVE Front(l) \in Text_
<1>1. Len(l) - 1 \in Nat /\ Len(l) - 1 <= Len(l)
  BY DEF Text_
<1>2. SubSeq(l, 1, Len(l) - 1) \in Text_
  BY <1>1, BeginIs
<1> QED BY <1>2 DEF Front

\* A line's own text, whether it is continued or not.
LEMMA OwnText ==
  ASSUME NEW l \in Text_ PROVE (IF Continued(Clean(l)) THEN Front(Clean(l)) ELSE Clean(l)) \in Text_
<1>1. Continued(Clean(l)) => Clean(l) # <<>>
  BY DEF Continued
<1> QED BY <1>1, CleanIs, FrontIs

-------------------------------------------------------------------------------
(* Physical and logical lines.                                                 *)

LEMMA LinesAre ==
  ASSUME NEW f \in Text_
  PROVE  PhysicalLines(f) = [k \in 1..Lines(f) |-> SubSeq(f, LineEnd(f, k - 1) + 1, LineEnd(f, k))]
<1> DEFINE end == [k \in 0..Lines(f) |-> IF k = 0 THEN 0 ELSE CHOOSE e \in LineEnds(f) : Rank(f, e) = k]
<1>1. PhysicalLines(f) = [k \in 1..Lines(f) |-> SubSeq(f, end[k - 1] + 1, end[k])]
  BY DEF PhysicalLines, LineEnds, Rank, Lines
<1>2. \A k \in 0..Lines(f) : end[k] = LineEnd(f, k)
  BY DEF LineEnd
<1> HIDE DEF end
<1>3. \A k \in 1..Lines(f) : k \in 0..Lines(f) /\ k - 1 \in 0..Lines(f)
  BY EndsAre
<1> QED BY <1>1, <1>2, <1>3

LEMMA LineIs ==
  ASSUME NEW f \in Text_, NEW k \in 1..Lines(f)
  PROVE  PhysicalLines(f)[k] = SubSeq(f, LineEnd(f, k - 1) + 1, LineEnd(f, k)) /\ PhysicalLines(f)[k] \in Text_
<1>1. k - 1 \in 0..Lines(f) /\ k \in 0..Lines(f) /\ Len(f) \in Nat
  BY EndsAre
<1>2. LineEnd(f, k - 1) \in 0..Len(f) /\ LineEnd(f, k) \in 0..Len(f)
  BY <1>1, EndType
<1>3. SubSeq(f, LineEnd(f, k - 1) + 1, LineEnd(f, k)) \in Text_
  BY <1>1, <1>2, PartIs
<1> QED BY <1>3, LinesAre

LEMMA JoinedIs ==
  ASSUME NEW f \in Text_
  PROVE  /\ Joined(f)[0] = None_
         /\ \A k \in 1..Lines(f) : Joined(f)[k] = Join(Joined(f)[k - 1], Clean(PhysicalLines(f)[k]))
         /\ LogicalLines(f) = IF Joined(f)[Lines(f)].open = <<>> THEN Joined(f)[Lines(f)].done
                              ELSE Append(Joined(f)[Lines(f)].done, Joined(f)[Lines(f)].open)
<1> DEFINE step(a, k) == Join(a, Clean(PhysicalLines(f)[k]))
           Is(a, n) == a = [k \in 0..n |-> IF k = 0 THEN None_ ELSE step(a[k - 1], k)]
           N == Lines(f)
           T == {n \in Nat : \E a : Is(a, n)}
<1>0. N \in Nat
  BY EndsAre
<1> HIDE DEF step, N
<1>1. 0 \in T
  <2>1. Is([k \in 0..0 |-> None_], 0)
    OBVIOUS
  <2> QED BY <2>1
<1>2. ASSUME NEW n \in T PROVE n + 1 \in T
  <2>1. PICK a : Is(a, n)
    OBVIOUS
  <2> DEFINE b == [k \in 0..(n + 1) |-> IF k = n + 1 THEN step(a[n], k) ELSE a[k]]
  <2>2. ASSUME NEW k \in 0..(n + 1) PROVE b[k] = IF k = 0 THEN None_ ELSE step(b[k - 1], k)
    BY <2>1
  <2>3. Is(b, n + 1)
    BY <2>2, Zenon
  <2>4. n + 1 \in Nat
    OBVIOUS
  <2> HIDE DEF Is, b
  <2> QED BY <2>3, <2>4
<1>3. N \in T
  <2> HIDE DEF T
  <2>1. T \in SUBSET Nat
    BY DEF T
  <2>2. \A n \in T : n < N => n + 1 \in T
    BY <1>2
  <2>3. \A n \in 0..N : n \in T
    BY <1>0, <1>1, <2>1, <2>2, Induction
  <2> QED BY <1>0, <2>3
<1>4. Joined(f) = CHOOSE a : Is(a, N)
  BY DEF Joined, IsJoined, N, step
<1>5. Is(Joined(f), N)
  BY <1>3, <1>4, Zenon
<1>6. Len(PhysicalLines(f)) = N
  BY <1>0, LinesAre DEF N
<1>7. LogicalLines(f) = IF Joined(f)[N].open = <<>> THEN Joined(f)[N].done ELSE Append(Joined(f)[N].done, Joined(f)[N].open)
  BY <1>4, <1>6 DEF LogicalLines, Join, None_, step
<1>8. Joined(f)[0] = None_ /\ \A k \in 1..N : Joined(f)[k] = step(Joined(f)[k - 1], k)
  <2> DEFINE a == Joined(f)
  <2>1. Is(a, N)
    BY <1>5
  <2> HIDE DEF a
  <2>2. a[0] = None_ /\ \A k \in 1..N : a[k] = step(a[k - 1], k)
    BY <1>0, <2>1
  <2> QED BY <2>2 DEF a
<1> QED BY <1>7, <1>8 DEF N, step

-------------------------------------------------------------------------------
(* getline().                                                                  *)

\* The place in the file: what is before it has been taken.
Place == (read - Len(buf)) + p
Window ==
  /\ cfg \in Text_ /\ read \in Nat /\ read <= Len(cfg)
  /\ Len(buf) <= read /\ buf = SubSeq(cfg, (read - Len(buf)) + 1, read) /\ Len(buf) \in Nat /\ p \in 0..Len(buf)
Within(k) ==
  k \in 0..Lines(cfg) /\ LineEnd(cfg, k) <= Place /\ (k < Lines(cfg) => Place < LineEnd(cfg, k + 1))

LEMMA WindowIs ==
  ASSUME Window
  PROVE  /\ Place \in Nat /\ Place <= read /\ Len(cfg) \in Nat
         /\ \A i \in 1..Len(buf) : buf[i] = cfg[(read - Len(buf)) + i]
         /\ SubSeq(buf, p + 1, Len(buf)) = SubSeq(cfg, Place + 1, read)
<1> DEFINE a == read - Len(buf)
<1>1. a \in Nat /\ a <= read /\ read - a = Len(buf) /\ Len(cfg) \in Nat /\ buf = SubSeq(cfg, a + 1, read)
      /\ cfg \in Text_ /\ read \in Nat /\ read <= Len(cfg) /\ p \in 0..Len(buf) /\ Len(buf) \in Nat
  BY DEF Window, Text_
<1>2. Place = a + p
  BY DEF Place
<1> HIDE DEF a
<1>3. Place \in Nat /\ Place <= read
  BY <1>1, <1>2
<1>4. \A i \in 1..(read - a) : SubSeq(cfg, a + 1, read)[i] = cfg[a + i]
  BY <1>1, PartIs
<1>5. SubSeq(SubSeq(cfg, a + 1, read), p + 1, Len(buf)) = SubSeq(cfg, a + p + 1, a + Len(buf))
  BY <1>1, PartOfPart
<1>6. a + Len(buf) = read /\ a + p + 1 = Place + 1
  BY <1>1, <1>2
<1>7. SubSeq(buf, p + 1, Len(buf)) = SubSeq(cfg, Place + 1, read)
  BY <1>1, <1>5, <1>6
<1>8. \A i \in 1..Len(buf) : buf[i] = cfg[a + i]
  BY <1>1, <1>4
<1> QED BY <1>1, <1>3, <1>7, <1>8 DEF a

\* Line feeds and carriage returns stand at the ends of lines only.
LEMMA Feeds ==
  ASSUME NEW f \in Text_, WellFormed(f), NEW k \in 0..Lines(f), k < Lines(f), NEW w \in Nat,
         LineEnd(f, k) <= w, w < LineEnd(f, k + 1)
  PROVE  LET e == LineEnd(f, k + 1) IN
         /\ e \in 1..Len(f) /\ f[e] = "\n"
         /\ \A i \in (w + 1)..(e - 1) : f[i] # "\n" /\ (f[i] = "\r" => i = e - 1)
<1> DEFINE e == LineEnd(f, k + 1)
<1>1. /\ e \in LineEnds(f) /\ LineEnds(f) \subseteq 1..Len(f) /\ Len(f) \in Nat /\ DOMAIN f = 1..Len(f)
      /\ LineEnd(f, k) \in Nat /\ \A i \in LineEnds(f) : i <= LineEnd(f, k) \/ i >= e
  BY EndsInOrder, EndIs, EndType, EndsAre
<1>2. f # <<>> => f[Len(f)] = "\n"
  BY DEF WellFormed, Last
<1>3. \A i \in DOMAIN f : f[i] = "\r" => i < Len(f) /\ f[i + 1] = "\n"
  BY DEF WellFormed
<1> HIDE DEF e
<1>4. e \in 1..Len(f)
  BY <1>1
<1>5. f[e] = "\n"
  BY <1>1, <1>2, <1>4 DEF LineEnds
<1>6. ASSUME NEW i \in (w + 1)..(e - 1) PROVE f[i] # "\n" /\ (f[i] = "\r" => i = e - 1)
  <2>1. i \in 1..Len(f) /\ ~ (i <= LineEnd(f, k)) /\ ~ (i >= e)
    BY <1>1, <1>4
  <2>2. f[i] # "\n"
    BY <1>1, <2>1 DEF LineEnds
  <2>3. ASSUME f[i] = "\r" PROVE i = e - 1
    <3>0. i < Len(f) /\ f[i + 1] = "\n"
      BY <1>1, <1>3, <2>1, <2>3
    <3>1. i + 1 \in 1..Len(f) /\ f[i + 1] = "\n"
      BY <1>1, <2>1, <3>0
    <3>2. i + 1 \in LineEnds(f)
      BY <1>1, <3>1 DEF LineEnds
    <3>3. i + 1 <= LineEnd(f, k) \/ i + 1 >= e
      BY <1>1, <3>2
    <3> QED BY <1>1, <1>4, <2>1, <3>3
  <2> QED BY <2>2, <2>3
<1> QED BY <1>4, <1>5, <1>6 DEF e

\* It takes what is left of the line, or of the buffer if the line goes on after it.
LEMMA GetlineIs ==
  ASSUME Window, WellFormed(cfg), p < Len(buf), NEW k, Within(k)
  PROVE  LET e == LineEnd(cfg, k + 1)
             to == IF e <= read THEN e ELSE read
         IN  /\ k + 1 \in 1..Lines(cfg) /\ e \in Nat /\ to \in Nat /\ Place < to /\ to <= Len(cfg)
             /\ getline = SubSeq(cfg, Place + 1, to) /\ Len(getline) = to - Place
             /\ (Complete <=> e <= read)
<1> DEFINE e == LineEnd(cfg, k + 1)
           w == Place
           rest == SubSeq(buf, p + 1, Len(buf))
           text == Before(rest, {"\r", "\n"})
           t == Len(text)
           at(i, c) == i <= Len(rest) /\ rest[i] = c
           cr == IF at(t + 1, "\r") THEN 1 ELSE 0
           lf == IF at(t + cr + 1, "\n") THEN 1 ELSE 0
           to == IF e <= read THEN e ELSE read
<1>1. w \in Nat /\ w < read /\ read \in Nat /\ read <= Len(cfg) /\ Len(cfg) \in Nat /\ cfg \in Text_
      /\ Len(buf) \in Nat /\ w = (read - Len(buf)) + p /\ p \in 0..Len(buf)
  BY WindowIs DEF Window, Place
<1>2. k \in 0..Lines(cfg) /\ k < Lines(cfg)
  <2>1. k \in 0..Lines(cfg) /\ LineEnd(cfg, k) <= w /\ Lines(cfg) \in Nat /\ LineEnd(cfg, Lines(cfg)) = Len(cfg)
    BY <1>1, EndsAre, LastEnd DEF Within
  <2>2. k # Lines(cfg)
    BY <1>1, <2>1
  <2> QED BY <2>1, <2>2
<1>3. LineEnd(cfg, k) <= w /\ w < e /\ k + 1 \in 1..Lines(cfg)
  BY <1>2, EndsInOrder, <1>1 DEF Within
<1>4. e \in 1..Len(cfg) /\ cfg[e] = "\n" /\ \A i \in (w + 1)..(e - 1) : cfg[i] # "\n" /\ (cfg[i] = "\r" => i = e - 1)
  BY <1>1, <1>2, <1>3, Feeds
<1>5. rest = SubSeq(cfg, w + 1, read) /\ \A i \in 1..Len(buf) : buf[i] = cfg[(read - Len(buf)) + i]
  BY WindowIs
<1>6. getline = SubSeq(rest, 1, t + cr + lf)
  BY DEF getline
<1> HIDE DEF e, w
<1>7. /\ rest \in Text_ /\ Len(rest) = read - w /\ \A i \in 1..(read - w) : rest[i] = cfg[w + i]
  <2> DEFINE r == SubSeq(cfg, w + 1, read)
  <2>1. w <= read
    BY <1>1
  <2>2. r \in Text_ /\ Len(r) = read - w /\ \A i \in 1..(read - w) : r[i] = cfg[w + i]
    BY <1>1, <2>1, PartIs
  <2>3. rest = r
    BY <1>5
  <2> HIDE DEF r, rest
  <2> QED BY <2>2, <2>3
<1> HIDE DEF rest
<1>8. /\ text \in Text_ /\ t \in Nat /\ t <= read - w
      /\ (\A i \in 1..Len(rest) : rest[i] \notin {"\r", "\n"}) => t = Len(rest)
      /\ \A n \in 1..Len(rest) : rest[n] \in {"\r", "\n"} /\ (\A i \in 1..(n - 1) : rest[i] \notin {"\r", "\n"}) => t = n - 1
  BY <1>7, BeforeIs DEF Text_
<1> HIDE DEF text, t
<1>9. t + cr + lf = to - w
  <2>1. CASE e <= read /\ e - 1 > w /\ cfg[e - 1] = "\r"
    <3> DEFINE n == (e - 1) - w
    <3>1. n \in 1..(read - w) /\ w + n = e - 1 /\ n + 1 \in 1..(read - w) /\ w + (n + 1) = e
      BY <1>1, <1>4, <2>1
    <3>2. rest[n] = "\r" /\ rest[n + 1] = "\n"
      BY <1>4, <1>7, <2>1, <3>1
    <3>3. ASSUME NEW i \in 1..(n - 1) PROVE rest[i] \notin {"\r", "\n"}
      <4>1. w + i \in (w + 1)..(e - 1) /\ w + i # e - 1 /\ i \in 1..(read - w)
        BY <1>1, <1>4, <3>1
      <4> QED BY <1>4, <1>7, <4>1
    <3>4. t = n - 1
      BY <1>7, <1>8, <3>1, <3>2, <3>3
    <3> HIDE DEF n
    <3>5. n \in Nat /\ t + 1 = n /\ n <= Len(rest) /\ n + 1 <= Len(rest)
      BY <1>1, <1>7, <3>1, <3>4
    <3>6. cr = 1 /\ lf = 1
      BY <3>2, <3>5
    <3>7. to = e /\ e - w = n + 1
      BY <1>1, <1>4, <2>1, <3>1
    <3> QED BY <3>5, <3>6, <3>7
  <2>2. CASE e <= read /\ ~ (e - 1 > w /\ cfg[e - 1] = "\r")
    <3> DEFINE n == e - w
    <3>1. n \in 1..(read - w) /\ w + n = e
      BY <1>1, <1>3, <1>4, <2>2
    <3>2. rest[n] = "\n"
      BY <1>4, <1>7, <3>1
    <3>3. ASSUME NEW i \in 1..(n - 1) PROVE rest[i] \notin {"\r", "\n"}
      <4>1. w + i \in (w + 1)..(e - 1) /\ i \in 1..(read - w)
        BY <1>1, <1>4, <3>1
      <4>2. rest[i] = cfg[w + i]
        BY <1>7, <4>1
      <4>3. cfg[w + i] # "\r"
        BY <1>1, <1>4, <2>2, <4>1
      <4> QED BY <1>4, <4>1, <4>2, <4>3
    <3>4. t = n - 1
      BY <1>7, <1>8, <3>1, <3>2, <3>3
    <3> HIDE DEF n
    <3>5. n \in Nat /\ t + 1 = n /\ n <= Len(rest)
      BY <1>1, <1>7, <3>1, <3>4
    <3>6. cr = 0
      BY <3>2, <3>5
    <3> HIDE DEF cr
    <3>7. t + cr + 1 = n
      BY <1>8, <3>5, <3>6
    <3>8. lf = 1
      BY <3>2, <3>5, <3>7
    <3>9. to = e /\ e - w = n
      BY <1>1, <1>4, <2>2, <3>1
    <3> HIDE DEF lf, to
    <3> QED BY <3>7, <3>8, <3>9
  <2>3. CASE ~ (e <= read) /\ cfg[read] = "\r"
    <3> DEFINE n == read - w
    <3>1. n \in 1..(read - w) /\ w + n = read /\ read \in (w + 1)..(e - 1)
      BY <1>1, <1>4, <2>3
    <3>2. rest[n] = "\r" /\ read = e - 1
      BY <1>4, <1>7, <2>3, <3>1
    <3>3. ASSUME NEW i \in 1..(n - 1) PROVE rest[i] \notin {"\r", "\n"}
      <4>1. w + i \in (w + 1)..(e - 1) /\ w + i # e - 1 /\ i \in 1..(read - w)
        BY <1>1, <1>4, <3>1, <3>2
      <4> QED BY <1>4, <1>7, <4>1
    <3>4. t = n - 1
      BY <1>7, <1>8, <3>1, <3>2, <3>3
    <3>5. n \in Nat /\ t + 1 = n /\ n = Len(rest)
      BY <1>1, <1>7, <3>1, <3>4
    <3> HIDE DEF n
    <3>6. cr = 1
      BY <3>2, <3>5
    <3>7. lf = 0
      BY <3>5, <3>6
    <3>8. to = read /\ read - w = n
      BY <2>3 DEF n
    <3> QED BY <3>5, <3>6, <3>7, <3>8
  <2>4. CASE ~ (e <= read) /\ cfg[read] # "\r"
    <3>1. ASSUME NEW i \in 1..Len(rest) PROVE rest[i] \notin {"\r", "\n"}
      <4>1. w + i \in (w + 1)..(e - 1) /\ i \in 1..(read - w) /\ (w + i = e - 1 => w + i = read)
        <5>1. Len(rest) = read - w /\ read < e
          BY <1>1, <1>4, <1>7, <2>4
        <5> QED BY <1>1, <1>4, <5>1
      <4>2. cfg[w + i] # "\r" /\ cfg[w + i] # "\n" /\ rest[i] = cfg[w + i]
        BY <1>4, <1>7, <2>4, <4>1
      <4> QED BY <4>2
    <3>2. t = Len(rest)
      BY <1>8, <3>1
    <3>3. cr = 0
      BY <1>8, <3>2
    <3>4. lf = 0
      BY <1>8, <3>2, <3>3
    <3>5. to = read
      BY <2>4
    <3> QED BY <1>7, <1>8, <3>2, <3>3, <3>4, <3>5
  <2> QED BY <2>1, <2>2, <2>3, <2>4
<1> HIDE DEF cr, lf
<1>10. to \in Nat /\ w < to /\ to <= read /\ e \in Nat
  BY <1>1, <1>3, <1>4
<1> HIDE DEF to
<1>11. getline = SubSeq(cfg, w + 1, to) /\ Len(getline) = to - w
  <2> DEFINE n == to - w
  <2>1. n \in Nat /\ n <= read - w /\ w + n = to /\ w <= read /\ w <= to /\ to <= Len(cfg)
    BY <1>1, <1>10
  <2> HIDE DEF n
  <2>2. SubSeq(SubSeq(cfg, w + 1, read), 0 + 1, n) = SubSeq(cfg, w + 0 + 1, w + n)
    BY <1>1, <2>1, PartOfPart
  <2>3. SubSeq(rest, 1, n) = SubSeq(cfg, w + 1, to)
    BY <1>1, <1>5, <2>1, <2>2
  <2>4. Len(SubSeq(cfg, w + 1, to)) = to - w
    BY <1>1, <1>10, <2>1, PartIs
  <2> QED BY <1>6, <1>9, <2>3, <2>4 DEF n
<1>12. Complete <=> e <= read
  <2>1. Last(buf) = cfg[read]
    <3>1. Len(buf) \in 1..Len(buf) /\ (read - Len(buf)) + Len(buf) = read
      BY <1>1
    <3> QED BY <1>5, <3>1 DEF Last
  <2>2. Complete <=> (p + (to - w) < Len(buf) \/ cfg[read] = "\n")
    BY <1>11, <2>1 DEF Complete
  <2>3. p + (to - w) < Len(buf) <=> to < read
    BY <1>1, <1>10
  <2>4. CASE e <= read
    <3>1. to = e /\ (e = read => cfg[read] = "\n")
      BY <1>4, <2>4 DEF to
    <3>2. e < read \/ e = read
      BY <1>1, <1>10, <2>4
    <3> QED BY <2>2, <2>3, <2>4, <3>1, <3>2
  <2>5. CASE ~ (e <= read)
    <3>1. to = read /\ read \in (w + 1)..(e - 1)
      BY <1>1, <1>10, <2>5 DEF to
    <3>2. cfg[read] # "\n"
      BY <1>4, <3>1
    <3> QED BY <1>1, <2>2, <2>3, <2>5, <3>1, <3>2
  <2> QED BY <2>4, <2>5
<1>13. to <= Len(cfg)
  BY <1>1, <1>10
<1> QED BY <1>3, <1>10, <1>11, <1>12, <1>13 DEF e, w, to

\* It takes no more than there is in the buffer.
LEMMA GetlineFits ==
  ASSUME buf \in Text_, p \in 0..Len(buf) PROVE getline \in Text_ /\ Len(getline) \in Nat /\ Len(getline) <= Len(buf) - p
<1> DEFINE rest == SubSeq(buf, p + 1, Len(buf))
           text == Before(rest, {"\r", "\n"})
           t == Len(text)
           at(i, c) == i <= Len(rest) /\ rest[i] = c
           cr == IF at(t + 1, "\r") THEN 1 ELSE 0
           lf == IF at(t + cr + 1, "\n") THEN 1 ELSE 0
           n == t + cr + lf
<1>1. getline = SubSeq(rest, 1, n)
  BY DEF getline
<1>2. rest \in Text_ /\ Len(rest) = Len(buf) - p /\ Len(rest) \in Nat
  <2>1. Len(buf) \in Nat /\ p \in Nat /\ p <= Len(buf)
    BY DEF Text_
  <2>2. rest \in Text_ /\ Len(rest) = Len(buf) - p
    BY <2>1, PartIs
  <2> QED BY <2>1, <2>2
<1> HIDE DEF rest
<1>3. t \in Nat /\ t <= Len(rest)
  BY <1>2, BeforeIs DEF Text_
<1> HIDE DEF t
<1>4. cr \in {0, 1} /\ t + cr <= Len(rest) /\ lf \in {0, 1} /\ (lf = 1 => t + cr + 1 <= Len(rest))
  BY <1>2, <1>3
<1> HIDE DEF cr, lf
<1>5. n \in Nat /\ n <= Len(rest)
  BY <1>2, <1>3, <1>4
<1> HIDE DEF n
<1>6. SubSeq(rest, 1, n) \in Text_ /\ Len(SubSeq(rest, 1, n)) = n
  BY <1>2, <1>5, BeginIs
<1> QED BY <1>1, <1>2, <1>5, <1>6

-------------------------------------------------------------------------------
(* Types.                                                                      *)

TypeInv == TypeOK /\ (ret = "idle" => read = 0)

\* The line taken so far, and what it adds to str.
LEMMA WholeIs ==
  ASSUME TypeOK PROVE Whole \in Text_ /\ Len(Whole) = Len(s) + Len(getline) /\ Text \in Text_
<1>1. buf \in Text_ /\ p \in 0..Len(buf) /\ s \in Text_
  BY DEF TypeOK, Text_
<1>2. getline \in Text_
  BY <1>1, GetlineFits
<1>3. Whole \in Text_ /\ Len(Whole) = Len(s) + Len(getline)
  BY <1>1, <1>2, ConcatProperties DEF Whole, Text_
<1>4. Text \in Text_
  BY <1>3, OwnText DEF Text
<1> QED BY <1>3, <1>4

LEMMA TakingIs ==
  ASSUME TypeOK, Taking
  PROVE  /\ p' \in 0..Len(buf) /\ Whole \in Text_ /\ Len(Whole) <= BUFSIZE /\ Text \in Text_
         /\ str \o Text \in Text_ /\ (Complete => Len(str \o Text) <= BUFSIZE)
<1>1. buf \in Text_ /\ p \in 0..Len(buf) /\ str \in Text_ /\ Len(buf) \in Nat
  BY DEF TypeOK, Text_
<1>2. getline \in Text_ /\ Len(getline) \in Nat /\ Len(getline) <= Len(buf) - p
  BY <1>1, GetlineFits
<1>3. Whole \in Text_ /\ Text \in Text_ /\ Len(Whole) \in Nat
  BY WholeIs DEF Text_
<1>4. str \o Text \in Text_ /\ Len(str \o Text) = Len(str) + Len(Text) /\ Len(str) \in Nat /\ Len(Text) \in Nat
  BY <1>1, <1>3, ConcatProperties DEF Text_
<1>5. p' \in 0..Len(buf)
  BY <1>1, <1>2 DEF Taking
<1>6. Len(Whole) <= BUFSIZE /\ (Complete => Len(str) + Len(Text) <= BUFSIZE)
  BY <1>3, <1>4, ConstantsAssumption DEF Taking, TooLong
<1> QED BY <1>3, <1>4, <1>5, <1>6

\* The part of the file that is read next.
Upto == IF read + BUFSIZE <= Len(cfg) THEN read + BUFSIZE ELSE Len(cfg)
LEMMA ChunkIs ==
  ASSUME cfg \in Text_, read \in 0..Len(cfg)
  PROVE  /\ Upto \in Nat /\ read <= Upto /\ Upto <= Len(cfg) /\ Upto - read <= BUFSIZE
         /\ SubSeq(cfg, read + 1, Upto) \in Text_ /\ Len(SubSeq(cfg, read + 1, Upto)) = Upto - read
<1>1. Len(cfg) \in Nat /\ BUFSIZE \in Nat
  BY ConstantsAssumption DEF Text_
<1>2. Upto \in Nat /\ read <= Upto /\ Upto <= Len(cfg) /\ Upto - read <= BUFSIZE
  BY <1>1 DEF Upto
<1>3. read \in Nat
  BY <1>1
<1> QED BY <1>2, <1>3, PartIs

LEMMA TypeStep == ASSUME TypeInv, Next PROVE TypeInv'
<1> USE DEF TypeInv
<1>0. /\ cfg \in Text_ /\ read \in 0..Len(cfg) /\ buf \in Text_ /\ Len(buf) <= BUFSIZE /\ p \in 0..Len(buf)
      /\ s \in Text_ /\ Len(s) <= BUFSIZE /\ str \in Text_ /\ Len(str) <= BUFSIZE
      /\ out \in Seq(Text_) /\ stale \in BOOLEAN /\ ret \in {"idle", "busy", "ok", "refused", "error", "panic", "overrun"}
  BY DEF TypeOK, Text_
<1>1. CASE ret = "idle" /\ \E f \in Files : Start(f)
  <2>1. PICK f \in Files : Start(f)
    BY <1>1
  <2>2. f \in Text_ /\ Len(f) \in Nat
    BY ConstantsAssumption DEF Text_
  <2>3. cfg' \in Text_ /\ read' \in 0..Len(cfg') /\ ret' = "busy"
    BY <1>1, <2>1, <2>2 DEF Start
  <2> QED BY <1>0, <2>1, <2>3 DEF Start, TypeOK, Text_
<1>2. CASE Return
  <2>1. <<>> \in Text_ /\ Len(<<>>) = 0 /\ <<>> \in Seq(Text_) /\ BUFSIZE \in Nat
    BY ConstantsAssumption DEF Text_
  <2>2. cfg' = <<>> /\ read' = 0 /\ buf' = <<>> /\ p' = 0 /\ out' = <<>> /\ ret' = "idle" /\ s' = s /\ str' = str /\ stale' \in BOOLEAN
    BY <1>2 DEF Return
  <2>3. cfg' \in Text_ /\ read' \in 0..Len(cfg') /\ buf' \in Text_ /\ Len(buf') <= BUFSIZE /\ p' \in 0..Len(buf') /\ out' \in Seq(Text_)
    BY <2>1, <2>2
  <2> QED BY <1>0, <2>2, <2>3 DEF TypeOK, Text_
<1>3. CASE ReadChunk
  <2>1. CASE buf' = SubSeq(cfg, read + 1, Upto) /\ read' = read + Len(buf') /\ p' = 0 /\ UNCHANGED <<ret, cfg, s, str, out, stale>> /\ ret = "busy"
    <3>1. Upto \in Nat /\ read <= Upto /\ Upto <= Len(cfg) /\ Upto - read <= BUFSIZE /\ buf' \in Text_ /\ Len(buf') = Upto - read
      BY <1>0, <2>1, ChunkIs
    <3>2. read' \in 0..Len(cfg) /\ Len(buf') <= BUFSIZE /\ p' \in 0..Len(buf')
      BY <1>0, <2>1, <3>1
    <3> QED BY <1>0, <2>1, <3>1, <3>2 DEF TypeOK, Text_
  <2>2. CASE ret' = "error" /\ UNCHANGED <<cfg, read, buf, p, s, str, out, stale>>
    BY <1>0, <2>2 DEF TypeOK, Text_
  <2> QED BY <1>3, <2>1, <2>2 DEF ReadChunk, Upto, Busy
<1>4. CASE Finish
  BY <1>0, <1>4 DEF Finish, TypeOK, Text_
<1>5. CASE KeepPiece
  <2>1. p' \in 0..Len(buf) /\ Whole \in Text_ /\ Len(Whole) <= BUFSIZE
    BY <1>5, TakingIs DEF KeepPiece
  <2> QED BY <1>0, <1>5, <2>1 DEF KeepPiece, TypeOK, Text_, Taking, Busy
<1>6. CASE KeepContinued
  <2>1. p' \in 0..Len(buf) /\ str \o Text \in Text_ /\ Len(str \o Text) <= BUFSIZE
    BY <1>6, TakingIs DEF KeepContinued
  <2>2. <<>> \in Text_ /\ Len(<<>>) <= BUFSIZE
    BY ConstantsAssumption DEF Text_
  <2> QED BY <1>0, <1>6, <2>1, <2>2 DEF KeepContinued, TypeOK, Text_, Taking, Busy
<1>7. CASE HandOn
  <2>1. p' \in 0..Len(buf) /\ str \o Text \in Text_
    BY <1>7, TakingIs DEF HandOn
  <2>2. <<>> \in Text_ /\ Len(<<>>) <= BUFSIZE
    BY ConstantsAssumption DEF Text_
  <2>3. out' \in Seq(Text_)
    <3>1. out' = Append(out, str \o Text)
      BY <1>7 DEF HandOn
    <3> DEFINE l == str \o Text
    <3>2. l \in Text_
      BY <2>1
    <3> HIDE DEF l
    <3>3. Append(out, l) \in Seq(Text_)
      BY <1>0, <3>2
    <3> QED BY <3>1, <3>3 DEF l
  <2>4. ret' \in {"busy", "refused"} /\ s' = <<>> /\ str' = <<>> /\ UNCHANGED <<cfg, read, buf, stale>>
    BY <1>7 DEF HandOn, Taking, Busy
  <2> QED BY <1>0, <2>1, <2>2, <2>3, <2>4 DEF TypeOK, Text_
<1>8. CASE Panic \/ Overrun
  BY <1>0, <1>8 DEF Panic, Overrun, TypeOK, Text_
<1> QED BY <1>1, <1>2, <1>3, <1>4, <1>5, <1>6, <1>7, <1>8 DEF Next, Step

LEMMA TypeAlways == Spec => []TypeInv
<1>1. Init => TypeInv
  <2>1. /\ <<>> \in Seq(STRING) /\ <<>> \in Seq(Seq(STRING)) /\ Len(<<>>) = 0
        /\ 0 \in 0..0 /\ BUFSIZE \in Nat /\ 0 <= BUFSIZE
    BY ConstantsAssumption
  <2> QED BY <2>1 DEF Init, TypeInv, TypeOK
<1>2. TypeInv /\ [Next]_vars => TypeInv'
  <2>1. ASSUME TypeInv, UNCHANGED vars PROVE TypeInv'
    BY <2>1 DEF TypeInv, TypeOK, vars
  <2> QED BY <2>1, TypeStep
<1> QED BY <1>1, <1>2, PTL DEF Spec

\* The buffer, s and str are never given more characters than they have room for, whatever
\* the file, and the place in the file is within it (process_cfg, cfgparse.c).  The zero
\* that ends s or str does not count here: behind a full array it is written outside (Overrun).
THEOREM Typed == Spec => []TypeOK
<1>1. TypeInv => TypeOK
  BY DEF TypeInv
<1> QED BY <1>1, TypeAlways, PTL

-------------------------------------------------------------------------------
(* The logical lines of the file, and how far they have been handed on.       *)

Partial == [done : Seq(Text_), open : Text_]

LEMMA JoinIs ==
  ASSUME NEW a \in Partial, NEW l \in Text_
  PROVE  /\ Join(a, l) \in Partial /\ a.done \in Seq(Text_) /\ a.open \in Text_
         /\ Continued(l) => Join(a, l).done = a.done /\ Join(a, l).open = a.open \o Front(l)
         /\ ~ Continued(l) => Join(a, l).done = Append(a.done, a.open \o l) /\ Join(a, l).open = <<>>
<1>1. a.done \in Seq(Text_) /\ a.open \in Text_ /\ a = [done |-> a.done, open |-> a.open]
  BY DEF Partial
<1>2. CASE Continued(l)
  <2> DEFINE o == a.open \o Front(l)
  <2>1. o \in Text_
    <3>1. Front(l) \in Text_
      BY <1>2, FrontIs DEF Continued
    <3> QED BY <1>1, <3>1, ConcatProperties DEF Text_
  <2>2. Join(a, l) = [a EXCEPT !.open = o]
    BY <1>2 DEF Join
  <2> HIDE DEF o
  <2>3. [a EXCEPT !.open = o] = [done |-> a.done, open |-> o]
    BY <1>1
  <2>4. Join(a, l).done = a.done /\ Join(a, l).open = o /\ Join(a, l) \in Partial
    BY <1>1, <2>1, <2>2, <2>3 DEF Partial
  <2> QED BY <1>1, <1>2, <2>4 DEF o
<1>3. CASE ~ Continued(l)
  <2> DEFINE m == a.open \o l
             d == Append(a.done, m)
  <2>1. m \in Text_
    BY <1>1, ConcatProperties DEF Text_
  <2>2. Join(a, l) = [done |-> d, open |-> <<>>]
    BY <1>3 DEF Join
  <2> HIDE DEF m
  <2>3. d \in Seq(Text_) /\ <<>> \in Text_
    BY <1>1, <2>1 DEF Text_
  <2> HIDE DEF d
  <2>4. Join(a, l).done = d /\ Join(a, l).open = <<>> /\ Join(a, l) \in Partial
    BY <2>2, <2>3 DEF Partial
  <2> QED BY <1>1, <1>3, <2>4 DEF d, m
<1> QED BY <1>2, <1>3

LEMMA JoinedType ==
  ASSUME NEW f \in Text_ PROVE \A k \in 0..Lines(f) : Joined(f)[k] \in Partial
<1> DEFINE T == {k \in Nat : Joined(f)[k] \in Partial}
<1>0. Lines(f) \in Nat
  BY EndsAre
<1>1. 0 \in T
  <2>1. <<>> \in Text_ /\ <<>> \in Seq(Text_)
    BY DEF Text_
  <2>2. None_ \in Partial
    BY <2>1 DEF None_, Partial
  <2> QED BY <2>2, JoinedIs
<1>2. ASSUME NEW k \in T, k < Lines(f) PROVE k + 1 \in T
  <2>1. k + 1 \in 1..Lines(f) /\ (k + 1) - 1 = k /\ k + 1 \in Nat
    BY <1>0, <1>2
  <2>2. Clean(PhysicalLines(f)[k + 1]) \in Text_
    BY <2>1, LineIs, CleanIs
  <2>3. Joined(f)[k + 1] = Join(Joined(f)[k], Clean(PhysicalLines(f)[k + 1]))
    BY <2>1, JoinedIs
  <2>4. Joined(f)[k + 1] \in Partial
    BY <2>2, <2>3, JoinIs
  <2> QED BY <2>1, <2>4
<1>3. T \in SUBSET Nat /\ \A k \in T : k \in Nat /\ Joined(f)[k] \in Partial
  OBVIOUS
<1> HIDE DEF T
<1>4. \A k \in T : k < Lines(f) => k + 1 \in T
  BY <1>2
<1>5. \A k \in 0..Lines(f) : k \in T
  BY <1>0, <1>1, <1>3, <1>4, Induction
<1> QED BY <1>3, <1>5

LEMMA NextJoined ==
  ASSUME NEW f \in Text_, NEW k \in 0..Lines(f), k < Lines(f), NEW l, l = Clean(PhysicalLines(f)[k + 1])
  PROVE  /\ l \in Text_ /\ Joined(f)[k].done \in Seq(Text_) /\ Joined(f)[k].open \in Text_
         /\ Continued(l) => Joined(f)[k + 1].done = Joined(f)[k].done /\ Joined(f)[k + 1].open = Joined(f)[k].open \o Front(l)
         /\ ~ Continued(l) => Joined(f)[k + 1].done = Append(Joined(f)[k].done, Joined(f)[k].open \o l)
                              /\ Joined(f)[k + 1].open = <<>>
<1>1. k + 1 \in 1..Lines(f) /\ (k + 1) - 1 = k
  BY EndsAre
<1>2. l \in Text_
  BY <1>1, LineIs, CleanIs
<1>3. Joined(f)[k + 1] = Join(Joined(f)[k], l)
  BY <1>1, JoinedIs
<1> DEFINE a == Joined(f)[k]
<1>4. a \in Partial
  BY JoinedType
<1> HIDE DEF a
<1>5. /\ a.done \in Seq(Text_) /\ a.open \in Text_
      /\ Continued(l) => Join(a, l).done = a.done /\ Join(a, l).open = a.open \o Front(l)
      /\ ~ Continued(l) => Join(a, l).done = Append(a.done, a.open \o l) /\ Join(a, l).open = <<>>
  BY <1>2, <1>4, JoinIs
<1>6. Joined(f)[k + 1] = Join(a, l)
  BY <1>3 DEF a
<1> QED BY <1>2, <1>5, <1>6, Zenon DEF a

\* What has been handed on is the begin of what will have been.
Begins(x, y) == Len(x) <= Len(y) /\ \A i \in 1..Len(x) : x[i] = y[i]

LEMMA DoneBegins ==
  ASSUME NEW f \in Text_, NEW k \in 0..Lines(f) PROVE Begins(Joined(f)[k].done, Joined(f)[Lines(f)].done)
<1> DEFINE D(n) == Joined(f)[n].done
           N == Lines(f)
           T == {n \in Nat : n <= N => Begins(D(N - n), D(N))}
<1>0. N \in Nat
  BY EndsAre
<1>1. ASSUME NEW n \in 0..N PROVE D(n) \in Seq(Text_) /\ Len(D(n)) \in Nat
  <2>1. Joined(f)[n] \in Partial
    BY <1>1, JoinedType
  <2>2. Joined(f)[n].done \in Seq(Text_)
    BY <2>1 DEF Partial
  <2> QED BY <2>2
<1>2. ASSUME NEW n \in 0..N, n < N PROVE Begins(D(n), D(n + 1))
  <2> DEFINE l == Clean(PhysicalLines(f)[n + 1])
             x == D(n)
             m == Joined(f)[n].open \o l
  <2>1. l \in Text_ /\ x \in Seq(Text_) /\ Joined(f)[n].open \in Text_
    BY <1>2, NextJoined
  <2>2. D(n + 1) = x \/ D(n + 1) = Append(x, m)
    BY <1>2, NextJoined
  <2>3. m \in Text_
    BY <2>1, ConcatProperties DEF Text_
  <2> HIDE DEF m, x
  <2>4. Begins(x, x) /\ Begins(x, Append(x, m))
    BY <2>1, <2>3 DEF Begins
  <2> QED BY <2>2, <2>4 DEF x
<1> HIDE DEF D, N
<1>3. 0 \in T
  <2>1. N - 0 = N /\ N \in 0..N
    BY <1>0
  <2>2. Begins(D(N), D(N))
    BY <1>1, <2>1 DEF Begins
  <2> QED BY <2>1, <2>2
<1>4. ASSUME NEW n \in T, n < N PROVE n + 1 \in T
  <2> DEFINE m == N - (n + 1)
  <2>1. m \in 0..N /\ m < N /\ m + 1 = N - n /\ n + 1 \in Nat /\ m + 1 \in 0..N /\ N \in 0..N
    BY <1>0, <1>4
  <2>2. Begins(D(N - n), D(N))
    BY <1>4, <1>0
  <2> HIDE DEF m
  <2>3. Begins(D(m), D(m + 1)) /\ Begins(D(m + 1), D(N))
    BY <1>2, <2>1, <2>2
  <2>4. Len(D(m)) \in Nat /\ Len(D(m + 1)) \in Nat /\ Len(D(N)) \in Nat
    BY <1>1, <2>1
  <2>5. Begins(D(m), D(N))
    BY <2>3, <2>4 DEF Begins
  <2> QED BY <2>1, <2>5 DEF m
<1>5. T \in SUBSET Nat /\ \A n \in T : n <= N => Begins(D(N - n), D(N))
  OBVIOUS
<1> HIDE DEF T
<1>6. \A n \in T : n < N => n + 1 \in T
  BY <1>4
<1>7. \A n \in 0..N : n \in T
  BY <1>0, <1>3, <1>5, <1>6, Induction
<1>8. N - k \in 0..N /\ N - (N - k) = k /\ N - k <= N
  BY <1>0 DEF N
<1>9. Begins(D(k), D(N))
  BY <1>5, <1>7, <1>8
<1> QED BY <1>9 DEF D, N

\* The last line of a well-formed file is not continued.
LEMMA AllAre ==
  ASSUME NEW f \in Text_, WellFormed(f)
  PROVE  Joined(f)[Lines(f)].open = <<>> /\ LogicalLines(f) = Joined(f)[Lines(f)].done
<1> DEFINE N == Lines(f)
<1>0. N \in Nat
  BY EndsAre
<1>1. CASE N = 0
  BY <1>1, JoinedIs DEF None_
<1>2. CASE N # 0
  <2>1. N \in 1..N /\ N - 1 \in 0..N /\ N - 1 < N /\ (N - 1) + 1 = N
    BY <1>0, <1>2
  <2>2. Len(PhysicalLines(f)) = N
    BY <1>0, LinesAre
  <2> HIDE DEF N
  <2>3. PhysicalLines(f) # <<>> /\ Last(PhysicalLines(f)) = PhysicalLines(f)[N]
    BY <1>2, <2>2 DEF Last
  <2>4. ~ Continued(Clean(PhysicalLines(f)[N]))
    BY <2>3 DEF WellFormed
  <2>5. Joined(f)[N].open = <<>>
    BY <2>1, <2>4, NextJoined DEF N
  <2> QED BY <2>5, JoinedIs DEF N
<1> QED BY <1>1, <1>2

-------------------------------------------------------------------------------
(* Each state is at a place of the file.                                      *)

AllWellFormed == \A f \in Files : WellFormed(f)

\* The lines that end before the place are handed on or in str, the begin of the
\* line it is in, in s.
At(k) ==
  /\ Within(k)
  /\ out = Joined(cfg)[k].done
  /\ str = Joined(cfg)[k].open
  /\ s = SubSeq(cfg, LineEnd(cfg, k) + 1, Place)

Follows ==
  /\ Window
  /\ cfg \in Files \cup {<<>>}
  /\ ret = "idle" => cfg = <<>> /\ read = 0 /\ buf = <<>> /\ p = 0 /\ out = <<>>
  /\ ret = "ok" => p = Len(buf) /\ read = Len(cfg)
  /\ ret \in {"idle", "refused"} /\ ~ stale => s = <<>> /\ str = <<>>
  /\ ~ stale => \E k : At(k)

LEMMA EmptyIs == <<>> \in Text_ /\ WellFormed(<<>>) /\ Lines(<<>>) = 0
<1> DEFINE f == <<>>
<1>1. f \in Text_ /\ DOMAIN f = {}
  BY DEF Text_
<1>2. LineEnds(f) = {}
  BY <1>1 DEF LineEnds
<1>3. Lines(f) = 0
  BY <1>2, FS_EmptySet DEF Lines
<1>4. Len(PhysicalLines(f)) = 0 /\ PhysicalLines(f) = <<>>
  <2>1. PhysicalLines(f) = [k \in 1..0 |-> SubSeq(f, LineEnd(f, k - 1) + 1, LineEnd(f, k))]
    BY <1>1, <1>3, LinesAre
  <2> HIDE DEF f
  <2> QED BY <2>1
<1> HIDE DEF f
<1>5. f = <<>>
  BY DEF f
<1>6. WellFormed(f)
  BY <1>1, <1>4, <1>5 DEF WellFormed
<1> QED BY <1>1, <1>3, <1>6 DEF f

\* The place at the begin of a file.
LEMMA AtBegin ==
  ASSUME NEW f \in Text_
  PROVE  /\ 0 \in 0..Lines(f) /\ LineEnd(f, 0) = 0 /\ (0 < Lines(f) => 0 < LineEnd(f, 0 + 1))
         /\ Joined(f)[0].done = <<>> /\ Joined(f)[0].open = <<>> /\ SubSeq(f, 0 + 1, 0) = <<>>
<1>1. 0 \in 0..Lines(f) /\ LineEnd(f, 0) = 0
  BY EndsAre DEF LineEnd
<1>2. 0 < Lines(f) => 0 < LineEnd(f, 0 + 1)
  BY <1>1, EndsInOrder
<1>3. Joined(f)[0].done = <<>> /\ Joined(f)[0].open = <<>>
  BY JoinedIs DEF None_
<1>4. SubSeq(f, 0 + 1, 0) = <<>>
  <2>1. 0 <= Len(f) /\ 0 \in Nat
    BY EndsAre
  <2> QED BY <2>1, PartIs
<1> QED BY <1>1, <1>2, <1>3, <1>4

\* What taking a line, or a piece of it, does to the place.
LEMMA TakeIs ==
  ASSUME TypeOK, Window, WellFormed(cfg), Taking, UNCHANGED <<cfg, read, buf>>,
         NEW k, Within(k), s = SubSeq(cfg, LineEnd(cfg, k) + 1, Place)
  PROVE  /\ k \in 0..Lines(cfg) /\ k < Lines(cfg) /\ k + 1 \in 1..Lines(cfg)
         /\ Complete => Place' = LineEnd(cfg, k + 1) /\ Whole = PhysicalLines(cfg)[k + 1]
         /\ ~ Complete => /\ LineEnd(cfg, k) <= Place' /\ Place' < LineEnd(cfg, k + 1)
                          /\ Whole = SubSeq(cfg, LineEnd(cfg, k) + 1, Place')
<1> DEFINE a == LineEnd(cfg, k)
           e == LineEnd(cfg, k + 1)
           to == IF e <= read THEN e ELSE read
           w == Place
<1>1. /\ k + 1 \in 1..Lines(cfg) /\ e \in Nat /\ to \in Nat /\ w < to /\ to <= Len(cfg)
      /\ getline = SubSeq(cfg, w + 1, to) /\ Len(getline) = to - w
      /\ (Complete <=> e <= read)
  BY GetlineIs DEF Taking
<1>2. k \in 0..Lines(cfg) /\ Lines(cfg) \in Nat /\ k < Lines(cfg) /\ a <= w /\ cfg \in Text_ /\ w \in Nat
      /\ Len(buf) \in Nat /\ read \in Nat /\ p \in Nat /\ w = (read - Len(buf)) + p
  <2>1. k \in 0..Lines(cfg) /\ a <= w /\ cfg \in Text_ /\ Len(buf) \in Nat /\ read \in Nat /\ p \in 0..Len(buf)
    BY DEF Within, Window
  <2>2. Lines(cfg) \in Nat
    BY <2>1, EndsAre
  <2>3. k < Lines(cfg)
    BY <1>1, <2>1, <2>2
  <2>4. w \in Nat /\ p \in Nat
    BY <2>1, WindowIs
  <2> QED BY <2>1, <2>2, <2>3, <2>4 DEF Place
<1>3. a \in Nat
  <2>1. a \in 0..Len(cfg)
    BY <1>2, EndType
  <2> QED BY <2>1
<1>4. Place' = w + Len(getline)
  <2>1. Place' = (read - Len(buf)) + (p + Len(getline))
    BY DEF Place, Taking
  <2> DEFINE n == Len(getline)
  <2>2. n \in Nat
    BY <1>1, <1>2
  <2> HIDE DEF n, w
  <2>3. (read - Len(buf)) + (p + n) = w + n
    BY <1>2, <2>2
  <2> QED BY <2>1, <2>3 DEF n
<1> DEFINE v == Place'
<1>5. v = to
  <2> DEFINE n == Len(getline)
  <2>1. n = to - w /\ v = w + n /\ to \in Nat /\ w \in Nat
    BY <1>1, <1>2, <1>4
  <2> HIDE DEF n, to, w, v
  <2> QED BY <2>1
<1>6. Whole = SubSeq(cfg, a + 1, w) \o SubSeq(cfg, w + 1, to)
  BY <1>1 DEF Whole
<1>7. PhysicalLines(cfg)[k + 1] = SubSeq(cfg, a + 1, e)
  <2>1. (k + 1) - 1 = k
    BY <1>2
  <2> QED BY <1>1, <1>2, <2>1, LineIs
<1> HIDE DEF a, e, w, v
<1>8. (e <= read => to = e) /\ (~ (e <= read) => to = read /\ to < e)
  BY <1>1, <1>2
<1> HIDE DEF to
<1>9. Whole = SubSeq(cfg, a + 1, to) /\ a <= to
  <2>1. cfg \in Text_ /\ a \in Nat /\ w \in Nat /\ to \in Nat /\ a <= w /\ w <= to /\ to <= Len(cfg)
    BY <1>1, <1>2, <1>3
  <2>2. SubSeq(cfg, a + 1, w) \o SubSeq(cfg, w + 1, to) = SubSeq(cfg, a + 1, to)
    BY <2>1, PartsJoin
  <2>3. a <= to
    BY <2>1
  <2> QED BY <1>6, <2>2, <2>3, Zenon
<1>10. /\ Complete => v = e /\ Whole = PhysicalLines(cfg)[k + 1]
       /\ ~ Complete => a <= v /\ v < e /\ Whole = SubSeq(cfg, a + 1, v)
  BY <1>1, <1>5, <1>7, <1>8, <1>9
<1> QED BY <1>1, <1>2, <1>10 DEF a, e, v

\* The end of the file is behind its last line.
LEMMA AtEnd ==
  ASSUME Window, WellFormed(cfg), p = Len(buf), read = Len(cfg), NEW k, At(k)
  PROVE  out = LogicalLines(cfg) /\ str = <<>> /\ s = <<>>
<1> DEFINE N == Lines(cfg)
           n == Len(cfg)
<1>1. /\ cfg \in Text_ /\ n \in Nat /\ N \in Nat /\ k \in 0..N /\ LineEnd(cfg, N) = n
      /\ (k < N => Place < LineEnd(cfg, k + 1)) /\ Len(buf) \in Nat
  BY EndsAre, LastEnd DEF Window, At, Within
<1>2. Place = n
  BY <1>1 DEF Place
<1>3. k < N => LineEnd(cfg, k + 1) <= n
  <2>1. k < N => k + 1 \in 0..N
    BY <1>1
  <2>2. k < N => LineEnd(cfg, k + 1) \in 0..n
    BY <1>1, <2>1, EndType
  <2> QED BY <1>1, <2>2
<1>4. k = N
  <2> HIDE DEF N, n
  <2>1. k < N => n < LineEnd(cfg, k + 1) /\ LineEnd(cfg, k + 1) <= n /\ LineEnd(cfg, k + 1) \in Nat
    <3>1. k < N => k + 1 \in 0..N
      BY <1>1
    <3>2. k < N => LineEnd(cfg, k + 1) \in 0..n
      BY <1>1, <3>1, EndType DEF N, n
    <3> QED BY <1>1, <1>2, <1>3, <3>2
  <2> QED BY <1>1, <2>1
<1>5. out = LogicalLines(cfg) /\ str = <<>>
  BY <1>1, <1>4, AllAre DEF At
<1>6. s = SubSeq(cfg, n + 1, n)
  BY <1>1, <1>2, <1>4 DEF At
<1>7. SubSeq(cfg, n + 1, n) = <<>>
  BY <1>1, PartIs
<1> QED BY <1>5, <1>6, <1>7

LEMMA BeginStep ==
  ASSUME cfg' \in Text_, read' = 0, buf' = <<>>, p' = 0, out' = <<>>
  PROVE  Window' /\ (s' = <<>> /\ str' = <<>> => At(0)')
<1> DEFINE f == cfg'
<1>1. /\ 0 \in 0..Lines(f) /\ LineEnd(f, 0) = 0 /\ (0 < Lines(f) => 0 < LineEnd(f, 0 + 1))
      /\ Joined(f)[0].done = <<>> /\ Joined(f)[0].open = <<>> /\ SubSeq(f, 0 + 1, 0) = <<>> /\ Len(f) \in Nat
  BY AtBegin, EndsAre
<1>2. Len(buf') = 0 /\ Place' = 0
  <2>1. Len(buf') = 0
    OBVIOUS
  <2>2. Place' = (read' - Len(buf')) + p'
    BY DEF Place
  <2>3. (0 - 0) + 0 = 0
    OBVIOUS
  <2> QED BY <2>1, <2>2, <2>3
<1>3. Window'
  <2>1. (read - Len(buf))' + 1 = 0 + 1 /\ p' \in 0..Len(buf') /\ Len(buf') <= read' /\ read' <= Len(f) /\ read' \in Nat
    BY <1>1, <1>2
  <2> QED BY <1>1, <1>2, <2>1 DEF Window
<1>4. ASSUME s' = <<>>, str' = <<>> PROVE At(0)'
  BY <1>1, <1>2, <1>4 DEF At, Within
<1> QED BY <1>3, <1>4

LEMMA SamePlace ==
  ASSUME NEW k, At(k), Place' = Place, UNCHANGED <<cfg, s, str, out>> PROVE At(k)'
BY DEF At, Within

\* The next line begins where this one ends.
LEMMA NextAt ==
  ASSUME NEW k \in 0..Lines(cfg), k + 1 \in 1..Lines(cfg), cfg \in Text_, cfg' = cfg, Place' = LineEnd(cfg, k + 1),
         out' = Joined(cfg)[k + 1].done, str' = Joined(cfg)[k + 1].open, s' = <<>>
  PROVE  At(k + 1)'
<1> DEFINE n == k + 1
<1>1. n \in 0..Lines(cfg) /\ Lines(cfg) \in Nat /\ Len(cfg) \in Nat
  BY EndsAre
<1> HIDE DEF n
<1>2. LineEnd(cfg, n) \in 0..Len(cfg)
  BY <1>1, EndType
<1>3. n < Lines(cfg) => LineEnd(cfg, n) < LineEnd(cfg, n + 1)
  BY <1>1, EndsInOrder
<1> DEFINE e == LineEnd(cfg, n)
<1>4. SubSeq(cfg, e + 1, e) = <<>> /\ e <= e
  <2>1. e \in Nat /\ e <= Len(cfg) /\ e <= e
    BY <1>1, <1>2
  <2> HIDE DEF e
  <2> QED BY <2>1, PartIs
<1>5. Place' = e /\ out' = Joined(cfg)[n].done /\ str' = Joined(cfg)[n].open
  BY DEF n
<1>6. At(n)'
  BY <1>1, <1>3, <1>4, <1>5 DEF At, Within
<1> QED BY <1>6 DEF n

LEMMA TakeStep ==
  ASSUME TypeOK, Follows, WellFormed(cfg), KeepPiece \/ KeepContinued \/ HandOn PROVE Follows'
<1>0. Window /\ cfg \in Text_ /\ Taking /\ UNCHANGED <<cfg, read, buf, stale>> /\ p' \in 0..Len(buf) /\ ret = "busy"
  <2>1. Taking /\ UNCHANGED <<cfg, read, buf, stale>>
    BY DEF KeepPiece, KeepContinued, HandOn
  <2>2. p' \in 0..Len(buf)
    BY <2>1, TakingIs
  <2> QED BY <2>1, <2>2 DEF Follows, Window, Taking, Busy
<1>1. Window'
  BY <1>0 DEF Window
<1>2. ret' \in {"busy", "refused"} /\ (ret' = "refused" => s' = <<>> /\ str' = <<>>)
  BY <1>0 DEF KeepPiece, KeepContinued, HandOn
<1>3. ASSUME ~ stale PROVE \E k : At(k)'
  <2>1. PICK k : At(k)
    BY <1>3 DEF Follows
  <2>2. /\ k \in 0..Lines(cfg) /\ k < Lines(cfg) /\ k + 1 \in 1..Lines(cfg)
        /\ Complete => Place' = LineEnd(cfg, k + 1) /\ Whole = PhysicalLines(cfg)[k + 1]
        /\ ~ Complete => /\ LineEnd(cfg, k) <= Place' /\ Place' < LineEnd(cfg, k + 1)
                         /\ Whole = SubSeq(cfg, LineEnd(cfg, k) + 1, Place')
    BY <1>0, <2>1, TakeIs DEF At
  <2>3. CASE KeepPiece
    BY <1>0, <2>1, <2>2, <2>3 DEF KeepPiece, At, Within
  <2> DEFINE l == Clean(PhysicalLines(cfg)[k + 1])
             J == Joined(cfg)
  <2>4. /\ Continued(l) => J[k + 1].done = J[k].done /\ J[k + 1].open = J[k].open \o Front(l)
        /\ ~ Continued(l) => J[k + 1].done = Append(J[k].done, J[k].open \o l) /\ J[k + 1].open = <<>>
    BY <1>0, <2>2, NextJoined
  <2>5. Complete => Clean(Whole) = l /\ Text = IF Continued(l) THEN Front(l) ELSE l
    BY <2>2 DEF Text
  <2> HIDE DEF l, J
  <2>6. out = J[k].done /\ str = J[k].open
    BY <2>1 DEF At, J
  <2>7. CASE KeepContinued
    <3>1. out' = J[k + 1].done /\ str' = J[k + 1].open /\ s' = <<>> /\ Complete
      BY <2>4, <2>5, <2>6, <2>7 DEF KeepContinued
    <3>2. At(k + 1)'
      BY <1>0, <2>2, <3>1, NextAt DEF J
    <3> QED BY <3>2
  <2>8. CASE HandOn
    <3>1. out' = J[k + 1].done /\ str' = J[k + 1].open /\ s' = <<>> /\ Complete
      BY <2>4, <2>5, <2>6, <2>8 DEF HandOn
    <3>2. At(k + 1)'
      BY <1>0, <2>2, <3>1, NextAt DEF J
    <3> QED BY <3>2
  <2> QED BY <2>3, <2>7, <2>8
<1>4. cfg' \in Files \cup {<<>>}
  BY <1>0 DEF Follows
<1> QED BY <1>0, <1>1, <1>2, <1>3, <1>4 DEF Follows

LEMMA ReadStep ==
  ASSUME TypeOK, Follows, ReadChunk PROVE Follows'
<1>0. Window /\ cfg \in Text_ /\ ret = "busy" /\ p = Len(buf) /\ read \in 0..Len(cfg) /\ UNCHANGED <<cfg, s, str, out, stale>>
  BY DEF Follows, Window, TypeOK, ReadChunk, Busy
<1>1. CASE buf' = SubSeq(cfg, read + 1, Upto) /\ read' = read + Len(buf') /\ p' = 0 /\ ret' = ret
  <2>1. Upto \in Nat /\ read <= Upto /\ Upto <= Len(cfg) /\ Len(buf') = Upto - read /\ read \in Nat /\ Len(buf) \in Nat
    BY <1>0, <1>1, ChunkIs DEF Window
  <2>2. read' = Upto /\ read' - Len(buf') = read
    BY <1>1, <2>1
  <2>3. Place' = read /\ Place = read
    BY <1>0, <1>1, <2>1, <2>2 DEF Place
  <2>4. Window'
    <3>1. p' \in 0..Len(buf') /\ Len(buf') \in Nat /\ Len(buf') <= read' /\ read' <= Len(cfg) /\ read' \in Nat
      BY <1>1, <2>1, <2>2
    <3>2. buf' = SubSeq(cfg, (read' - Len(buf')) + 1, read')
      BY <1>1, <2>2
    <3> QED BY <1>0, <3>1, <3>2 DEF Window
  <2>5. \A k : At(k) => At(k)'
    BY <1>0, <2>3, SamePlace
  <2> QED BY <1>0, <1>1, <2>4, <2>5 DEF Follows
<1>2. CASE ret' = "error" /\ UNCHANGED <<buf, read, p>>
  <2>1. Place' = Place /\ Window'
    BY <1>0, <1>2 DEF Place, Window
  <2>2. \A k : At(k) => At(k)'
    BY <1>0, <2>1, SamePlace
  <2> QED BY <1>0, <1>2, <2>1, <2>2 DEF Follows
<1> QED BY <1>1, <1>2 DEF ReadChunk, Upto

LEMMA FollowsStep == ASSUME TypeInv, Follows, AllWellFormed, Next PROVE Follows'
<1>0. Window /\ cfg \in Text_ /\ WellFormed(cfg) /\ TypeOK
  BY EmptyIs DEF Follows, Window, AllWellFormed, TypeInv
<1>1. CASE ret = "idle" /\ \E f \in Files : Start(f)
  <2>1. PICK f \in Files : Start(f)
    BY <1>1
  <2>2. cfg' = f /\ f \in Text_ /\ ret' = "busy" /\ read' = 0 /\ buf' = <<>> /\ p' = 0 /\ out' = <<>> /\ UNCHANGED <<s, str, stale>>
    BY <1>1, <2>1, ConstantsAssumption DEF Start, Follows, Text_
  <2>3. Window' /\ (s' = <<>> /\ str' = <<>> => At(0)')
    BY <2>2, BeginStep
  <2>4. ~ stale' => s' = <<>> /\ str' = <<>>
    BY <1>1, <2>2 DEF Follows
  <2> QED BY <2>2, <2>3, <2>4 DEF Follows
<1>2. CASE Return
  <2>1. /\ cfg' = <<>> /\ ret' = "idle" /\ read' = 0 /\ buf' = <<>> /\ p' = 0 /\ out' = <<>> /\ UNCHANGED <<s, str>>
        /\ stale' <=> ((stale \/ ret = "error") /\ <<s, str>> # <<<<>>, <<>>>>)
    BY <1>2 DEF Return
  <2>2. Window' /\ (s' = <<>> /\ str' = <<>> => At(0)')
    BY <2>1, BeginStep, EmptyIs
  <2>3. ASSUME ~ stale' PROVE s' = <<>> /\ str' = <<>>
    <3>1. CASE stale \/ ret = "error"
      BY <2>1, <2>3, <3>1
    <3>2. CASE ~ stale /\ ret = "refused"
      BY <2>1, <3>2 DEF Follows
    <3>3. CASE ~ stale /\ ret = "ok"
      <4>1. PICK k : At(k)
        BY <3>3 DEF Follows
      <4>2. str = <<>> /\ s = <<>>
        BY <1>0, <3>3, <4>1, AtEnd DEF Follows
      <4> QED BY <2>1, <4>2
    <3> QED BY <1>2, <3>1, <3>2, <3>3 DEF Return
  <2> QED BY <2>1, <2>2, <2>3 DEF Follows
<1>3. CASE ReadChunk
  BY <1>0, <1>3, ReadStep
<1>4. CASE Finish \/ Panic \/ Overrun
  <2>1. /\ UNCHANGED <<cfg, read, buf, p, s, str, out, stale>>
        /\ \/ ret' \in {"panic", "overrun"}
           \/ ret' = "ok" /\ p = Len(buf) /\ read = Len(cfg)
    BY <1>4 DEF Finish, Panic, Overrun
  <2>2. Place' = Place /\ Window'
    BY <1>0, <2>1 DEF Place, Window
  <2>3. \A k : At(k) => At(k)'
    BY <2>1, <2>2, SamePlace
  <2> QED BY <2>1, <2>2, <2>3 DEF Follows
<1>5. CASE KeepPiece \/ KeepContinued \/ HandOn
  BY <1>0, <1>5, TakeStep
<1> QED BY <1>1, <1>2, <1>3, <1>4, <1>5 DEF Next, Step

LEMMA FollowsAlways == ASSUME AllWellFormed PROVE Spec => []Follows
<1>1. Init => Follows
  <2> SUFFICES ASSUME Init PROVE Follows
    OBVIOUS
  <2>1. /\ 0 \in 0..Lines(<<>>) /\ LineEnd(<<>>, 0) = 0 /\ (0 < Lines(<<>>) => 0 < LineEnd(<<>>, 0 + 1))
        /\ Joined(<<>>)[0].done = <<>> /\ Joined(<<>>)[0].open = <<>> /\ SubSeq(<<>>, 0 + 1, 0) = <<>> /\ <<>> \in Text_ /\ Len(<<>>) = 0
    BY AtBegin, EmptyIs
  <2>2. cfg = <<>> /\ read = 0 /\ buf = <<>> /\ p = 0 /\ s = <<>> /\ str = <<>> /\ ret = "idle" /\ out = <<>> /\ stale = FALSE
    BY DEF Init
  <2>3. Place = 0 /\ read - Len(buf) = 0
    <3>1. Place = (0 - Len(<<>>)) + 0 /\ read - Len(buf) = 0 - Len(<<>>)
      BY <2>2 DEF Place
    <3>2. Len(<<>>) = 0 /\ (0 - 0) + 0 = 0 /\ 0 - 0 = 0
      OBVIOUS
    <3> QED BY <3>1, <3>2, Zenon
  <2>4. Window
    BY <2>1, <2>2, <2>3 DEF Window
  <2>5. At(0)
    BY <2>1, <2>2, <2>3 DEF At, Within
  <2> QED BY <2>2, <2>4, <2>5 DEF Follows
<1>2. TypeInv /\ Follows /\ [Next]_vars => Follows'
  <2>1. ASSUME Follows, UNCHANGED vars PROVE Follows'
    <3>1. UNCHANGED <<cfg, read, buf, p, s, str, ret, out, stale>>
      BY <2>1 DEF vars
    <3>2. Place' = Place /\ Window'
      BY <2>1, <3>1 DEF Place, Window, Follows
    <3>3. \A k : At(k) => At(k)'
      BY <3>1, <3>2, SamePlace
    <3> QED BY <2>1, <3>1, <3>2, <3>3 DEF Follows
  <2> QED BY <2>1, FollowsStep
<1> QED BY <1>1, <1>2, TypeAlways, PTL DEF Spec

\* Of well-formed files, the lines process_cfg() hands on to process_cfg_line()
\* are the file's, in order, for every size of the buffer: none is made up of the
\* pieces of two, and none of what an earlier file left in the static arrays.
THEOREM NothingIsInvented == ASSUME \A f \in Files : WellFormed(f) PROVE Spec => []NothingInvented
<1>1. AllWellFormed
  BY DEF AllWellFormed
<1>2. ASSUME Follows PROVE NothingInvented
  <2> SUFFICES ASSUME ~ stale PROVE IsPrefix(out, LogicalLines(cfg))
    BY DEF NothingInvented
  <2>1. PICK k : At(k)
    BY <1>2 DEF Follows
  <2> DEFINE x == Joined(cfg)[k].done
             y == Joined(cfg)[Lines(cfg)].done
  <2>2. cfg \in Text_ /\ WellFormed(cfg) /\ k \in 0..Lines(cfg) /\ Lines(cfg) \in 0..Lines(cfg) /\ out = x
    BY <1>1, <1>2, <2>1, EmptyIs, EndsAre DEF Follows, Window, AllWellFormed, At, Within
  <2>3. LogicalLines(cfg) = y /\ Begins(x, y)
    BY <2>2, AllAre, DoneBegins
  <2>4. x \in Seq(Text_) /\ y \in Seq(Text_)
    BY <2>2, JoinedType DEF Partial
  <2> HIDE DEF x, y
  <2>5. IsPrefix(x, y)
    <3>1. Len(x) \in Nat /\ Len(y) \in Nat /\ Len(x) <= Len(y) /\ \A i \in 1..Len(x) : x[i] = y[i]
      BY <2>3, <2>4 DEF Begins
    <3>2. SubSeq(x, 1, Len(x)) = SubSeq(y, 1, Len(x))
      BY <2>4, <3>1
    <3> QED BY <3>1, <3>2 DEF IsPrefix
  <2> QED BY <2>2, <2>3, <2>5
<1> QED BY <1>1, <1>2, FollowsAlways, PTL

\* When process_cfg() returns 1 for a well-formed file it has handed on all its
\* lines: none is left in the buffer, in s or in str.
THEOREM NothingIsLost == ASSUME \A f \in Files : WellFormed(f) PROVE Spec => []NothingLost
<1>1. AllWellFormed
  BY DEF AllWellFormed
<1>2. ASSUME Follows PROVE NothingLost
  <2> SUFFICES ASSUME ret = "ok", ~ stale PROVE out = LogicalLines(cfg)
    BY DEF NothingLost
  <2>1. PICK k : At(k)
    BY <1>2 DEF Follows
  <2>2. WellFormed(cfg) /\ Window /\ p = Len(buf) /\ read = Len(cfg)
    BY <1>1, <1>2, EmptyIs DEF Follows, AllWellFormed
  <2> QED BY <2>1, <2>2, AtEnd
<1> QED BY <1>1, <1>2, FollowsAlways, PTL

===============================================================================
