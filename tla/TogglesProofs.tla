---------------------------- MODULE TogglesProofs ----------------------------
(***************************************************************************)
(* What the text store of the scripts' variables and the toggles keep to,  *)
(* for every configuration, every size of the store and all lengths: no    *)
(* text runs into another, nothing points at a text given up, a toggle is  *)
(* at one of its blocks, a key moves its toggle alone, the menu shows the  *)
(* blocks the toggles are at, and a file read again costs nothing.         *)
(*                                                                         *)
(* The commands work on a record of the memory; Good says what it is like  *)
(* between any two of their steps, and every step keeps it.  The loops of  *)
(* the commands are recursive functions: that such a function exists, and  *)
(* that what a step keeps holds at its end, is shown for each by induction *)
(* over its domain (Induction).                                            *)
(***************************************************************************)
EXTENDS Toggles, TLAPS, SequenceTheorems, NaturalsInduction, WellFoundedInduction

USE DEF CommandsWith, Assignments

Texts == Names \cup Values

\* A variable of a block that counts has a text, and is a variable unless there was no
\* room for one.
Used(D, n) == [var : 0..n, value : D]
Entries(D, n) == [var : 0..n, value : D \cup {None}]
Blocks(D, n) ==
  {b \in [nr_vars : 0..MAX_VAR_PER_BLOCK, var : [1..MAX_VAR_PER_BLOCK -> Entries(D, n)]] :
     \A v \in 1..b.nr_vars : b.var[v] \in Used(D, n)}
AtABlock(t) == t.nr_blocks > 0 => t.current_block < t.nr_blocks
Slots(D, n) ==
  {t \in [key : Keys, current_block : Nat, nr_blocks : 0..MAX_BLOCKS, block : [1..MAX_BLOCKS -> Blocks(D, n)]] :
     AtABlock(t)}

\* Texts one after another in what was allocated.
Packed(text, used) ==
  /\ used \in Nat /\ used <= VARIABLE_STORE_SIZE
  /\ DOMAIN text \subseteq Nat
  /\ \A a \in DOMAIN text : /\ text[a] \in Texts /\ a + Length[text[a]] + 1 <= used
                            /\ \A b \in DOMAIN text : a < b => a + Length[text[a]] + 1 <= b

Variables(D) == [name : Names, value : D \cup {None}]

Good(m) ==
  /\ DOMAIN m = {"list", "text", "used", "toggles", "vector", "wild", "ok"} /\ m.ok \in BOOLEAN
  /\ Packed(m.text, m.used)
  /\ m.list \in Seq(Variables(DOMAIN m.text))
  /\ m.toggles \in Seq(Slots(DOMAIN m.text, Len(m.list)))

\* What a step may do to the memory: it adds texts and variables, and fails for good.
Grows(m, x) == DOMAIN m.text \subseteq DOMAIN x.text /\ Len(m.list) <= Len(x.list)
Keeps(m, x) == Good(x) /\ Grows(m, x) /\ (x.ok => m.ok) /\ x.toggles = m.toggles

-------------------------------------------------------------------------------
(* Induction over the numbers a recursive function is defined for.             *)

LEMMA Induction ==
  ASSUME NEW N \in Nat, NEW T \in SUBSET Nat, 0 \in T, \A n \in T : n < N => n + 1 \in T
  PROVE  \A n \in 0..N : n \in T
<1> DEFINE out == {n \in Nat : n <= N /\ n \notin T}
<1> SUFFICES ASSUME out # {} PROVE FALSE
  OBVIOUS
<1>1. PICK x \in out : \A y \in out : ~(<<y, x>> \in OpToRel(<, Nat))
  <2> HIDE DEF out
  <2>1. out \subseteq Nat
    BY DEF out
  <2> QED BY <2>1, NatLessThanWellFounded, WFMin
<1>2. x # 0 /\ x - 1 \in Nat /\ x - 1 < x /\ x - 1 <= N
  OBVIOUS
<1>3. x - 1 \notin out
  BY <1>1, <1>2, Zenon DEF OpToRel
<1> QED BY <1>2, <1>3

-------------------------------------------------------------------------------
(* Variables and their texts.                                                  *)

LEMMA Elements ==
  ASSUME NEW S, NEW q \in Seq(S)
  PROVE  Len(q) \in Nat /\ DOMAIN q = 1..Len(q) /\ \A i \in 1..Len(q) : q[i] \in S
OBVIOUS

LEMMA IsSequence == ASSUME NEW S, NEW n \in Nat, NEW q \in [1..n -> S] PROVE q \in Seq(S)
OBVIOUS

LEMMA NoElements == ASSUME NEW S, NEW q \in Seq(S) PROVE q = <<>> <=> DOMAIN q = {}
<1>1. Len(q) \in Nat /\ DOMAIN q = 1..Len(q) /\ (q = <<>> <=> Len(q) = 0)
  BY EmptySeq, LenProperties
<1>2. \A n \in Nat : n = 0 <=> 1..n = {}
  <2>1. \A n \in Nat : n # 0 => 1 \in 1..n
    OBVIOUS
  <2> QED BY <2>1
<1> QED BY <1>1, <1>2

LEMMA Constants ==
  /\ NullLength \in Nat /\ VARIABLE_STORE_SIZE \in Nat /\ TOGGLES \in Nat /\ VARIABLES_MAX \in Nat
  /\ MAX_BLOCKS \in Nat /\ MAX_BLOCKS >= 1 /\ MAX_VAR_PER_BLOCK \in Nat /\ MAX_VAR_PER_BLOCK >= 1
  /\ \A t \in Texts : Length[t] \in Nat
BY ConstantsAssumption DEF Texts

LEMMA EntriesGrow ==
  ASSUME NEW D, NEW E, D \subseteq E, NEW n \in Nat, NEW k \in Nat, n <= k
  PROVE  Used(D, n) \subseteq Used(E, k) /\ Entries(D, n) \subseteq Entries(E, k)
BY DEF Used, Entries

LEMMA SlotsGrow ==
  ASSUME NEW D, NEW E, D \subseteq E, NEW n \in Nat, NEW k \in Nat, n <= k
  PROVE  Slots(D, n) \subseteq Slots(E, k)
<1>1. Blocks(D, n) \subseteq Blocks(E, k)
  BY EntriesGrow DEF Blocks
<1> QED BY <1>1 DEF Slots

LEMMA VariablesGrow ==
  ASSUME NEW D, NEW E, D \subseteq E, NEW list \in Seq(Variables(D))
  PROVE  list \in Seq(Variables(E))
<1>1. Variables(D) \subseteq Variables(E)
  BY DEF Variables
<1> QED BY <1>1

LEMMA ListType ==
  ASSUME NEW m, Good(m)
  PROVE  /\ Len(m.list) \in Nat /\ DOMAIN m.list = 1..Len(m.list)
         /\ \A i \in DOMAIN m.list : /\ m.list[i].name \in Names
                                     /\ m.list[i].value \in DOMAIN m.text \cup {None}
<1>1. m.list \in Seq(Variables(DOMAIN m.text))
  BY DEF Good
<1>2. /\ Len(m.list) \in Nat /\ DOMAIN m.list = 1..Len(m.list)
      /\ \A i \in DOMAIN m.list : m.list[i] \in Variables(DOMAIN m.text)
  BY <1>1
<1> QED BY <1>2 DEF Variables

LEMMA TogglesGrow ==
  ASSUME NEW D, NEW E, D \subseteq E, NEW n \in Nat, NEW k \in Nat, n <= k, NEW toggles \in Seq(Slots(D, n))
  PROVE  toggles \in Seq(Slots(E, k))
BY SlotsGrow

LEMMA IndexType ==
  ASSUME NEW m, Good(m), NEW name
  PROVE  /\ Index(m, name) \in 0..Len(m.list)
         /\ Index(m, name) # 0 <=> \E i \in DOMAIN m.list : m.list[i].name = name
         /\ Index(m, name) # 0 => Value(m, name) \in DOMAIN m.text \cup {None}
<1>1. /\ DOMAIN m.list = 1..Len(m.list) /\ Len(m.list) \in Nat
      /\ \A i \in DOMAIN m.list : m.list[i].value \in DOMAIN m.text \cup {None}
  BY ListType
<1>2. CASE \E i \in DOMAIN m.list : m.list[i].name = name
  <2> DEFINE i == CHOOSE i \in DOMAIN m.list : m.list[i].name = name
  <2>1. i \in DOMAIN m.list
    BY <1>2
  <2>2. Index(m, name) = i
    BY <1>2 DEF Index
  <2> HIDE DEF i
  <2>3. i \in 1..Len(m.list) /\ i # 0
    BY <1>1, <2>1
  <2> QED BY <1>1, <1>2, <2>1, <2>2, <2>3 DEF Value
<1>3. CASE ~ \E i \in DOMAIN m.list : m.list[i].name = name
  <2>1. Index(m, name) = 0
    BY <1>3 DEF Index
  <2> QED BY <1>1, <1>3, <2>1
<1> QED BY <1>2, <1>3

LEMMA SlotType ==
  ASSUME NEW m, Good(m), NEW key
  PROVE  Slot(m, key) \in 0..Len(m.toggles) /\ Len(m.toggles) \in Nat
<1>1. DOMAIN m.toggles = 1..Len(m.toggles) /\ Len(m.toggles) \in Nat
  BY DEF Good
<1>2. Slot(m, key) = 0 \/ Slot(m, key) \in DOMAIN m.toggles
  BY DEF Slot
<1> QED BY <1>1, <1>2

LEMMA FailKeeps == ASSUME NEW m, Good(m) PROVE Keeps(m, Fail(m))
BY DEF Good, Fail, Keeps, Grows

LEMMA KeepsOn == ASSUME NEW m, NEW x, NEW y, Good(m), Keeps(m, x), Keeps(x, y) PROVE Keeps(m, y)
BY DEF Keeps, Grows, Good

LEMMA AllocateKeeps ==
  ASSUME NEW m, Good(m), NEW t \in Texts, Room(m, t)
  PROVE  /\ Keeps(m, Allocate(m, t)) /\ m.used \in DOMAIN Allocate(m, t).text
         /\ Allocate(m, t).list = m.list /\ Allocate(m, t).ok = m.ok
<1> DEFINE x == Allocate(m, t)
<1>1. /\ x.list = m.list /\ x.toggles = m.toggles /\ x.ok = m.ok /\ x.vector = m.vector
      /\ x.text = [a \in DOMAIN m.text \cup {m.used} |-> IF a = m.used THEN t ELSE m.text[a]]
      /\ x.used = m.used + Length[t] + 1 /\ DOMAIN x = DOMAIN m
  BY DEF Allocate, Good
<1> HIDE DEF x
<1>2. Length[t] \in Nat /\ m.used \in Nat /\ x.used <= VARIABLE_STORE_SIZE /\ DOMAIN m.text \subseteq Nat
  BY <1>1, Constants DEF Room, Good, Packed
<1>3. \A a \in DOMAIN m.text : /\ m.text[a] \in Texts /\ Length[m.text[a]] \in Nat
                              /\ a + Length[m.text[a]] + 1 <= m.used /\ a < m.used
  BY <1>2, Constants DEF Good, Packed
<1>4. Packed(x.text, x.used)
  <2>1. DOMAIN x.text \subseteq Nat /\ x.used \in Nat
    BY <1>1, <1>2
  <2>2. ASSUME NEW a \in DOMAIN x.text
        PROVE  /\ x.text[a] \in Texts /\ a + Length[x.text[a]] + 1 <= x.used
               /\ \A b \in DOMAIN x.text : a < b => a + Length[x.text[a]] + 1 <= b
    <3>1. CASE a = m.used
      <4>1. x.text[a] = t
        BY <1>1, <3>1
      <4>2. \A b \in DOMAIN x.text : ~ (a < b)
        BY <1>1, <1>2, <1>3, <3>1
      <4> QED BY <1>1, <1>2, <3>1, <4>1, <4>2
    <3>2. CASE a # m.used
      <4>1. a \in DOMAIN m.text /\ x.text[a] = m.text[a]
        BY <1>1, <3>2
      <4>2. \A b \in DOMAIN m.text : a < b => a + Length[m.text[a]] + 1 <= b
        BY <4>1 DEF Good, Packed
      <4>3. a + Length[x.text[a]] + 1 <= x.used
        BY <1>1, <1>2, <1>3, <4>1
      <4>4. ASSUME NEW b \in DOMAIN x.text, a < b PROVE a + Length[x.text[a]] + 1 <= b
        BY <1>1, <1>3, <4>1, <4>2, <4>4
      <4> QED BY <1>3, <4>1, <4>3, <4>4
    <3> QED BY <3>1, <3>2
  <2> QED BY <1>2, <2>1, <2>2 DEF Packed
<1>5. DOMAIN m.text \subseteq DOMAIN x.text /\ m.used \in DOMAIN x.text
  BY <1>1
<1>6. x.list \in Seq(Variables(DOMAIN x.text)) /\ Len(m.list) \in Nat
  BY <1>1, <1>5, VariablesGrow, ListType DEF Good
<1>7. x.toggles \in Seq(Slots(DOMAIN x.text, Len(x.list)))
  BY <1>1, <1>5, <1>6, TogglesGrow DEF Good
<1> QED BY <1>1, <1>4, <1>5, <1>6, <1>7 DEF Good, Keeps, Grows, x

LEMMA NamedKeeps ==
  ASSUME NEW m, Good(m), NEW name \in Names
  PROVE  /\ Keeps(m, Named(m, name))
         /\ Named(m, name).ok => \E i \in DOMAIN Named(m, name).list : Named(m, name).list[i].name = name
<1>1. CASE Len(m.list) = VARIABLES_MAX \/ ~ Room(m, name)
  <2>1. Named(m, name) = Fail(m)
    BY <1>1 DEF Named
  <2>2. Fail(m).ok = FALSE
    BY DEF Fail, Good
  <2> QED BY <2>1, <2>2, FailKeeps
<1>2. CASE ~ (Len(m.list) = VARIABLES_MAX \/ ~ Room(m, name))
  <2> DEFINE x == Allocate(m, name)
             var == [name |-> name, value |-> None]
             y == Named(m, name)
  <2>1. Keeps(m, x) /\ Good(x)
    BY <1>2, AllocateKeeps DEF Texts, Keeps
  <2>2. y = [x EXCEPT !.list = Append(@, var)]
    BY <1>2 DEF Named
  <2> HIDE DEF x, y
  <2>3. /\ DOMAIN y = DOMAIN x /\ y.ok = x.ok /\ y.text = x.text /\ y.used = x.used
        /\ y.toggles = x.toggles /\ y.list = Append(x.list, var)
    BY <2>1, <2>2 DEF Good
  <2>4. var \in Variables(DOMAIN y.text)
    BY DEF Variables
  <2>5. /\ y.list \in Seq(Variables(DOMAIN y.text)) /\ Len(y.list) = Len(x.list) + 1
        /\ Len(x.list) \in Nat /\ y.list[Len(y.list)] = var /\ Len(y.list) \in DOMAIN y.list
    <3>1. x.list \in Seq(Variables(DOMAIN y.text))
      BY <2>1, <2>3 DEF Good
    <3> HIDE DEF var
    <3> QED BY <2>3, <2>4, <3>1
  <2>6. y.toggles \in Seq(Slots(DOMAIN y.text, Len(y.list)))
    BY <2>1, <2>3, <2>5, TogglesGrow DEF Good
  <2>7. Good(y)
    BY <2>1, <2>3, <2>5, <2>6 DEF Good
  <2>8. y.list[Len(y.list)].name = name
    BY <2>5
  <2> QED BY <2>1, <2>3, <2>5, <2>7, <2>8 DEF Keeps, Grows, y
<1> QED BY <1>1, <1>2

\* Pointing a variable at a text changes no name.
LEMMA PointAtKeeps ==
  ASSUME NEW m, Good(m), NEW name, Index(m, name) # 0, NEW at \in DOMAIN m.text
  PROVE  /\ Keeps(m, PointAt(m, name, at))
         /\ \E i \in DOMAIN PointAt(m, name, at).list : PointAt(m, name, at).list[i].name = name
<1> DEFINE x == PointAt(m, name, at)
           i == Index(m, name)
<1>1. /\ Len(m.list) \in Nat /\ DOMAIN m.list = 1..Len(m.list) /\ i \in DOMAIN m.list
      /\ m.list \in Seq(Variables(DOMAIN m.text)) /\ m.list[i].name = name
  <2>1. PICK j \in DOMAIN m.list : m.list[j].name = name
    BY IndexType
  <2>2. m.list[i].name = name
    BY <2>1 DEF Index
  <2> QED BY <2>2, IndexType, ListType DEF Good
<1>2. /\ DOMAIN x = DOMAIN m /\ x.ok = m.ok /\ x.text = m.text /\ x.used = m.used
      /\ x.toggles = m.toggles /\ x.list = [m.list EXCEPT ![i].value = at]
  BY DEF PointAt, Good
<1> HIDE DEF x, i
<1>3. m.list[i] \in Variables(DOMAIN m.text)
  BY <1>1
<1>4. [m.list[i] EXCEPT !.value = at] \in Variables(DOMAIN m.text) /\ [m.list[i] EXCEPT !.value = at].name = name
  BY <1>1, <1>3 DEF Variables
<1>5. x.list = [m.list EXCEPT ![i] = [m.list[i] EXCEPT !.value = at]]
  BY <1>2
<1>6. x.list \in Seq(Variables(DOMAIN m.text)) /\ Len(x.list) = Len(m.list) /\ DOMAIN x.list = DOMAIN m.list
  BY <1>1, <1>4, <1>5
<1>7. x.list[i].name = name
  BY <1>1, <1>4, <1>5
<1>8. Good(x)
  BY <1>2, <1>6 DEF Good
<1> QED BY <1>1, <1>2, <1>6, <1>7, <1>8 DEF Keeps, Grows, x

\* The first half of var_set() and var_set_no_copy(): the variable is there.
LEMMA IsThere ==
  ASSUME NEW m, Good(m), NEW name \in Names,
         NEW n, n = IF Index(m, name) = 0 THEN Named(m, name) ELSE m
  PROVE  Keeps(m, n) /\ Good(n) /\ (n.ok => Index(n, name) # 0)
<1>1. CASE Index(m, name) = 0
  <2>1. n = Named(m, name)
    BY <1>1
  <2> QED BY <2>1, NamedKeeps, IndexType DEF Keeps
<1>2. CASE Index(m, name) # 0
  BY <1>2, ListType DEF Keeps, Grows
<1> QED BY <1>1, <1>2

LEMMA SetNoCopyKeeps ==
  ASSUME NEW m, Good(m), NEW name \in Names, NEW at \in DOMAIN m.text
  PROVE  /\ Keeps(m, SetNoCopy(m, name, at))
         /\ SetNoCopy(m, name, at).ok => Index(SetNoCopy(m, name, at), name) # 0
<1> DEFINE n == IF Index(m, name) = 0 THEN Named(m, name) ELSE m
<1>1. Keeps(m, n) /\ Good(n) /\ (n.ok => Index(n, name) # 0)
  BY IsThere
<1>2. SetNoCopy(m, name, at) = IF n.ok THEN PointAt(n, name, at) ELSE n
  BY DEF SetNoCopy
<1> HIDE DEF n
<1>3. at \in DOMAIN n.text
  BY <1>1 DEF Keeps, Grows
<1>4. CASE n.ok
  <2>1. /\ Keeps(n, PointAt(n, name, at)) /\ Good(PointAt(n, name, at))
        /\ \E i \in DOMAIN PointAt(n, name, at).list : PointAt(n, name, at).list[i].name = name
    BY <1>1, <1>3, <1>4, PointAtKeeps DEF Keeps
  <2>2. Index(PointAt(n, name, at), name) # 0
    BY <2>1, IndexType
  <2> QED BY <1>1, <1>2, <1>4, <2>1, <2>2, KeepsOn
<1>5. CASE ~ n.ok
  BY <1>1, <1>2, <1>5
<1> QED BY <1>4, <1>5

LEMMA SetAnewKeeps ==
  ASSUME NEW m, Good(m), NEW name, Index(m, name) # 0, NEW v \in Texts
  PROVE  Keeps(m, SetAnew(m, name, v))
<1>1. CASE Room(m, v)
  <2> DEFINE x == Allocate(m, v)
  <2>1. Keeps(m, x) /\ Good(x) /\ m.used \in DOMAIN x.text /\ x.list = m.list
    BY <1>1, AllocateKeeps DEF Keeps
  <2>2. Index(x, name) # 0
    BY <2>1 DEF Index
  <2>3. SetAnew(m, name, v) = PointAt(x, name, m.used)
    BY <1>1 DEF SetAnew
  <2> HIDE DEF x
  <2> QED BY <2>1, <2>2, <2>3, PointAtKeeps, KeepsOn
<1>2. CASE ~ Room(m, v)
  BY <1>2, FailKeeps DEF SetAnew
<1> QED BY <1>1, <1>2

\* A text that is overwritten is not longer than before.
LEMMA OverwriteKeeps ==
  ASSUME NEW m, Good(m), NEW at \in DOMAIN m.text, NEW v \in Texts, Fits(m.text[at], v)
  PROVE  Keeps(m, [m EXCEPT !.text[at] = v])
<1> DEFINE x == [m EXCEPT !.text[at] = v]
<1>1. /\ DOMAIN x = DOMAIN m /\ x.ok = m.ok /\ x.list = m.list /\ x.used = m.used
      /\ x.toggles = m.toggles /\ x.text = [m.text EXCEPT ![at] = v]
  BY DEF Good
<1> HIDE DEF x
<1>2. Length[v] \in Nat /\ Length[m.text[at]] \in Nat /\ Length[v] <= Length[m.text[at]]
  BY Constants DEF Good, Packed, Fits
<1>3. DOMAIN x.text = DOMAIN m.text
  BY <1>1
<1>4. \A a \in DOMAIN x.text : x.text[a] = IF a = at THEN v ELSE m.text[a]
  BY <1>1
<1>5. Packed(x.text, x.used)
  <2>1. ASSUME NEW a \in DOMAIN x.text
        PROVE  x.text[a] \in Texts /\ Length[x.text[a]] \in Nat /\ Length[x.text[a]] <= Length[m.text[a]]
               /\ Length[m.text[a]] \in Nat /\ a \in Nat
    BY <1>2, <1>3, <1>4, Constants DEF Good, Packed
  <2>2. /\ x.used \in Nat /\ x.used <= VARIABLE_STORE_SIZE /\ DOMAIN x.text \subseteq Nat
        /\ \A a \in DOMAIN x.text : /\ a + Length[m.text[a]] + 1 <= x.used
                                   /\ \A b \in DOMAIN x.text : a < b => a + Length[m.text[a]] + 1 <= b
    BY <1>1, <1>3 DEF Good, Packed
  <2>3. ASSUME NEW a \in DOMAIN x.text
        PROVE  /\ x.text[a] \in Texts /\ a + Length[x.text[a]] + 1 <= x.used
               /\ \A b \in DOMAIN x.text : a < b => a + Length[x.text[a]] + 1 <= b
    <3>1. ASSUME NEW n \in Nat, a + Length[m.text[a]] + 1 <= n PROVE a + Length[x.text[a]] + 1 <= n
      BY <2>1, <3>1
    <3> QED BY <2>1, <2>2, <3>1
  <2> QED BY <2>2, <2>3 DEF Packed
<1>6. Good(x)
  BY <1>1, <1>3, <1>5 DEF Good
<1> QED BY <1>1, <1>3, <1>6, ListType DEF Keeps, Grows, x

LEMMA SetVarKeeps ==
  ASSUME NEW m, Good(m), NEW name \in Names, NEW v \in Texts
  PROVE  Keeps(m, SetVar(m, name, v))
<1> DEFINE n == IF Index(m, name) = 0 THEN Named(m, name) ELSE m
           at == Value(n, name)
<1>1. Keeps(m, n) /\ Good(n) /\ (n.ok => Index(n, name) # 0)
  BY IsThere
<1>2. CASE ~ n.ok
  BY <1>1, <1>2 DEF SetVar
<1>3. CASE n.ok /\ (Index(m, name) = 0 \/ (at = None /\ ~ NullLength >= Length[v])
                    \/ (at # None /\ ~ Fits(n.text[at], v)))
  <2>1. SetVar(m, name, v) = SetAnew(n, name, v)
    BY <1>3 DEF SetVar
  <2> HIDE DEF n
  <2> QED BY <1>1, <1>3, <2>1, SetAnewKeeps, KeepsOn
<1>4. CASE n.ok /\ Index(m, name) # 0 /\ at = None /\ NullLength >= Length[v]
  <2>1. SetVar(m, name, v) = [n EXCEPT !.vector = TRUE]
    BY <1>4 DEF SetVar
  <2> HIDE DEF n
  <2>2. Keeps(n, [n EXCEPT !.vector = TRUE])
    BY <1>1, ListType DEF Good, Keeps, Grows
  <2> QED BY <1>1, <2>1, <2>2, KeepsOn
<1>5. CASE n.ok /\ Index(m, name) # 0 /\ at # None /\ Fits(n.text[at], v)
  <2>1. SetVar(m, name, v) = [n EXCEPT !.text[at] = v]
    BY <1>5 DEF SetVar
  <2>2. at \in DOMAIN n.text
    BY <1>1, <1>5, IndexType
  <2> HIDE DEF n, at
  <2> QED BY <1>1, <1>5, <2>1, <2>2, OverwriteKeeps, KeepsOn
<1> QED BY <1>2, <1>3, <1>4, <1>5

-------------------------------------------------------------------------------
(* Toggles.                                                                    *)

LEMMA SlotParts ==
  ASSUME NEW m, Good(m), NEW s \in 1..Len(m.toggles)
  PROVE  /\ m.toggles[s] \in Slots(DOMAIN m.text, Len(m.list)) /\ Len(m.toggles) \in Nat
         /\ \A b \in 1..MAX_BLOCKS :
              /\ m.toggles[s].block[b] \in Blocks(DOMAIN m.text, Len(m.list))
              /\ m.toggles[s].block[b].nr_vars \in 0..MAX_VAR_PER_BLOCK
              /\ \A v \in 1..MAX_VAR_PER_BLOCK :
                   m.toggles[s].block[b].var[v] \in Entries(DOMAIN m.text, Len(m.list))
              /\ \A v \in 1..m.toggles[s].block[b].nr_vars :
                   m.toggles[s].block[b].var[v] \in Used(DOMAIN m.text, Len(m.list))
<1>1. m.toggles[s] \in Slots(DOMAIN m.text, Len(m.list)) /\ Len(m.toggles) \in Nat
  BY DEF Good
<1>2. \A b \in 1..MAX_BLOCKS : m.toggles[s].block[b] \in Blocks(DOMAIN m.text, Len(m.list))
  BY <1>1 DEF Slots
<1> QED BY <1>1, <1>2 DEF Blocks

LEMMA BlockParts ==
  ASSUME NEW m, Good(m), NEW s \in 1..Len(m.toggles), NEW b \in 1..MAX_BLOCKS
  PROVE  /\ m.toggles[s].nr_blocks \in 0..MAX_BLOCKS /\ m.toggles[s].nr_blocks \in Nat
         /\ m.toggles[s].block[b].nr_vars \in Nat
         /\ \A v \in 1..MAX_VAR_PER_BLOCK :
              v <= m.toggles[s].block[b].nr_vars =>
                 m.toggles[s].block[b].var[v] \in Used(DOMAIN m.text, Len(m.list))
<1>1. m.toggles[s].nr_blocks \in 0..MAX_BLOCKS
  BY SlotParts DEF Slots
<1>2. m.toggles[s].block[b].nr_vars \in 0..MAX_VAR_PER_BLOCK
  BY SlotParts
<1>3. \A v \in 1..m.toggles[s].block[b].nr_vars :
        m.toggles[s].block[b].var[v] \in Used(DOMAIN m.text, Len(m.list))
  BY SlotParts, Zenon
<1>4. m.toggles[s].block[b].nr_vars \in Nat
  BY <1>2, Constants
<1>5. \A v \in 1..MAX_VAR_PER_BLOCK :
        v <= m.toggles[s].block[b].nr_vars => v \in 1..m.toggles[s].block[b].nr_vars
  BY <1>4, Constants
<1>6. m.toggles[s].nr_blocks \in Nat
  BY <1>1, Constants
<1> QED BY <1>1, <1>3, <1>4, <1>5, <1>6, Zenon

LEMMA KeepsSelf == ASSUME NEW m, Good(m) PROVE Keeps(m, m)
BY ListType DEF Keeps, Grows

\* One step of toggle_do_block()'s loop.
PointsTo(m, x, of) ==
  IF of.var = 0 THEN [x EXCEPT !.wild = TRUE] ELSE SetNoCopy(x, m.list[of.var].name, of.value)

LEMMA WildKeeps ==
  ASSUME NEW m, Good(m), NEW x, x = [m EXCEPT !.wild = TRUE]
  PROVE  /\ x.list = m.list /\ x.toggles = m.toggles /\ x.ok = m.ok /\ x.text = m.text /\ x.used = m.used
         /\ Keeps(m, x)
<1>1. /\ x.list = m.list /\ x.toggles = m.toggles /\ x.ok = m.ok /\ x.text = m.text /\ x.used = m.used
      /\ DOMAIN x = DOMAIN m
  BY DEF Good
<1>2. Good(x)
  BY <1>1 DEF Good
<1> QED BY <1>1, <1>2, ListType DEF Keeps, Grows

LEMMA PointsToKeeps ==
  ASSUME NEW m, Good(m), NEW x, Good(x), Keeps(m, x), NEW of \in Used(DOMAIN m.text, Len(m.list))
  PROVE  Keeps(x, PointsTo(m, x, of))
<1>1. CASE of.var = 0
  BY <1>1, WildKeeps DEF PointsTo
<1>2. CASE of.var # 0
  <2>1. m.list[of.var].name \in Names /\ of.value \in DOMAIN x.text
    BY <1>2, ListType DEF Used, Keeps, Grows
  <2> QED BY <1>2, <2>1, SetNoCopyKeeps DEF PointsTo
<1> QED BY <1>1, <1>2

\* toggle_do_block()'s loop.
DoBlockRun(f, m, s, b) ==
  /\ f[0] = m /\ DoBlock(m, s, b) = f[MAX_VAR_PER_BLOCK]
  /\ \A v \in 1..MAX_VAR_PER_BLOCK :
       f[v] = IF v > m.toggles[s].block[b].nr_vars THEN f[v - 1]
              ELSE PointsTo(m, f[v - 1], m.toggles[s].block[b].var[v])

LEMMA DoBlockLoop ==
  ASSUME NEW m, NEW s, NEW b
  PROVE  \E f : DoBlockRun(f, m, s, b)
<1> DEFINE step(x, v) == IF v > m.toggles[s].block[b].nr_vars THEN x
                         ELSE PointsTo(m, x, m.toggles[s].block[b].var[v])
           Is(f, n) == f = [v \in 0..n |-> IF v = 0 THEN m ELSE step(f[v-1], v)]
           N == MAX_VAR_PER_BLOCK
           T == {n \in Nat : \E f : Is(f, n)}
<1> HIDE DEF step
<1>1. 0 \in T
  <2>1. Is([v \in 0..0 |-> m], 0)
    OBVIOUS
  <2> QED BY <2>1
<1>2. ASSUME NEW n \in T PROVE n + 1 \in T
  <2>1. PICK f : Is(f, n)
    OBVIOUS
  <2> DEFINE g == [v \in 0..(n+1) |-> IF v = n + 1 THEN step(f[n], v) ELSE f[v]]
  <2>2. ASSUME NEW v \in 0..(n+1) PROVE g[v] = IF v = 0 THEN m ELSE step(g[v-1], v)
    BY <2>1
  <2>3. Is(g, n + 1)
    BY <2>2, Zenon
  <2>4. n + 1 \in Nat
    OBVIOUS
  <2> HIDE DEF Is, g
  <2> QED BY <2>3, <2>4
<1>3. N \in T
  <2> HIDE DEF T
  <2>1. T \in SUBSET Nat
    BY DEF T
  <2> QED BY <1>1, <1>2, <2>1, Induction, Constants
<1> DEFINE f == CHOOSE f : Is(f, N)
<1>4. Is(f, N)
  BY <1>3, Zenon
<1>5. DoBlock(m, s, b) = f[N]
  BY Zenon DEF DoBlock, step, PointsTo
<1> HIDE DEF f
<1>6. f[0] = m /\ \A v \in 1..N : f[v] = step(f[v-1], v)
  BY <1>4, Constants
<1> QED BY <1>5, <1>6 DEF step, DoBlockRun

LEMMA DoBlockKeeps ==
  ASSUME NEW m, Good(m), NEW s \in 1..Len(m.toggles), NEW b \in 1..MAX_BLOCKS
  PROVE  Keeps(m, DoBlock(m, s, b))
<1> DEFINE block == m.toggles[s].block[b]
           N == MAX_VAR_PER_BLOCK
<1>0. PICK f : DoBlockRun(f, m, s, b)
  BY DoBlockLoop
<1>1. /\ f[0] = m /\ DoBlock(m, s, b) = f[N]
      /\ \A v \in 1..N : f[v] = IF v > block.nr_vars THEN f[v - 1]
                                ELSE PointsTo(m, f[v - 1], block.var[v])
  BY <1>0 DEF DoBlockRun
<1> DEFINE T == {v \in 0..N : Keeps(m, f[v])}
<1>2. 0 \in T
  <2>1. Keeps(m, f[0])
    BY <1>1, KeepsSelf
  <2>2. 0 \in 0..N
    BY Constants
  <2> QED BY <2>1, <2>2
<1>3. ASSUME NEW v \in T, v < N PROVE v + 1 \in T
  <2> DEFINE var == block.var[v + 1]
  <2>1. v + 1 \in 1..N /\ Keeps(m, f[v]) /\ Good(f[v]) /\ (v + 1) - 1 = v
    BY <1>3, Constants DEF Keeps
  <2>2. f[v + 1] = IF v + 1 > block.nr_vars THEN f[v]
                   ELSE PointsTo(m, f[v], var)
    BY <1>1, <2>1
  <2>3. CASE v + 1 > block.nr_vars
    <3>1. f[v + 1] = f[v]
      BY <2>2, <2>3
    <3>2. v + 1 \in 0..N
      BY <2>1
    <3> QED BY <2>1, <3>1, <3>2
  <2>4. CASE ~ (v + 1 > block.nr_vars)
    <3>0. v + 1 <= block.nr_vars
      BY <2>1, <2>4, BlockParts
    <3>1. var \in Used(DOMAIN m.text, Len(m.list))
      BY <2>1, <3>0, BlockParts
    <3>3. Keeps(f[v], f[v + 1])
      BY <2>1, <2>2, <2>4, <3>1, PointsToKeeps
    <3> QED BY <2>1, <3>3, KeepsOn
  <2> QED BY <2>3, <2>4
<1>4. N \in T
  <2> HIDE DEF T
  <2>1. T \in SUBSET Nat
    BY DEF T
  <2>2. N \in Nat /\ \A v \in T : v < N => v + 1 \in T
    BY <1>3, Constants
  <2>3. \A v \in 0..N : v \in T
    BY <1>2, <2>1, <2>2, Induction
  <2> QED BY <2>2, <2>3
<1> QED BY <1>1, <1>4

\* Only the toggle in slot s differs, and it has its key.
Others(m, x, s) ==
  /\ Len(x.toggles) = Len(m.toggles) /\ x.toggles[s].key = m.toggles[s].key
  /\ \A t \in 1..Len(m.toggles) : t # s => x.toggles[t] = m.toggles[t]

\* What writing a toggle's blocks may do: the toggle stays at its block.
Writes(m, x, s) ==
  /\ Good(x) /\ Grows(m, x) /\ (x.ok => m.ok)
  /\ Others(m, x, s)
  /\ x.toggles[s].current_block = m.toggles[s].current_block

LEMMA WritesOn ==
  ASSUME NEW m, NEW x, NEW y, NEW s, Good(m), Writes(m, x, s), Writes(x, y, s)
  PROVE  Writes(m, y, s)
<1>1. Len(m.list) \in Nat /\ Len(x.list) \in Nat /\ Len(y.list) \in Nat
  BY ListType DEF Writes
<1> QED BY <1>1 DEF Writes, Grows, Others

LEMMA KeptIsWritten ==
  ASSUME NEW m, NEW x, NEW s, Keeps(m, x) PROVE Writes(m, x, s)
BY DEF Keeps, Writes, Others

LEMMA WritesSelf == ASSUME NEW m, Good(m), NEW s PROVE Writes(m, m, s)
BY KeepsSelf, KeptIsWritten

\* Which toggles a step may change: those of the keys K, and it may add some.
Unique(m) ==
  \A s, t \in 1..Len(m.toggles) : m.toggles[s].key = m.toggles[t].key => s = t
Leaves(m, x, K) ==
  /\ Len(m.toggles) <= Len(x.toggles)
  /\ \A t \in 1..Len(m.toggles) :
       /\ x.toggles[t].key = m.toggles[t].key
       /\ m.toggles[t].key \notin K => x.toggles[t] = m.toggles[t]
  /\ Unique(m) => Unique(x)

LEMMA SameToggles ==
  ASSUME NEW m, NEW x, Good(m), x.toggles = m.toggles, NEW K
  PROVE  Leaves(m, x, K)
<1>1. Len(m.toggles) \in Nat
  BY DEF Good
<1> QED BY <1>1 DEF Leaves, Unique

LEMMA LeavesOn ==
  ASSUME NEW m, NEW x, NEW y, NEW K, Good(m), Good(x), Good(y), Leaves(m, x, K), Leaves(x, y, K)
  PROVE  Leaves(m, y, K)
<1>1. Len(m.toggles) \in Nat /\ Len(x.toggles) \in Nat /\ Len(y.toggles) \in Nat
  BY DEF Good
<1>2. ASSUME NEW t \in 1..Len(m.toggles)
      PROVE  /\ y.toggles[t].key = m.toggles[t].key
             /\ m.toggles[t].key \notin K => y.toggles[t] = m.toggles[t]
  <2>1. t \in 1..Len(x.toggles)
    BY <1>1 DEF Leaves
  <2> QED BY <2>1 DEF Leaves
<1> QED BY <1>1, <1>2 DEF Leaves

LEMMA OthersLeft ==
  ASSUME NEW m, NEW x, Good(m), NEW s \in 1..Len(m.toggles), Others(m, x, s), NEW K, m.toggles[s].key \in K
  PROVE  Leaves(m, x, K)
<1>1. Len(x.toggles) = Len(m.toggles) /\ Len(m.toggles) \in Nat
  BY DEF Good, Others
<1>2. \A t \in 1..Len(m.toggles) : /\ x.toggles[t].key = m.toggles[t].key
                                   /\ m.toggles[t].key \notin K => x.toggles[t] = m.toggles[t]
  BY DEF Others
<1>3. Unique(m) => Unique(x)
  BY <1>1, <1>2, Zenon DEF Unique
<1> QED BY <1>1, <1>2, <1>3 DEF Leaves

\* toggle_find_slot() finds the toggle if there is one.
LEMMA SlotIs ==
  ASSUME NEW m, Good(m), NEW key
  PROVE  /\ Slot(m, key) # 0 => m.toggles[Slot(m, key)].key = key
         /\ Slot(m, key) = 0 => \A t \in 1..Len(m.toggles) : m.toggles[t].key # key
<1>1. DOMAIN m.toggles = 1..Len(m.toggles) /\ Len(m.toggles) \in Nat
  BY DEF Good
<1>2. CASE \E s \in DOMAIN m.toggles : m.toggles[s].key = key
  <2> DEFINE s == CHOOSE s \in DOMAIN m.toggles : m.toggles[s].key = key
  <2>1. s \in DOMAIN m.toggles /\ m.toggles[s].key = key
    BY <1>2
  <2>2. Slot(m, key) = s
    BY <1>2 DEF Slot
  <2> HIDE DEF s
  <2>3. s # 0
    BY <1>1, <2>1
  <2> QED BY <2>1, <2>2, <2>3
<1>3. CASE ~ \E s \in DOMAIN m.toggles : m.toggles[s].key = key
  <2>1. Slot(m, key) = 0
    BY <1>3 DEF Slot
  <2> QED BY <1>1, <1>3, <2>1
<1> QED BY <1>2, <1>3

SlotPut(m, s, slot) == [m EXCEPT !.toggles = [m.toggles EXCEPT ![s] = slot]]

LEMMA WithSlot ==
  ASSUME NEW m, Good(m), NEW s \in 1..Len(m.toggles), NEW slot \in Slots(DOMAIN m.text, Len(m.list))
  PROVE  LET x == SlotPut(m, s, slot) IN
         /\ Good(x) /\ Grows(m, x) /\ x.ok = m.ok /\ x.text = m.text /\ x.list = m.list
         /\ Len(x.toggles) = Len(m.toggles) /\ x.toggles[s] = slot
         /\ \A t \in 1..Len(m.toggles) : t # s => x.toggles[t] = m.toggles[t]
<1> DEFINE x == SlotPut(m, s, slot)
<1>1. /\ DOMAIN x = DOMAIN m /\ x.ok = m.ok /\ x.text = m.text /\ x.used = m.used /\ x.list = m.list
      /\ x.toggles = [m.toggles EXCEPT ![s] = slot]
  BY DEF Good, SlotPut
<1> HIDE DEF x
<1>2. m.toggles \in Seq(Slots(DOMAIN m.text, Len(m.list)))
  BY DEF Good
<1>3. /\ x.toggles \in Seq(Slots(DOMAIN m.text, Len(m.list)))
      /\ Len(x.toggles) = Len(m.toggles) /\ x.toggles[s] = slot
      /\ \A t \in 1..Len(m.toggles) : t # s => x.toggles[t] = m.toggles[t]
  BY <1>1, <1>2
<1>4. Good(x)
  BY <1>1, <1>3 DEF Good
<1> QED BY <1>1, <1>3, <1>4, ListType DEF Grows, x

VarPut(m, s, b, v, e) == [m EXCEPT !.toggles[s].block[b].var[v] = e]
CountPut(m, s, b, v) == [m EXCEPT !.toggles[s].block[b].nr_vars = IF v > @ THEN v ELSE @]

\* A variable of a block is pointed at a variable and a text, or stays unused:
\* only the v-th entry of a block is new.
VarWritten(m, x, s, b, v, e) ==
  /\ Writes(m, x, s) /\ x.ok = m.ok /\ x.toggles[s].block[b].var[v] = e
  /\ x.text = m.text /\ x.list = m.list
  /\ x.toggles[s].block[b].nr_vars = m.toggles[s].block[b].nr_vars

LEMMA WithVar ==
  ASSUME NEW m, Good(m), NEW s \in 1..Len(m.toggles), NEW b \in 1..MAX_BLOCKS, NEW v \in 1..MAX_VAR_PER_BLOCK,
         NEW e \in Entries(DOMAIN m.text, Len(m.list)),
         v <= m.toggles[s].block[b].nr_vars => e \in Used(DOMAIN m.text, Len(m.list))
  PROVE  VarWritten(m, VarPut(m, s, b, v, e), s, b, v, e)
<1> DEFINE x == VarPut(m, s, b, v, e)
           block == m.toggles[s].block[b]
           newblock == [block EXCEPT !.var = [block.var EXCEPT ![v] = e]]
           newslot == [m.toggles[s] EXCEPT !.block = [m.toggles[s].block EXCEPT ![b] = newblock]]
<1>1. /\ m.toggles[s] \in Slots(DOMAIN m.text, Len(m.list))
      /\ block \in Blocks(DOMAIN m.text, Len(m.list))
  BY SlotParts
<1>2. newblock \in Blocks(DOMAIN m.text, Len(m.list)) /\ newblock.var[v] = e /\ newblock.nr_vars = block.nr_vars
  <2> DEFINE D == DOMAIN m.text
             n == Len(m.list)
  <2> HIDE DEF block, D, n
  <2>1. block \in [nr_vars : 0..MAX_VAR_PER_BLOCK, var : [1..MAX_VAR_PER_BLOCK -> Entries(D, n)]]
    BY <1>1 DEF Blocks, D, n
  <2>2. e \in Entries(D, n) /\ (v <= block.nr_vars => e \in Used(D, n))
    BY DEF D, n, block
  <2>3. /\ newblock \in [nr_vars : 0..MAX_VAR_PER_BLOCK, var : [1..MAX_VAR_PER_BLOCK -> Entries(D, n)]]
        /\ newblock.nr_vars = block.nr_vars /\ newblock.var = [block.var EXCEPT ![v] = e]
    BY <2>1, <2>2
  <2>4. \A w \in 1..block.nr_vars : block.var[w] \in Used(D, n)
    BY <1>1 DEF Blocks, D, n
  <2>5. newblock.var[v] = e /\ \A w \in 1..newblock.nr_vars : newblock.var[w] \in Used(D, n)
    <3> HIDE DEF newblock
    <3>1. block.var \in [1..MAX_VAR_PER_BLOCK -> Entries(D, n)] /\ block.nr_vars \in 0..MAX_VAR_PER_BLOCK
      BY <2>1
    <3>2. newblock.var[v] = e
      BY <2>3, <3>1
    <3>3. ASSUME NEW w \in 1..newblock.nr_vars PROVE newblock.var[w] \in Used(D, n)
      <4>1. w \in 1..MAX_VAR_PER_BLOCK /\ block.var[w] \in Used(D, n)
        BY <2>3, <2>4, <3>1, Constants
      <4>2. newblock.var[w] = IF w = v THEN e ELSE block.var[w]
        BY <2>3, <3>1, <4>1
      <4>3. w = v => e \in Used(D, n)
        BY <2>2, <2>3, <3>1
      <4> QED BY <4>1, <4>2, <4>3
    <3> QED BY <3>2, <3>3
  <2> HIDE DEF newblock
  <2> QED BY <2>3, <2>5 DEF Blocks, D, n
<1>3. x = SlotPut(m, s, newslot)
  BY DEF SlotPut, VarPut, CountPut
<1> HIDE DEF block, newblock
<1>4. /\ newslot \in Slots(DOMAIN m.text, Len(m.list)) /\ newslot.block[b] = newblock
      /\ newslot.current_block = m.toggles[s].current_block /\ newslot.key = m.toggles[s].key
  BY <1>1, <1>2 DEF Slots, AtABlock
<1> HIDE DEF newslot, x
<1>5. /\ Good(x) /\ Grows(m, x) /\ x.ok = m.ok /\ x.text = m.text /\ x.list = m.list
      /\ Len(x.toggles) = Len(m.toggles) /\ x.toggles[s] = newslot
      /\ \A t \in 1..Len(m.toggles) : t # s => x.toggles[t] = m.toggles[t]
  BY <1>3, <1>4, WithSlot
<1>6. Writes(m, x, s)
  BY <1>4, <1>5 DEF Writes, Others
<1>7. x.toggles[s].block[b].var[v] = e /\ x.toggles[s].block[b].nr_vars = m.toggles[s].block[b].nr_vars
  BY <1>2, <1>4, <1>5 DEF block
<1>8. VarWritten(m, x, s, b, v, e)
  BY <1>5, <1>6, <1>7 DEF VarWritten
<1> QED BY <1>8 DEF x

\* The count of a block's variables is raised over variables that are used.
LEMMA WithCount ==
  ASSUME NEW m, Good(m), NEW s \in 1..Len(m.toggles), NEW b \in 1..MAX_BLOCKS, NEW v \in 1..MAX_VAR_PER_BLOCK,
         m.toggles[s].block[b].nr_vars >= v - 1,
         m.toggles[s].block[b].var[v] \in Used(DOMAIN m.text, Len(m.list))
  PROVE  LET x == CountPut(m, s, b, v) IN
         /\ Writes(m, x, s) /\ x.ok = m.ok /\ x.toggles[s].block[b].nr_vars >= v
<1> DEFINE x == CountPut(m, s, b, v)
           block == m.toggles[s].block[b]
           newblock == [block EXCEPT !.nr_vars = IF v > @ THEN v ELSE @]
           newslot == [m.toggles[s] EXCEPT !.block = [m.toggles[s].block EXCEPT ![b] = newblock]]
<1>1. /\ m.toggles[s] \in Slots(DOMAIN m.text, Len(m.list))
      /\ block \in Blocks(DOMAIN m.text, Len(m.list))
  BY SlotParts
<1>2. newblock \in Blocks(DOMAIN m.text, Len(m.list)) /\ newblock.nr_vars >= v
  <2>1. /\ block.nr_vars \in 0..MAX_VAR_PER_BLOCK /\ block.nr_vars >= v - 1
        /\ block.var[v] \in Used(DOMAIN m.text, Len(m.list))
        /\ \A w \in 1..block.nr_vars : block.var[w] \in Used(DOMAIN m.text, Len(m.list))
    BY <1>1 DEF Blocks
  <2>2. /\ newblock.var = block.var /\ newblock.nr_vars = (IF v > block.nr_vars THEN v ELSE block.nr_vars)
        /\ newblock \in [nr_vars : 0..MAX_VAR_PER_BLOCK, var : [1..MAX_VAR_PER_BLOCK -> Entries(DOMAIN m.text, Len(m.list))]]
    <3> HIDE DEF block
    <3> QED BY <1>1, <2>1 DEF Blocks
  <2>3. newblock.nr_vars >= v /\ \A w \in 1..newblock.nr_vars : w = v \/ w \in 1..block.nr_vars
    <3> HIDE DEF block, newblock
    <3> QED BY <2>1, <2>2
  <2> HIDE DEF block, newblock
  <2>4. \A w \in 1..newblock.nr_vars : newblock.var[w] \in Used(DOMAIN m.text, Len(m.list))
    BY <2>1, <2>2, <2>3
  <2> QED BY <2>2, <2>3, <2>4 DEF Blocks
<1>3. x = SlotPut(m, s, newslot)
  BY DEF SlotPut, VarPut, CountPut
<1> HIDE DEF block, newblock
<1>4. /\ newslot \in Slots(DOMAIN m.text, Len(m.list)) /\ newslot.block[b] = newblock
      /\ newslot.current_block = m.toggles[s].current_block /\ newslot.key = m.toggles[s].key
  BY <1>1, <1>2 DEF Slots, AtABlock
<1> HIDE DEF newslot, x
<1>5. /\ Good(x) /\ Grows(m, x) /\ x.ok = m.ok
      /\ Len(x.toggles) = Len(m.toggles) /\ x.toggles[s] = newslot
      /\ \A t \in 1..Len(m.toggles) : t # s => x.toggles[t] = m.toggles[t]
  BY <1>3, <1>4, WithSlot
<1> QED BY <1>2, <1>4, <1>5 DEF Writes, Others, x

LEMMA ProcessVarWrites ==
  ASSUME NEW m, Good(m), NEW s \in 1..Len(m.toggles), NEW b \in 1..MAX_BLOCKS, NEW v \in 1..MAX_VAR_PER_BLOCK,
         NEW pair \in [name : Names, value : Texts], m.toggles[s].block[b].nr_vars >= v - 1
  PROVE  /\ Writes(m, ProcessVar(m, s, b, v, pair), s)
         /\ ProcessVar(m, s, b, v, pair).ok => ProcessVar(m, s, b, v, pair).toggles[s].block[b].nr_vars >= v
<1> DEFINE a == Allocate(m, pair.value)
           set == SetNoCopy(a, pair.name, m.used)
           e == [var |-> Index(set, pair.name),
                 value |-> IF set.ok THEN m.used ELSE set.toggles[s].block[b].var[v].value]
           new == VarPut(set, s, b, v, e)
           n == IF SameText(m, s, b, v, pair) THEN m ELSE IF ~ Room(m, pair.value) THEN Fail(m) ELSE new
           counted == CountPut(n, s, b, v)
<1>1. ProcessVar(m, s, b, v, pair) = IF n.ok THEN counted ELSE n
  BY DEF ProcessVar, VarPut, CountPut
<1>2. pair.name \in Names /\ pair.value \in Texts
  OBVIOUS
<1> HIDE DEF n
<1>3. /\ Writes(m, n, s)
      /\ n.ok => /\ n.toggles[s].block[b].var[v] \in Used(DOMAIN n.text, Len(n.list))
                 /\ n.toggles[s].block[b].nr_vars >= v - 1
  <2>1. CASE SameText(m, s, b, v, pair)
    <3>1. n = m
      BY <2>1 DEF n
    <3>2. m.toggles[s].block[b].var[v] \in Entries(DOMAIN m.text, Len(m.list))
      BY SlotParts
    <3>3. m.toggles[s].block[b].var[v].value # None
      BY <2>1 DEF SameText
    <3> DEFINE was == m.toggles[s].block[b].var[v]
    <3> HIDE DEF was
    <3>6. was \in Entries(DOMAIN m.text, Len(m.list)) /\ was.value # None
      BY <3>2, <3>3 DEF was
    <3>7. was \in Used(DOMAIN m.text, Len(m.list))
      BY <3>6 DEF Entries, Used
    <3>4. m.toggles[s].block[b].var[v] \in Used(DOMAIN m.text, Len(m.list))
      BY <3>7 DEF was
    <3>5. Writes(m, m, s)
      BY WritesSelf
    <3> QED BY <3>1, <3>4, <3>5
  <2>2. CASE ~ SameText(m, s, b, v, pair) /\ ~ Room(m, pair.value)
    <3>1. n = Fail(m)
      BY <2>2 DEF n
    <3>2. Fail(m).ok = FALSE
      BY DEF Fail, Good
    <3> QED BY <3>1, <3>2, FailKeeps, KeptIsWritten
  <2>3. CASE ~ SameText(m, s, b, v, pair) /\ Room(m, pair.value)
    <3>1. n = new
      BY <2>3 DEF n
    <3>2. Keeps(m, a) /\ Good(a) /\ m.used \in DOMAIN a.text
      BY <1>2, <2>3, AllocateKeeps DEF Keeps
    <3> HIDE DEF a
    <3>3. Keeps(a, set) /\ Good(set) /\ (set.ok => Index(set, pair.name) # 0) /\ m.used \in DOMAIN set.text
      BY <1>2, <3>2, SetNoCopyKeeps DEF Keeps, Grows
    <3>4. Keeps(m, set)
      BY <3>2, <3>3, KeepsOn
    <3> HIDE DEF set
    <3>5. set.toggles = m.toggles /\ s \in 1..Len(set.toggles)
      BY <3>4 DEF Keeps
    <3>6. /\ e \in Entries(DOMAIN set.text, Len(set.list))
          /\ (set.ok \/ v <= set.toggles[s].block[b].nr_vars) => e \in Used(DOMAIN set.text, Len(set.list))
      <4> DEFINE was == set.toggles[s].block[b].var[v]
      <4>1. Index(set, pair.name) \in 0..Len(set.list)
        BY <3>3, IndexType
      <4>2. was \in Entries(DOMAIN set.text, Len(set.list))
        BY <3>3, <3>5, SlotParts
      <4>3. v <= set.toggles[s].block[b].nr_vars => was \in Used(DOMAIN set.text, Len(set.list))
        BY <3>3, <3>5, BlockParts
      <4> HIDE DEF was
      <4>4. e = [var |-> Index(set, pair.name), value |-> IF set.ok THEN m.used ELSE was.value]
        BY DEF was
      <4> HIDE DEF e
      <4> QED BY <3>3, <4>1, <4>2, <4>3, <4>4 DEF Entries, Used
    <3> HIDE DEF e
    <3>7. /\ Writes(set, new, s) /\ new.ok = set.ok /\ new.toggles[s].block[b].var[v] = e
          /\ new.text = set.text /\ new.list = set.list
          /\ new.toggles[s].block[b].nr_vars = set.toggles[s].block[b].nr_vars
      <4>1. v <= set.toggles[s].block[b].nr_vars => e \in Used(DOMAIN set.text, Len(set.list))
        BY <3>6
      <4>2. Good(set) /\ e \in Entries(DOMAIN set.text, Len(set.list))
        BY <3>3, <3>6
      <4>3. VarWritten(set, new, s, b, v, e)
        BY <3>5, <4>1, <4>2, WithVar
      <4> HIDE DEF new
      <4> QED BY <4>3 DEF VarWritten
    <3> HIDE DEF new
    <3>8. Writes(m, new, s)
      BY <3>4, <3>7, KeptIsWritten, WritesOn
    <3> QED BY <3>1, <3>5, <3>6, <3>7, <3>8
  <2> QED BY <2>1, <2>2, <2>3
<1>4. CASE n.ok
  <2>1. Good(n) /\ s \in 1..Len(n.toggles)
    BY <1>3 DEF Writes, Others
  <2>2. Writes(n, counted, s) /\ counted.toggles[s].block[b].nr_vars >= v
    BY <1>3, <1>4, <2>1, WithCount
  <2> HIDE DEF counted
  <2> QED BY <1>1, <1>3, <1>4, <2>2, WritesOn
<1>5. CASE ~ n.ok
  BY <1>1, <1>3, <1>5
<1> QED BY <1>4, <1>5

\* process_block()'s loop.
ProcessBlockRun(f, m, s, b, pairs) ==
  /\ f[0] = m /\ ProcessBlock(m, s, b, pairs) = f[Len(pairs)]
  /\ \A v \in 1..Len(pairs) : f[v] = IF ~ f[v - 1].ok THEN f[v - 1]
                                     ELSE IF v > MAX_VAR_PER_BLOCK THEN Fail(f[v - 1])
                                     ELSE ProcessVar(f[v - 1], s, b, v, pairs[v])

LEMMA ProcessBlockLoop ==
  ASSUME NEW m, NEW s, NEW b, NEW pairs, Len(pairs) \in Nat
  PROVE  \E f : ProcessBlockRun(f, m, s, b, pairs)
<1> DEFINE step(x, v) == IF ~ x.ok THEN x
                         ELSE IF v > MAX_VAR_PER_BLOCK THEN Fail(x)
                         ELSE ProcessVar(x, s, b, v, pairs[v])
           Is(f, n) == f = [v \in 0..n |-> IF v = 0 THEN m ELSE step(f[v-1], v)]
           N == Len(pairs)
           T == {n \in Nat : \E f : Is(f, n)}
<1> HIDE DEF step
<1>1. 0 \in T
  <2>1. Is([v \in 0..0 |-> m], 0)
    OBVIOUS
  <2> QED BY <2>1
<1>2. ASSUME NEW n \in T PROVE n + 1 \in T
  <2>1. PICK f : Is(f, n)
    OBVIOUS
  <2> DEFINE g == [v \in 0..(n+1) |-> IF v = n + 1 THEN step(f[n], v) ELSE f[v]]
  <2>2. ASSUME NEW v \in 0..(n+1) PROVE g[v] = IF v = 0 THEN m ELSE step(g[v-1], v)
    BY <2>1
  <2>3. Is(g, n + 1)
    BY <2>2, Zenon
  <2>4. n + 1 \in Nat
    OBVIOUS
  <2> HIDE DEF Is, g
  <2> QED BY <2>3, <2>4
<1>3. N \in T
  <2> HIDE DEF T
  <2>1. T \in SUBSET Nat
    BY DEF T
  <2>2. \A n \in T : n < N => n + 1 \in T
    BY <1>2
  <2>3. \A n \in 0..N : n \in T
    BY <1>1, <2>1, <2>2, Induction
  <2>4. N \in 0..N
    OBVIOUS
  <2> QED BY <2>3, <2>4
<1> DEFINE f == CHOOSE f : Is(f, N)
<1>4. Is(f, N)
  BY <1>3, Zenon
<1>5. ProcessBlock(m, s, b, pairs) = f[N]
  BY Zenon DEF ProcessBlock, step
<1> HIDE DEF f
<1>6. f[0] = m /\ \A v \in 1..N : f[v] = step(f[v-1], v)
  BY <1>4
<1> QED BY <1>5, <1>6 DEF step, ProcessBlockRun

LEMMA ProcessBlockWrites ==
  ASSUME NEW m, Good(m), NEW s \in 1..Len(m.toggles), NEW b \in 1..MAX_BLOCKS,
         NEW pairs \in Assignments(Texts)
  PROVE  Writes(m, ProcessBlock(m, s, b, pairs), s)
<1>1. Len(pairs) \in Nat /\ \A v \in 1..Len(pairs) : pairs[v] \in [name : Names, value : Texts]
  BY Elements
<1>2. PICK f : ProcessBlockRun(f, m, s, b, pairs)
  BY <1>1, ProcessBlockLoop
<1> DEFINE N == Len(pairs)
           T == {v \in 0..N : /\ Writes(m, f[v], s)
                              /\ f[v].ok => f[v].toggles[s].block[b].nr_vars >= v}
<1>3. 0 \in T
  <2>1. Writes(m, m, s)
    BY WritesSelf
  <2>2. m.toggles[s].block[b].nr_vars >= 0
    BY SlotParts
  <2> QED BY <1>1, <1>2, <2>1, <2>2 DEF ProcessBlockRun
<1>4. ASSUME NEW v \in T, v < N PROVE v + 1 \in T
  <2>1. /\ v \in Nat /\ v + 1 \in 1..N /\ v + 1 \in 0..N /\ (v + 1) - 1 = v /\ Writes(m, f[v], s) /\ Good(f[v])
        /\ s \in 1..Len(f[v].toggles) /\ (f[v].ok => f[v].toggles[s].block[b].nr_vars >= v)
    BY <1>1, <1>4 DEF Writes, Others
  <2>2. f[v + 1] = IF ~ f[v].ok THEN f[v]
                   ELSE IF v + 1 > MAX_VAR_PER_BLOCK THEN Fail(f[v])
                   ELSE ProcessVar(f[v], s, b, v + 1, pairs[v + 1])
    BY <1>2, <2>1 DEF ProcessBlockRun
  <2>3. CASE ~ f[v].ok
    BY <2>1, <2>2, <2>3
  <2>4. CASE f[v].ok /\ v + 1 > MAX_VAR_PER_BLOCK
    <3>1. Fail(f[v]).ok = FALSE
      BY <2>1 DEF Fail, Good
    <3>2. Writes(m, f[v + 1], s)
      BY <2>1, <2>2, <2>4, FailKeeps, KeptIsWritten, WritesOn
    <3> QED BY <2>1, <2>2, <2>4, <3>1, <3>2
  <2>5. CASE f[v].ok /\ ~ (v + 1 > MAX_VAR_PER_BLOCK)
    <3>1. v + 1 \in 1..MAX_VAR_PER_BLOCK
      BY <2>1, <2>5, Constants
    <3>2. pairs[v + 1] \in [name : Names, value : Texts]
      BY <1>1, <2>1
    <3>3. /\ Writes(f[v], f[v + 1], s)
          /\ f[v + 1].ok => f[v + 1].toggles[s].block[b].nr_vars >= v + 1
      BY <2>1, <2>2, <2>5, <3>1, <3>2, ProcessVarWrites
    <3>4. Writes(m, f[v + 1], s)
      BY <2>1, <3>3, WritesOn
    <3> QED BY <2>1, <3>3, <3>4
  <2> QED BY <2>3, <2>4, <2>5
<1>5. N \in T
  <2> HIDE DEF T
  <2>1. T \in SUBSET Nat
    BY DEF T
  <2>2. \A v \in T : v < N => v + 1 \in T
    BY <1>4
  <2>3. \A v \in 0..N : v \in T
    BY <1>1, <1>3, <2>1, <2>2, Induction
  <2> QED BY <1>1, <2>3
<1> QED BY <1>2, <1>5 DEF ProcessBlockRun

-------------------------------------------------------------------------------
(* toggle set.                                                                 *)

ToggleSlot(m, c) == IF Slot(m, c.key) = 0 THEN Len(m.toggles) + 1 ELSE Slot(m, c.key)
WithRoomFor(m, c) == IF Slot(m, c.key) = 0 THEN Append(m.toggles, EmptySlot(c.key)) ELSE m.toggles
Cleared(m, c) == [m EXCEPT !.toggles = [WithRoomFor(m, c) EXCEPT ![ToggleSlot(m, c)] = Reset(@)]]
Counted(x, s, n) == [x EXCEPT !.toggles[s].nr_blocks = n]

\* The slot's blocks are processed one after the other; f has the memory after each.
ToggleSetRun(f, m, c) ==
  /\ f[0] = Cleared(m, c)
  /\ \A b \in 1..Len(c.blocks) : f[b] = IF ~ f[b - 1].ok THEN f[b - 1]
                                        ELSE IF b > MAX_BLOCKS THEN Fail(f[b - 1])
                                        ELSE ProcessBlock(f[b - 1], ToggleSlot(m, c), b, c.blocks[b])
  /\ ToggleSet(m, c) =
       IF Slot(m, c.key) = 0 /\ Len(m.toggles) = TOGGLES THEN Fail(m)
       ELSE IF ~ f[Len(c.blocks)].ok THEN f[Len(c.blocks)]
       ELSE IF c.blocks = <<>> THEN Counted(f[Len(c.blocks)], ToggleSlot(m, c), Len(c.blocks))
       ELSE DoBlock(Counted(f[Len(c.blocks)], ToggleSlot(m, c), Len(c.blocks)), ToggleSlot(m, c), 1)

LEMMA ToggleSetLoop ==
  ASSUME NEW m, NEW c, Len(c.blocks) \in Nat
  PROVE  \E f : ToggleSetRun(f, m, c)
<1> DEFINE s == ToggleSlot(m, c)
           empty == Cleared(m, c)
           step(x, b) == IF ~ x.ok THEN x
                         ELSE IF b > MAX_BLOCKS THEN Fail(x)
                         ELSE ProcessBlock(x, s, b, c.blocks[b])
           Is(f, n) == f = [b \in 0..n |-> IF b = 0 THEN empty ELSE step(f[b-1], b)]
           N == Len(c.blocks)
           T == {n \in Nat : \E f : Is(f, n)}
<1>0. N \in Nat
  OBVIOUS
<1> HIDE DEF step, s, empty, N
<1>1. 0 \in T
  <2>1. Is([b \in 0..0 |-> empty], 0)
    OBVIOUS
  <2> QED BY <2>1
<1>2. ASSUME NEW n \in T PROVE n + 1 \in T
  <2>1. PICK f : Is(f, n)
    OBVIOUS
  <2> DEFINE g == [b \in 0..(n+1) |-> IF b = n + 1 THEN step(f[n], b) ELSE f[b]]
  <2>2. ASSUME NEW b \in 0..(n+1) PROVE g[b] = IF b = 0 THEN empty ELSE step(g[b-1], b)
    BY <2>1
  <2>3. Is(g, n + 1)
    BY <2>2, Zenon
  <2>4. n + 1 \in Nat
    OBVIOUS
  <2> HIDE DEF Is, g
  <2> QED BY <2>3, <2>4
<1>3. N \in T
  <2> HIDE DEF T
  <2>1. T \in SUBSET Nat
    BY DEF T
  <2>2. \A n \in T : n < N => n + 1 \in T
    BY <1>2
  <2>3. \A n \in 0..N : n \in T
    BY <1>0, <1>1, <2>1, <2>2, Induction
  <2> QED BY <1>0, <2>3
<1> DEFINE f == CHOOSE f : Is(f, N)
<1>4. Is(f, N)
  BY <1>3, Zenon
<1>5. ToggleSet(m, c) =
        IF Slot(m, c.key) = 0 /\ Len(m.toggles) = TOGGLES THEN Fail(m)
        ELSE IF ~ f[N].ok THEN f[N]
        ELSE IF c.blocks = <<>> THEN Counted(f[N], s, N) ELSE DoBlock(Counted(f[N], s, N), s, 1)
  BY Zenon DEF ToggleSet, N, step, s, empty, ToggleSlot, Cleared, WithRoomFor, Counted
<1> HIDE DEF f
<1>6. f[0] = empty /\ \A b \in 1..N : f[b] = step(f[b-1], b)
  BY <1>0, <1>4
<1> QED BY <1>5, <1>6 DEF step, s, empty, N, ToggleSetRun

LEMMA EmptySlotType ==
  ASSUME NEW D, NEW n \in Nat, NEW key \in Keys
  PROVE  EmptySlot(key) \in Slots(D, n)
<1>1. EmptyBlock \in Blocks(D, n)
  <2>1. [v \in 1..MAX_VAR_PER_BLOCK |-> [var |-> 0, value |-> None]] \in [1..MAX_VAR_PER_BLOCK -> Entries(D, n)]
    BY DEF Entries
  <2> QED BY <2>1, Constants DEF EmptyBlock, Blocks
<1> QED BY <1>1, Constants DEF EmptySlot, Slots, AtABlock

LEMMA ResetType ==
  ASSUME NEW D, NEW n, NEW slot \in Slots(D, n)
  PROVE  Reset(slot) \in Slots(D, n) /\ Reset(slot).current_block = 0
<1> DEFINE block == [b \in DOMAIN slot.block |-> IF b <= MAX_VAR_PER_BLOCK
                                                THEN [slot.block[b] EXCEPT !.nr_vars = 0] ELSE slot.block[b]]
<1>1. slot.block \in [1..MAX_BLOCKS -> Blocks(D, n)]
  BY DEF Slots
<1>2. ASSUME NEW old \in Blocks(D, n) PROVE [old EXCEPT !.nr_vars = 0] \in Blocks(D, n)
  BY Constants DEF Blocks
<1>3. block \in [1..MAX_BLOCKS -> Blocks(D, n)]
  BY <1>1, <1>2
<1>4. Reset(slot) = [slot EXCEPT !.nr_blocks = 0, !.current_block = 0, !.block = block]
  BY DEF Reset
<1> HIDE DEF block
<1>5. slot \in [key : Keys, current_block : Nat, nr_blocks : 0..MAX_BLOCKS, block : [1..MAX_BLOCKS -> Blocks(D, n)]]
  BY DEF Slots
<1>6. /\ Reset(slot) \in [key : Keys, current_block : Nat, nr_blocks : 0..MAX_BLOCKS, block : [1..MAX_BLOCKS -> Blocks(D, n)]]
      /\ Reset(slot).nr_blocks = 0 /\ Reset(slot).current_block = 0
  <2> DEFINE B == [1..MAX_BLOCKS -> Blocks(D, n)]
  <2>1. block \in B /\ slot \in [key : Keys, current_block : Nat, nr_blocks : 0..MAX_BLOCKS, block : B]
    BY <1>3, <1>5
  <2>2. 0 \in 0..MAX_BLOCKS
    BY Constants
  <2> HIDE DEF B
  <2>3. /\ Reset(slot) \in [key : Keys, current_block : Nat, nr_blocks : 0..MAX_BLOCKS, block : B]
        /\ Reset(slot).nr_blocks = 0 /\ Reset(slot).current_block = 0
    <3>1. Reset(slot) = [key |-> slot.key, current_block |-> 0, nr_blocks |-> 0, block |-> block]
      BY <1>4, <2>1
    <3>2. slot.key \in Keys /\ 0 \in Nat
      BY <2>1
    <3> QED BY <2>1, <2>2, <3>1, <3>2
  <2> QED BY <2>3 DEF B
<1> QED BY <1>6 DEF Slots, AtABlock

LEMMA ClearedGood ==
  ASSUME NEW m, Good(m), NEW c, c.key \in Keys
  PROVE  /\ Good(Cleared(m, c)) /\ ToggleSlot(m, c) \in 1..Len(Cleared(m, c).toggles)
         /\ Cleared(m, c).toggles[ToggleSlot(m, c)].current_block = 0
<1> DEFINE s == ToggleSlot(m, c)
           S == Slots(DOMAIN m.text, Len(m.list))
           slots == WithRoomFor(m, c)
           new == Reset(slots[s])
           x == Cleared(m, c)
<1>1. Len(m.toggles) \in Nat /\ Slot(m, c.key) \in 0..Len(m.toggles) /\ m.toggles \in Seq(S)
  BY SlotType DEF Good
<1>2. EmptySlot(c.key) \in S
  BY EmptySlotType
<1> HIDE DEF S
<1>3. slots \in Seq(S) /\ Len(slots) \in Nat /\ s \in 1..Len(slots)
  BY <1>1, <1>2 DEF WithRoomFor, ToggleSlot
<1> HIDE DEF s, slots
<1>4. slots[s] \in S
  BY <1>3
<1>5. new \in S /\ new.current_block = 0
  BY <1>4, ResetType DEF S
<1>6. x = [m EXCEPT !.toggles = [slots EXCEPT ![s] = new]]
  BY DEF Cleared, s, slots
<1> HIDE DEF new, x
<1>7. /\ DOMAIN x = DOMAIN m /\ x.ok = m.ok /\ x.text = m.text /\ x.used = m.used /\ x.list = m.list
      /\ x.toggles = [slots EXCEPT ![s] = new]
  BY <1>6 DEF Good
<1>8. x.toggles \in Seq(S) /\ Len(x.toggles) = Len(slots) /\ x.toggles[s] = new
  BY <1>3, <1>5, <1>7
<1>9. Good(x)
  BY <1>7, <1>8 DEF Good, S
<1> QED BY <1>3, <1>5, <1>8, <1>9 DEF x, s

LEMMA ClearedLeaves ==
  ASSUME NEW m, Good(m), NEW c, c.key \in Keys
  PROVE  /\ Leaves(m, Cleared(m, c), {c.key})
         /\ Cleared(m, c).toggles[ToggleSlot(m, c)].key = c.key
<1> DEFINE s == ToggleSlot(m, c)
           S == Slots(DOMAIN m.text, Len(m.list))
           slots == WithRoomFor(m, c)
           x == Cleared(m, c)
<1>1. Len(m.toggles) \in Nat /\ Slot(m, c.key) \in 0..Len(m.toggles) /\ m.toggles \in Seq(S)
  BY SlotType DEF Good
<1>2. EmptySlot(c.key) \in S /\ EmptySlot(c.key).key = c.key
  BY EmptySlotType DEF EmptySlot
<1>3. x.toggles = [slots EXCEPT ![s] = Reset(slots[s])]
  BY DEF Cleared, Good
<1> HIDE DEF S, x
<1>4. ASSUME NEW slot \in S PROVE Reset(slot).key = slot.key
  BY DEF Reset, S, Slots
<1>5. CASE Slot(m, c.key) = 0
  <2> DEFINE n == Len(m.toggles) + 1
             e == EmptySlot(c.key)
  <2> HIDE DEF e
  <2>1. s = n /\ slots = Append(m.toggles, e)
    BY <1>5 DEF ToggleSlot, WithRoomFor, e
  <2> HIDE DEF s, slots
  <2>2. e \in S /\ e.key = c.key
    BY <1>2 DEF e
  <2>3. slots \in Seq(S) /\ Len(slots) = n /\ slots[n] = e /\ \A t \in 1..Len(m.toggles) : slots[t] = m.toggles[t]
    BY <1>1, <2>1, <2>2
  <2>4. /\ Len(x.toggles) = n /\ x.toggles[n] = Reset(e)
        /\ \A t \in 1..Len(m.toggles) : x.toggles[t] = m.toggles[t]
    <3> DEFINE r == Reset(e)
    <3>1. x.toggles = [slots EXCEPT ![n] = r]
      BY <1>3, <2>1, <2>3
    <3> HIDE DEF r
    <3>2. DOMAIN slots = 1..n /\ n \in Nat
      BY <1>1, <2>3
    <3>3. x.toggles \in Seq(S \cup {r}) /\ Len(x.toggles) = n /\ x.toggles[n] = r
      BY <2>3, <3>1, <3>2
    <3>4. ASSUME NEW t \in 1..Len(m.toggles) PROVE x.toggles[t] = m.toggles[t]
      <4>1. t \in 1..n /\ t # n
        BY <1>1
      <4> QED BY <2>3, <3>1, <3>2, <4>1
    <3> QED BY <3>3, <3>4 DEF r
  <2>5. x.toggles[n].key = c.key
    BY <1>4, <2>2, <2>4
  <2>6. \A t \in 1..Len(m.toggles) : m.toggles[t].key # c.key
    BY <1>5, SlotIs
  <2>7. ASSUME Unique(m), NEW t \in 1..n, NEW u \in 1..n, x.toggles[t].key = x.toggles[u].key PROVE t = u
    <3>1. \A v \in 1..n : v = n \/ v \in 1..Len(m.toggles)
      BY <1>1
    <3>2. CASE t \in 1..Len(m.toggles) /\ u \in 1..Len(m.toggles)
      BY <2>4, <2>7, <3>2, Zenon DEF Unique
    <3>3. CASE t = n /\ u \in 1..Len(m.toggles)
      BY <2>4, <2>5, <2>6, <2>7, <3>3, Zenon
    <3>4. CASE u = n /\ t \in 1..Len(m.toggles)
      BY <2>4, <2>5, <2>6, <2>7, <3>4, Zenon
    <3>5. CASE t = n /\ u = n
      BY <3>5
    <3> QED BY <3>1, <3>2, <3>3, <3>4, <3>5, Zenon
  <2>8. Unique(m) => Unique(x)
    BY <2>4, <2>7, Zenon DEF Unique
  <2>9. Len(m.toggles) <= Len(x.toggles)
    BY <1>1, <2>4
  <2>10. Leaves(m, x, {c.key})
    BY <2>4, <2>8, <2>9, Zenon DEF Leaves
  <2> QED BY <2>1, <2>5, <2>10 DEF x, s
<1>6. CASE Slot(m, c.key) # 0
  <2>1. s = Slot(m, c.key) /\ slots = m.toggles
    BY <1>6 DEF ToggleSlot, WithRoomFor
  <2> HIDE DEF s, slots
  <2>2. s \in 1..Len(m.toggles) /\ m.toggles[s].key = c.key /\ m.toggles[s] \in S
    BY <1>1, <1>6, <2>1, SlotIs
  <2>3. /\ Len(x.toggles) = Len(m.toggles) /\ x.toggles[s] = Reset(m.toggles[s])
        /\ \A t \in 1..Len(m.toggles) : t # s => x.toggles[t] = m.toggles[t]
    BY <1>1, <1>3, <2>1, <2>2
  <2>4. x.toggles[s].key = c.key
    BY <1>4, <2>2, <2>3
  <2>5. Others(m, x, s)
    BY <2>2, <2>3, <2>4 DEF Others
  <2>6. Leaves(m, x, {c.key})
    BY <2>2, <2>5, OthersLeft
  <2> QED BY <2>4, <2>6 DEF x, s
<1> QED BY <1>5, <1>6

LEMMA ToggleSetGood ==
  ASSUME NEW m, Good(m), NEW c, c.key \in Keys, c.blocks \in Seq(Assignments(Texts))
  PROVE  Good(ToggleSet(m, c)) /\ Leaves(m, ToggleSet(m, c), {c.key})
<1> DEFINE N == Len(c.blocks)
           s == ToggleSlot(m, c)
           x == Cleared(m, c)
<1> HIDE DEF N, s, x
<1>1. N \in Nat /\ \A b \in 1..N : c.blocks[b] \in Assignments(Texts)
  <2> DEFINE A == Assignments(Texts)
  <2> HIDE DEF A
  <2>1. c.blocks \in Seq(A)
    BY DEF A
  <2>2. N \in Nat /\ \A b \in 1..N : c.blocks[b] \in A
    BY <2>1, Elements DEF N
  <2> QED BY <2>2 DEF A
<1>2. PICK f : ToggleSetRun(f, m, c)
  BY <1>1, ToggleSetLoop DEF N
<1>3. Good(x) /\ s \in 1..Len(x.toggles) /\ x.toggles[s].current_block = 0
  BY ClearedGood DEF x, s
<1> DEFINE T == {b \in 0..N : Writes(x, f[b], s) /\ (f[b].ok => b <= MAX_BLOCKS)}
<1>4. 0 \in T
  <2>1. Writes(x, x, s) /\ f[0] = x
    BY <1>2, <1>3, WritesSelf DEF ToggleSetRun, x
  <2> QED BY <1>1, <2>1, Constants
<1>5. ASSUME NEW b \in T, b < N PROVE b + 1 \in T
  <2>1. /\ b \in Nat /\ b + 1 \in 1..N /\ b + 1 \in 0..N /\ (b + 1) - 1 = b /\ Writes(x, f[b], s) /\ Good(f[b])
        /\ s \in 1..Len(f[b].toggles)
    BY <1>1, <1>3, <1>5 DEF Writes, Others
  <2>2. f[b + 1] = IF ~ f[b].ok THEN f[b]
                   ELSE IF b + 1 > MAX_BLOCKS THEN Fail(f[b])
                   ELSE ProcessBlock(f[b], s, b + 1, c.blocks[b + 1])
    BY <1>2, <2>1 DEF ToggleSetRun, N, s
  <2>3. CASE ~ f[b].ok
    BY <2>1, <2>2, <2>3
  <2>4. CASE f[b].ok /\ b + 1 > MAX_BLOCKS
    <3>1. Fail(f[b]).ok = FALSE
      BY <2>1 DEF Fail, Good
    <3>2. Writes(x, f[b + 1], s)
      BY <1>3, <2>1, <2>2, <2>4, FailKeeps, KeptIsWritten, WritesOn
    <3> QED BY <2>1, <2>2, <2>4, <3>1, <3>2
  <2>5. CASE f[b].ok /\ ~ (b + 1 > MAX_BLOCKS)
    <3>1. b + 1 \in 1..MAX_BLOCKS
      BY <2>1, <2>5, Constants
    <3>2. c.blocks[b + 1] \in Assignments(Texts)
      BY <1>1, <2>1
    <3>3. Writes(f[b], f[b + 1], s)
      BY <2>1, <2>2, <2>5, <3>1, <3>2, ProcessBlockWrites
    <3>4. Writes(x, f[b + 1], s)
      BY <1>3, <2>1, <3>3, WritesOn
    <3>5. b + 1 <= MAX_BLOCKS
      BY <3>1, Constants
    <3> QED BY <2>1, <3>4, <3>5
  <2> QED BY <2>3, <2>4, <2>5
<1>6. N \in T
  <2> HIDE DEF T
  <2>1. T \in SUBSET Nat
    BY DEF T
  <2>2. \A b \in T : b < N => b + 1 \in T
    BY <1>5
  <2>3. \A b \in 0..N : b \in T
    BY <1>1, <1>4, <2>1, <2>2, Induction
  <2> QED BY <1>1, <2>3
<1> DEFINE last == f[N]
           all == Counted(last, s, N)
<1>7. /\ Good(last) /\ s \in 1..Len(last.toggles) /\ last.toggles[s].current_block = 0
      /\ last.ok => N <= MAX_BLOCKS
      /\ Others(x, last, s)
  BY <1>3, <1>6 DEF Writes, Others
<1>12. Leaves(m, x, {c.key}) /\ x.toggles[s].key = c.key
  BY ClearedLeaves DEF x, s
<1>13. Leaves(m, last, {c.key}) /\ last.toggles[s].key = c.key
  <2> HIDE DEF last
  <2>1. Leaves(x, last, {c.key})
    BY <1>3, <1>7, <1>12, OthersLeft
  <2> QED BY <1>3, <1>7, <1>12, <2>1, LeavesOn DEF Others
<1>8. ToggleSet(m, c) = IF Slot(m, c.key) = 0 /\ Len(m.toggles) = TOGGLES THEN Fail(m)
                        ELSE IF ~ last.ok THEN last
                        ELSE IF c.blocks = <<>> THEN all ELSE DoBlock(all, s, 1)
  BY <1>2 DEF ToggleSetRun, N, s
<1> HIDE DEF last
<1>9. ASSUME last.ok PROVE Good(all) /\ s \in 1..Len(all.toggles) /\ Leaves(m, all, {c.key})
  <2> DEFINE old == last.toggles[s]
             slot == [old EXCEPT !.nr_blocks = N]
  <2>1. old \in Slots(DOMAIN last.text, Len(last.list)) /\ old.current_block = 0 /\ N \in 0..MAX_BLOCKS
    BY <1>1, <1>7, <1>9, SlotParts, Constants
  <2>2. all = SlotPut(last, s, slot)
    BY DEF SlotPut, Counted
  <2> HIDE DEF old
  <2>3. slot \in Slots(DOMAIN last.text, Len(last.list)) /\ slot.key = old.key
    BY <2>1 DEF Slots, AtABlock
  <2>4. old.key = c.key
    BY <1>13 DEF old
  <2> HIDE DEF slot, all
  <2>5. /\ Good(all) /\ Len(all.toggles) = Len(last.toggles) /\ all.toggles[s] = slot
        /\ \A t \in 1..Len(last.toggles) : t # s => all.toggles[t] = last.toggles[t]
    BY <1>7, <2>2, <2>3, WithSlot
  <2>6. Others(last, all, s)
    BY <1>13, <2>3, <2>4, <2>5 DEF Others
  <2>7. Leaves(last, all, {c.key})
    BY <1>7, <1>13, <2>6, OthersLeft
  <2>8. Leaves(m, all, {c.key})
    BY <1>7, <1>13, <2>5, <2>7, LeavesOn
  <2> QED BY <1>7, <2>5, <2>8
<1>10. last.ok => Good(DoBlock(all, s, 1)) /\ Leaves(m, DoBlock(all, s, 1), {c.key})
  <2>1. 1 \in 1..MAX_BLOCKS
    BY Constants
  <2> HIDE DEF all
  <2> SUFFICES ASSUME last.ok PROVE Good(DoBlock(all, s, 1)) /\ Leaves(m, DoBlock(all, s, 1), {c.key})
    OBVIOUS
  <2>2. Good(all) /\ Good(DoBlock(all, s, 1)) /\ DoBlock(all, s, 1).toggles = all.toggles
    BY <1>9, <2>1, DoBlockKeeps DEF Keeps
  <2>3. Leaves(all, DoBlock(all, s, 1), {c.key})
    BY <2>2, SameToggles
  <2> QED BY <1>9, <2>2, <2>3, LeavesOn
<1>11. Good(Fail(m)) /\ Leaves(m, Fail(m), {c.key})
  <2>1. Good(Fail(m)) /\ Fail(m).toggles = m.toggles
    BY FailKeeps DEF Keeps
  <2> QED BY <2>1, SameToggles
<1> HIDE DEF all
<1> QED BY <1>7, <1>8, <1>9, <1>10, <1>11, <1>13

-------------------------------------------------------------------------------
(* toggle select.                                                              *)

\* Selecting moves the toggles of the keys K among their blocks.
Chosen(m, x, K) ==
  /\ Good(x) /\ Len(x.toggles) = Len(m.toggles)
  /\ \A s \in 1..Len(m.toggles) : x.toggles[s].nr_blocks = m.toggles[s].nr_blocks
  /\ Leaves(m, x, K)
Picked(c) == {c.picks[i].key : i \in DOMAIN c.picks} \ {last_key_pressed}
MovedTo(x, s, b) == [DoBlock(x, s, b + 1) EXCEPT !.toggles[s].current_block = b]

SelectStep(m, c, triggered, x, i) ==
  LET s == Slot(m, c.picks[i].key)
      b == c.picks[i].block
  IN  IF x.stop THEN x
      ELSE IF ~ Selects(c.picks[i].key, triggered) THEN [x EXCEPT !.stop = TRUE]
      ELSE IF s = 0 THEN [stop |-> TRUE, m |-> Fail(x.m)]
      ELSE IF b >= m.toggles[s].nr_blocks THEN [stop |-> TRUE, m |-> Fail(x.m)]
      ELSE [stop |-> FALSE, m |-> MovedTo(x.m, s, b)]
SelectRun(f, m, c, triggered) ==
  /\ f[0] = [stop |-> FALSE, m |-> m] /\ Select(m, c, triggered) = f[Len(c.picks)].m
  /\ \A i \in 1..Len(c.picks) : f[i] = SelectStep(m, c, triggered, f[i - 1], i)

LEMMA SelectLoop ==
  ASSUME NEW m, NEW c, Len(c.picks) \in Nat, NEW triggered
  PROVE  \E f : SelectRun(f, m, c, triggered)
<1> DEFINE none == [stop |-> FALSE, m |-> m]
           step(x, i) == SelectStep(m, c, triggered, x, i)
           Is(f, n) == f = [i \in 0..n |-> IF i = 0 THEN none ELSE step(f[i-1], i)]
           N == Len(c.picks)
           T == {n \in Nat : \E f : Is(f, n)}
<1>0. N \in Nat
  OBVIOUS
<1> HIDE DEF step, none, N
<1>1. 0 \in T
  <2>1. Is([i \in 0..0 |-> none], 0)
    OBVIOUS
  <2> QED BY <2>1
<1>2. ASSUME NEW n \in T PROVE n + 1 \in T
  <2>1. PICK f : Is(f, n)
    OBVIOUS
  <2> DEFINE g == [i \in 0..(n+1) |-> IF i = n + 1 THEN step(f[n], i) ELSE f[i]]
  <2>2. ASSUME NEW i \in 0..(n+1) PROVE g[i] = IF i = 0 THEN none ELSE step(g[i-1], i)
    BY <2>1
  <2>3. Is(g, n + 1)
    BY <2>2, Zenon
  <2>4. n + 1 \in Nat
    OBVIOUS
  <2> HIDE DEF Is, g
  <2> QED BY <2>3, <2>4
<1>3. N \in T
  <2> HIDE DEF T
  <2>1. T \in SUBSET Nat
    BY DEF T
  <2>2. \A n \in T : n < N => n + 1 \in T
    BY <1>2
  <2>3. \A n \in 0..N : n \in T
    BY <1>0, <1>1, <2>1, <2>2, Induction
  <2> QED BY <1>0, <2>3
<1> DEFINE f == CHOOSE f : Is(f, N)
<1>4. Is(f, N)
  BY <1>3, Zenon
<1>5. Select(m, c, triggered) = f[N].m
  BY Zenon DEF Select, SelectStep, MovedTo, N, step, none
<1> HIDE DEF f
<1>6. f[0] = none /\ \A i \in 1..N : f[i] = step(f[i-1], i)
  BY <1>0, <1>4
<1> QED BY <1>5, <1>6 DEF step, none, N, SelectRun

LEMMA MovedToIsChosen ==
  ASSUME NEW m, NEW x, NEW K, Good(m), Chosen(m, x, K), NEW s \in 1..Len(m.toggles), m.toggles[s].key \in K,
         NEW b \in Nat, b < m.toggles[s].nr_blocks
  PROVE  Chosen(m, MovedTo(x, s, b), K)
<1> DEFINE y == DoBlock(x, s, b + 1)
           old == y.toggles[s]
           slot == [old EXCEPT !.current_block = b]
           z == MovedTo(x, s, b)
<1>1. Good(x) /\ s \in 1..Len(x.toggles) /\ x.toggles[s].nr_blocks = m.toggles[s].nr_blocks
  BY DEF Chosen
<1>2. x.toggles[s].nr_blocks \in 0..MAX_BLOCKS
  BY <1>1, SlotParts DEF Slots
<1>3. b + 1 \in 1..MAX_BLOCKS
  BY <1>1, <1>2, Constants
<1>4. Good(y) /\ y.toggles = x.toggles
  BY <1>1, <1>3, DoBlockKeeps DEF Keeps
<1>5. z = SlotPut(y, s, slot)
  BY DEF SlotPut, MovedTo
<1> HIDE DEF y
<1>6. old \in Slots(DOMAIN y.text, Len(y.list)) /\ old.nr_blocks = m.toggles[s].nr_blocks
  BY <1>1, <1>4, SlotParts
<1> HIDE DEF old
<1>7. /\ slot \in Slots(DOMAIN y.text, Len(y.list)) /\ slot.nr_blocks = m.toggles[s].nr_blocks
      /\ slot.key = old.key
  BY <1>6 DEF Slots, AtABlock
<1>0. old.key = m.toggles[s].key
  BY <1>4 DEF old, Chosen, Leaves
<1> HIDE DEF slot, z
<1>8. s \in 1..Len(y.toggles)
  BY <1>1, <1>4
<1>9. /\ Good(z) /\ Len(z.toggles) = Len(y.toggles) /\ z.toggles[s] = slot
      /\ \A t \in 1..Len(y.toggles) : t # s => z.toggles[t] = y.toggles[t]
  BY <1>4, <1>5, <1>7, <1>8, WithSlot
<1>10. Len(y.toggles) = Len(m.toggles) /\ Len(x.toggles) = Len(m.toggles)
  BY <1>4 DEF Chosen
<1>11. ASSUME NEW t \in 1..Len(m.toggles) PROVE z.toggles[t].nr_blocks = m.toggles[t].nr_blocks
  <2>1. CASE t = s
    BY <1>7, <1>9, <2>1
  <2>2. CASE t # s
    BY <1>4, <1>9, <1>10, <2>2 DEF Chosen
  <2> QED BY <2>1, <2>2
<1>12. Others(x, z, s)
  <2>1. slot.key = x.toggles[s].key
    BY <1>0, <1>7 DEF Chosen, Leaves
  <2> QED BY <1>4, <1>9, <2>1 DEF Others
<1>13. Leaves(x, z, K)
  <2>1. x.toggles[s].key \in K
    BY DEF Chosen, Leaves
  <2> QED BY <1>1, <1>12, <2>1, OthersLeft
<1>14. Leaves(m, z, K)
  BY <1>1, <1>9, <1>13, LeavesOn DEF Chosen
<1> QED BY <1>9, <1>10, <1>11, <1>14 DEF Chosen, z

LEMMA SelectGood ==
  ASSUME NEW m, Good(m), NEW c, c.picks \in Seq([key : Keys, block : Nat]), NEW triggered
  PROVE  Good(Select(m, c, triggered)) /\ Leaves(m, Select(m, c, triggered), Picked(c))
<1> DEFINE N == Len(c.picks)
<1>1. N \in Nat /\ \A i \in 1..N : c.picks[i] \in [key : Keys, block : Nat]
  BY Elements
<1>2. PICK f : SelectRun(f, m, c, triggered)
  BY <1>1, SelectLoop
<1>3. Len(m.toggles) \in Nat
  BY SlotType
<1> HIDE DEF N
<1> DEFINE T == {i \in 0..N : DOMAIN f[i] = {"stop", "m"} /\ Chosen(m, f[i].m, Picked(c))}
<1>4. 0 \in T
  <2>1. f[0] = [stop |-> FALSE, m |-> m]
    BY <1>2 DEF SelectRun
  <2>2. DOMAIN f[0] = {"stop", "m"} /\ f[0].m = m
    BY <2>1
  <2>3. Leaves(m, m, Picked(c))
    BY SameToggles
  <2> QED BY <1>1, <2>2, <2>3 DEF Chosen
<1>5. ASSUME NEW i \in T, i < N PROVE i + 1 \in T
  <2> DEFINE s == Slot(m, c.picks[i + 1].key)
             b == c.picks[i + 1].block
  <2>1. /\ i + 1 \in 1..N /\ i + 1 \in 0..N /\ (i + 1) - 1 = i
        /\ DOMAIN f[i] = {"stop", "m"} /\ Chosen(m, f[i].m, Picked(c)) /\ Good(f[i].m)
    BY <1>1, <1>5 DEF Chosen
  <2>2. b \in Nat /\ s \in 0..Len(m.toggles)
    BY <1>1, <2>1, SlotType
  <2>3. f[i + 1] = SelectStep(m, c, triggered, f[i], i + 1)
    BY <1>2, <2>1 DEF SelectRun, N
  <2>4. CASE f[i + 1] = f[i]
    BY <2>1, <2>4
  <2>5. CASE f[i + 1] = [f[i] EXCEPT !.stop = TRUE]
    <3>1. DOMAIN f[i + 1] = {"stop", "m"} /\ f[i + 1].m = f[i].m
      BY <2>1, <2>5
    <3> QED BY <2>1, <3>1
  <2>6. CASE f[i + 1] = [stop |-> TRUE, m |-> Fail(f[i].m)]
    <3>1. DOMAIN f[i + 1] = {"stop", "m"} /\ f[i + 1].m = Fail(f[i].m)
      BY <2>6
    <3>2. Good(Fail(f[i].m)) /\ Fail(f[i].m).toggles = f[i].m.toggles
      BY <2>1, FailKeeps DEF Keeps
    <3>3. Leaves(m, Fail(f[i].m), Picked(c))
      BY <2>1, <3>2, SameToggles, LeavesOn DEF Chosen
    <3>4. Chosen(m, Fail(f[i].m), Picked(c))
      BY <2>1, <3>2, <3>3 DEF Chosen
    <3> QED BY <2>1, <3>1, <3>4
  <2>7. CASE /\ f[i + 1] = [stop |-> FALSE, m |-> MovedTo(f[i].m, s, b)] /\ s # 0 /\ ~ (b >= m.toggles[s].nr_blocks)
             /\ Selects(c.picks[i + 1].key, triggered)
    <3>1. DOMAIN f[i + 1] = {"stop", "m"} /\ f[i + 1].m = MovedTo(f[i].m, s, b)
      BY <2>7
    <3>2. s \in 1..Len(m.toggles)
      BY <1>3, <2>2, <2>7
    <3>6. m.toggles[s].key \in Picked(c)
      <4>1. m.toggles[s].key = c.picks[i + 1].key
        BY <2>7, SlotIs
      <4>2. c.picks[i + 1].key # last_key_pressed
        BY <2>7 DEF Selects
      <4>3. i + 1 \in DOMAIN c.picks
        BY <1>1, <2>1 DEF N
      <4> QED BY <4>1, <4>2, <4>3 DEF Picked
    <3> HIDE DEF s
    <3>3. m.toggles[s].nr_blocks \in Nat
      <4>1. 1 \in 1..MAX_BLOCKS
        BY Constants
      <4> QED BY <3>2, <4>1, BlockParts
    <3>4. b < m.toggles[s].nr_blocks
      <4> HIDE DEF b
      <4> QED BY <2>2, <2>7, <3>3
    <3> HIDE DEF b
    <3>5. Chosen(m, MovedTo(f[i].m, s, b), Picked(c))
      BY <2>1, <2>2, <3>2, <3>4, <3>6, MovedToIsChosen
    <3> QED BY <2>1, <3>1, <3>5
  <2> HIDE DEF T
  <2> QED BY <2>3, <2>4, <2>5, <2>6, <2>7, Zenon DEF SelectStep
<1>6. N \in T
  <2> HIDE DEF T
  <2>1. T \in SUBSET Nat
    BY DEF T
  <2>2. \A i \in T : i < N => i + 1 \in T
    BY <1>5
  <2>3. \A i \in 0..N : i \in T
    BY <1>1, <1>4, <2>1, <2>2, Induction
  <2> QED BY <1>1, <2>3
<1> QED BY <1>2, <1>6 DEF SelectRun, Chosen, N

-------------------------------------------------------------------------------
(* Commands.                                                                   *)

Replaced(m, w) ==
  IF w \in DOMAIN Refers /\ Value(m, Refers[w]) # None THEN m.text[Value(m, Refers[w])] ELSE w
SprintedRun(f, m, v) == f[0] = v /\ Sprinted(m, v) = f[10] /\ \A n \in 1..10 : f[n] = Replaced(m, f[n - 1])

LEMMA SprintedLoop ==
  ASSUME NEW m, NEW v
  PROVE  \E f : SprintedRun(f, m, v)
<1> DEFINE step(w) == Replaced(m, w)
           Is(f, n) == f = [i \in 0..n |-> IF i = 0 THEN v ELSE step(f[i-1])]
           T == {n \in Nat : \E f : Is(f, n)}
<1> HIDE DEF step
<1>1. 0 \in T
  <2>1. Is([i \in 0..0 |-> v], 0)
    OBVIOUS
  <2> QED BY <2>1
<1>2. ASSUME NEW n \in T PROVE n + 1 \in T
  <2>1. PICK f : Is(f, n)
    OBVIOUS
  <2> DEFINE g == [i \in 0..(n+1) |-> IF i = n + 1 THEN step(f[n]) ELSE f[i]]
  <2>2. ASSUME NEW i \in 0..(n+1) PROVE g[i] = IF i = 0 THEN v ELSE step(g[i-1])
    BY <2>1
  <2>3. Is(g, n + 1)
    BY <2>2, Zenon
  <2>4. n + 1 \in Nat
    OBVIOUS
  <2> HIDE DEF Is, g
  <2> QED BY <2>3, <2>4
<1>3. 10 \in T
  <2> HIDE DEF T
  <2>1. T \in SUBSET Nat
    BY DEF T
  <2>2. \A n \in T : n < 10 => n + 1 \in T
    BY <1>2
  <2>3. \A n \in 0..10 : n \in T
    BY <1>1, <2>1, <2>2, Induction
  <2> QED BY <2>3
<1> DEFINE f == CHOOSE f : Is(f, 10)
<1>4. Is(f, 10)
  BY <1>3, Zenon
<1>5. Sprinted(m, v) = f[10]
  BY Zenon DEF Sprinted, Replaced, step
<1> HIDE DEF f
<1>6. f[0] = v /\ \A n \in 1..10 : f[n] = step(f[n-1])
  BY <1>4
<1> QED BY <1>5, <1>6 DEF step, SprintedRun

LEMMA SprintedType ==
  ASSUME NEW m, Good(m), NEW v \in Texts
  PROVE  Sprinted(m, v) \in Texts
<1>1. PICK f : SprintedRun(f, m, v)
  BY SprintedLoop
<1>2. ASSUME NEW w \in Texts PROVE Replaced(m, w) \in Texts
  <2>1. CASE w \in DOMAIN Refers /\ Value(m, Refers[w]) # None
    <3> DEFINE at == Value(m, Refers[w])
    <3>1. at \in DOMAIN m.text \cup {None}
      BY <2>1, IndexType DEF Value
    <3>2. at \in DOMAIN m.text
      BY <2>1, <3>1
    <3>3. m.text[at] \in Texts
      BY <3>2 DEF Good, Packed
    <3> QED BY <2>1, <3>3 DEF Replaced
  <2>2. CASE ~ (w \in DOMAIN Refers /\ Value(m, Refers[w]) # None)
    BY <2>2 DEF Replaced
  <2> QED BY <2>1, <2>2
<1> DEFINE T == {n \in 0..10 : f[n] \in Texts}
<1>3. 0 \in T
  BY <1>1 DEF SprintedRun
<1>4. ASSUME NEW n \in T, n < 10 PROVE n + 1 \in T
  <2>1. n + 1 \in 1..10 /\ (n + 1) - 1 = n
    BY <1>4
  <2>2. f[n + 1] = Replaced(m, f[n])
    BY <1>1, <2>1 DEF SprintedRun
  <2> QED BY <1>2, <2>1, <2>2
<1>5. 10 \in T
  <2> HIDE DEF T
  <2>1. T \in SUBSET Nat
    BY DEF T
  <2>2. \A n \in T : n < 10 => n + 1 \in T
    BY <1>4
  <2>3. \A n \in 0..10 : n \in T
    BY <1>3, <2>1, <2>2, Induction
  <2> QED BY <2>3
<1> QED BY <1>1, <1>5 DEF SprintedRun

\* exec_line() replaces texts by texts.
Substitutes(m, pairs) == [i \in DOMAIN pairs |-> [pairs[i] EXCEPT !.value = Sprinted(m, @)]]

LEMMA SubstitutesType ==
  ASSUME NEW m, Good(m), NEW pairs \in Assignments(Texts)
  PROVE  Substitutes(m, pairs) \in Assignments(Texts)
<1> DEFINE P == [name : Names, value : Texts]
<1>1. ASSUME NEW p \in P PROVE [p EXCEPT !.value = Sprinted(m, @)] \in P
  <2>1. Sprinted(m, p.value) \in Texts
    BY SprintedType
  <2> QED BY <2>1
<1> HIDE DEF P
<1>2. Len(pairs) \in Nat /\ DOMAIN pairs = 1..Len(pairs) /\ \A i \in 1..Len(pairs) : pairs[i] \in P
  BY Elements DEF P
<1>3. Substitutes(m, pairs) \in [1..Len(pairs) -> P]
  BY <1>1, <1>2 DEF Substitutes
<1>4. Substitutes(m, pairs) \in Seq(P)
  BY <1>2, <1>3, IsSequence
<1> QED BY <1>4 DEF P

LEMMA SubstitutedType ==
  ASSUME NEW m, Good(m), NEW c \in CommandsWith(Texts)
  PROVE  Substituted(m, c) \in CommandsWith(Texts)
<1> DEFINE A == Assignments(Texts)
           if == Substitutes(m, c.if)
<1>1. ASSUME NEW pairs \in A PROVE Substitutes(m, pairs) \in A
  BY SubstitutesType
<1> HIDE DEF A
<1>2. CASE c \in [do : {"set"}, name : Names, value : Texts, unset : BOOLEAN, if : A]
  <2>1. if \in A /\ Sprinted(m, c.value) \in Texts
    BY <1>1, <1>2, SprintedType
  <2>2. Substituted(m, c) = [[c EXCEPT !.if = if] EXCEPT !.value = Sprinted(m, @)]
    BY <1>2 DEF Substituted, Substitutes
  <2> HIDE DEF if
  <2>3. Substituted(m, c) \in [do : {"set"}, name : Names, value : Texts, unset : BOOLEAN, if : A]
    BY <1>2, <2>1, <2>2
  <2> QED BY <2>3 DEF A
<1>3. CASE c \in [do : {"toggle set"}, key : Keys, blocks : Seq(A), if : A]
  <2> DEFINE blocks == [b \in DOMAIN c.blocks |-> Substitutes(m, c.blocks[b])]
  <2>1. if \in A
    BY <1>1, <1>3
  <2>2. Len(c.blocks) \in Nat /\ DOMAIN c.blocks = 1..Len(c.blocks) /\ \A b \in 1..Len(c.blocks) : c.blocks[b] \in A
    BY <1>3, Elements
  <2>3. blocks \in [1..Len(c.blocks) -> A]
    BY <1>1, <2>2
  <2>4. blocks \in Seq(A)
    <3> HIDE DEF blocks
    <3> QED BY <2>2, <2>3, IsSequence
  <2>5. Substituted(m, c) = [[c EXCEPT !.if = if] EXCEPT !.blocks = blocks]
    BY <1>3 DEF Substituted, Substitutes
  <2> HIDE DEF if, blocks
  <2>6. Substituted(m, c) \in [do : {"toggle set"}, key : Keys, blocks : Seq(A), if : A]
    BY <1>3, <2>1, <2>4, <2>5
  <2> QED BY <2>6 DEF A
<1>4. CASE c \in [do : {"select"}, picks : Seq([key : Keys, block : Nat]), if : A]
  <2>1. if \in A
    BY <1>1, <1>4
  <2>2. Substituted(m, c) = [c EXCEPT !.if = if]
    BY <1>4 DEF Substituted, Substitutes
  <2> HIDE DEF if
  <2>3. Substituted(m, c) \in [do : {"select"}, picks : Seq([key : Keys, block : Nat]), if : A]
    BY <1>4, <2>1, <2>2
  <2> QED BY <2>3 DEF A
<1> QED BY <1>2, <1>3, <1>4 DEF A

\* The keys of the toggles that a command may change: never the one just pressed by
\* a select.
Touched(c) == IF c.do = "select" THEN KeysOf(c) \ {last_key_pressed} ELSE KeysOf(c)
Does(m, x, c) == Good(x) /\ Leaves(m, x, Touched(c))

LEMMA PlainGood ==
  ASSUME NEW m, Good(m), NEW c \in CommandsWith(Texts), NEW triggered
  PROVE  Does(m, Plain(m, c, triggered), c)
<1>1. CASE c.do = "set"
  <2>1. c.name \in Names /\ c.value \in Texts
    BY <1>1
  <2>2. Keeps(m, SetVar(m, c.name, c.value)) /\ Keeps(m, m)
    BY <2>1, SetVarKeeps, KeepsSelf
  <2>3. Keeps(m, Plain(m, c, triggered))
    BY <1>1, <2>2 DEF Plain
  <2> QED BY <2>3, SameToggles DEF Keeps, Does
<1>2. CASE c.do = "toggle set"
  <2>1. c.key \in Keys /\ c.blocks \in Seq(Assignments(Texts))
    BY <1>2
  <2>2. Good(ToggleSet(m, c)) /\ Leaves(m, ToggleSet(m, c), {c.key})
    BY <2>1, ToggleSetGood
  <2>3. Touched(c) = {c.key} /\ Plain(m, c, triggered) = ToggleSet(m, c)
    BY <1>2 DEF Touched, KeysOf, Plain
  <2> QED BY <2>2, <2>3 DEF Does
<1>3. CASE c.do = "select"
  <2>1. c.picks \in Seq([key : Keys, block : Nat])
    BY <1>3
  <2>2. Good(Select(m, c, triggered)) /\ Leaves(m, Select(m, c, triggered), Picked(c))
    BY <2>1, SelectGood
  <2>3. Touched(c) = Picked(c) /\ Plain(m, c, triggered) = Select(m, c, triggered)
    BY <1>3 DEF Touched, KeysOf, Picked, Plain
  <2> QED BY <2>2, <2>3 DEF Does
<1>4. c.do \in {"set", "toggle set", "select"}
  OBVIOUS
<1> QED BY <1>1, <1>2, <1>3, <1>4

LEMMA TriggerGood ==
  ASSUME NEW m, Good(m), NEW c \in CommandsWith(Texts)
  PROVE  Does(m, Trigger(m, c), c)
<1>1. Does(m, Fail(m), c) /\ Does(m, m, c)
  <2>1. Good(Fail(m)) /\ Fail(m).toggles = m.toggles
    BY FailKeeps DEF Keeps
  <2> QED BY <2>1, SameToggles DEF Does
<1>2. Does(m, [Plain(m, c, TRUE) EXCEPT !.ok = TRUE], c)
  <2>1. ASSUME NEW x, Does(m, x, c) PROVE Does(m, [x EXCEPT !.ok = TRUE], c)
    <3> DEFINE y == [x EXCEPT !.ok = TRUE]
    <3>1. Good(x)
      BY <2>1 DEF Does
    <3>2. Good(y) /\ y.toggles = x.toggles
      BY <3>1 DEF Good
    <3> HIDE DEF y
    <3>3. Leaves(m, y, Touched(c))
      BY <2>1, <3>1, <3>2, SameToggles, LeavesOn DEF Does
    <3> QED BY <3>2, <3>3 DEF Does, y
  <2> QED BY <2>1, PlainGood
<1> QED BY <1>1, <1>2, Zenon DEF Trigger

\* Replacing references changes no key.
LEMMA SubstitutedTouches ==
  ASSUME NEW m, Good(m), NEW c \in CommandsWith(Texts)
  PROVE  /\ Substituted(m, c).do = c.do /\ Touched(Substituted(m, c)) = Touched(c)
         /\ Substituted(m, c).if = <<>> <=> c.if = <<>>
<1> DEFINE d == Substituted(m, c)
           new == Substitutes(m, c.if)
<1>1. new = <<>> <=> c.if = <<>>
  <2> DEFINE P == [name : Names, value : Texts]
  <2>1. c.if \in Seq(P) /\ new \in Seq(P)
    BY SubstitutesType
  <2>2. DOMAIN new = DOMAIN c.if
    BY DEF Substitutes
  <2> HIDE DEF new, P
  <2> QED BY <2>1, <2>2, NoElements
<1>2. CASE c.do = "set"
  <2>1. d = [[c EXCEPT !.if = new] EXCEPT !.value = Sprinted(m, @)]
    BY <1>2 DEF Substituted, Substitutes
  <2> HIDE DEF new, d
  <2>2. d.do = "set" /\ d.if = new
    BY <1>2, <2>1
  <2> QED BY <1>1, <1>2, <2>2 DEF Touched, KeysOf, d
<1>3. CASE c.do = "toggle set"
  <2> DEFINE blocks == [b \in DOMAIN c.blocks |-> Substitutes(m, c.blocks[b])]
  <2>1. d = [[c EXCEPT !.if = new] EXCEPT !.blocks = blocks]
    BY <1>3 DEF Substituted, Substitutes
  <2> HIDE DEF new, d, blocks
  <2>2. d.do = "toggle set" /\ d.key = c.key /\ d.if = new
    BY <1>3, <2>1
  <2> QED BY <1>1, <1>3, <2>2 DEF Touched, KeysOf, d
<1>4. CASE c.do = "select"
  <2>1. d = [c EXCEPT !.if = new]
    BY <1>4 DEF Substituted, Substitutes
  <2> HIDE DEF new, d
  <2>2. d.do = "select" /\ d.picks = c.picks /\ d.if = new
    BY <1>4, <2>1
  <2> QED BY <1>1, <1>4, <2>2 DEF Touched, KeysOf, d
<1>5. c.do \in {"set", "toggle set", "select"}
  OBVIOUS
<1> QED BY <1>2, <1>3, <1>4, <1>5

LEMMA ResultGood ==
  ASSUME Good(Memory), NEW c \in CommandsWith(Texts)
  PROVE  Does(Memory, Result(c), c)
<1> DEFINE d == Substituted(Memory, c)
<1>1. d \in CommandsWith(Texts) /\ Touched(d) = Touched(c)
  BY SubstitutedType, SubstitutedTouches
<1> HIDE DEF d
<1>2. Does(Memory, Memory, d)
  BY SameToggles DEF Does
<1>3. Result(c) = IF LeftOut(c) THEN Memory
                  ELSE IF d.if = <<>> THEN Plain(Memory, d, FALSE) ELSE Trigger(Memory, d)
  BY DEF Result, d
<1>4. Does(Memory, Result(c), d)
  BY <1>1, <1>2, <1>3, PlainGood, TriggerGood, Zenon
<1> QED BY <1>1, <1>4 DEF Does

-------------------------------------------------------------------------------
(* The loader.                                                                 *)

Inv ==
  /\ Good(Memory)
  /\ files \in Configurations /\ curr_cfg \in {"root", "other"}
  /\ position \in Nat \ {0}

LEMMA CommandsOfTexts == CommandsWith(Values) \subseteq CommandsWith(Texts)
<1> DEFINE A == Assignments(Values)
           B == Assignments(Texts)
<1>1. A \subseteq B
  <2> DEFINE P == [name : Names, value : Values]
             Q == [name : Names, value : Texts]
  <2>1. P \subseteq Q
    BY DEF Texts
  <2> HIDE DEF P, Q
  <2>2. Seq(P) \subseteq Seq(Q)
    BY <2>1
  <2> QED BY <2>2 DEF P, Q
<1>2. Seq(A) \subseteq Seq(B)
  <2> HIDE DEF A, B
  <2> QED BY <1>1
<1>3. Values \subseteq Texts
  BY DEF Texts
<1> HIDE DEF A, B
<1>4. /\ [do : {"set"}, name : Names, value : Values, unset : BOOLEAN, if : A]
         \subseteq [do : {"set"}, name : Names, value : Texts, unset : BOOLEAN, if : B]
      /\ [do : {"toggle set"}, key : Keys, blocks : Seq(A), if : A]
         \subseteq [do : {"toggle set"}, key : Keys, blocks : Seq(B), if : B]
      /\ [do : {"select"}, picks : Seq([key : Keys, block : Nat]), if : A]
         \subseteq [do : {"select"}, picks : Seq([key : Keys, block : Nat]), if : B]
  BY <1>1, <1>2, <1>3
<1> QED BY <1>4 DEF A, B

LEMMA CommandsTyped ==
  ASSUME Inv
  PROVE  /\ DOMAIN File = 1..Len(File) /\ Len(File) \in Nat
         /\ \A i \in DOMAIN File : File[i] \in CommandsWith(Texts)
         /\ files.typed \subseteq CommandsWith(Texts)
<1> DEFINE V == CommandsWith(Values)
<1>1. V \subseteq CommandsWith(Texts)
  BY CommandsOfTexts
<1> HIDE DEF V
<1>2. files \in [root : Seq(V), other : Seq(V), typed : SUBSET V]
  BY ConfigurationsAssumption DEF Inv, V
<1>3. File \in Seq(V)
  BY <1>2 DEF Inv, File
<1>4. DOMAIN File = 1..Len(File) /\ Len(File) \in Nat /\ \A i \in DOMAIN File : File[i] \in V
  BY <1>3
<1> QED BY <1>1, <1>2, <1>4

\* What a command leaves is what the next one finds.
LEMMA StoredGood ==
  ASSUME NEW m, Good(m), Store(m)
  PROVE  Good(Memory)'
<1>1. Memory' = [list |-> m.list, text |-> m.text, used |-> m.used, toggles |-> m.toggles,
                 vector |-> m.vector, wild |-> m.wild, ok |-> TRUE]
  BY DEF Memory, Store
<1>2. Good([list |-> m.list, text |-> m.text, used |-> m.used, toggles |-> m.toggles,
            vector |-> m.vector, wild |-> m.wild, ok |-> TRUE])
  BY DEF Good
<1>3. Good(Memory') = Good(Memory)'
  BY DEF Good, Packed, Variables, Slots, Blocks, Entries, Used, AtABlock, Texts
<1> QED BY <1>1, <1>2, <1>3

LEMMA EmptyGood ==
  ASSUME EmptyStore
  PROVE  Good(Memory)'
<1>1. /\ Memory'.list = <<>> /\ Memory'.text = <<>> /\ Memory'.used = 0 /\ Memory'.toggles = <<>>
      /\ Memory'.ok = TRUE /\ DOMAIN Memory' = {"list", "text", "used", "toggles", "vector", "wild", "ok"}
  BY DEF EmptyStore, Memory
<1>2. Packed(<<>>, 0)
  BY Constants DEF Packed
<1>3. <<>> \in Seq(Variables({})) /\ <<>> \in Seq(Slots({}, 0)) /\ Len(<<>>) = 0 /\ DOMAIN <<>> = {}
  OBVIOUS
<1> QED BY <1>1, <1>2, <1>3 DEF Good

LEMMA RunGood == ASSUME Inv, NEW c \in CommandsWith(Texts), Run(c) PROVE Good(Memory)'
BY ResultGood, StoredGood DEF Run, Inv, Does

LEMMA AfterKeyGood ==
  ASSUME Inv, NEW key, Slot(Memory, key) # 0
  PROVE  Good(AfterKey(key))
<1> DEFINE s == Slot(Memory, key)
           old == toggle_data[s]
           b == NextBlock(old)
           slot == [old EXCEPT !.current_block = b]
           m == [Memory EXCEPT !.toggles[s].current_block = b]
<1>1. Good(Memory) /\ s \in 1..Len(Memory.toggles) /\ Memory.toggles = toggle_data
  BY SlotType DEF Inv, Memory
<1>2. old \in Slots(DOMAIN Memory.text, Len(Memory.list))
  BY <1>1, SlotParts
<1>3. m = SlotPut(Memory, s, slot)
  BY <1>1 DEF SlotPut, Memory
<1> HIDE DEF s
<1> HIDE DEF old
<1>4. /\ old.nr_blocks \in Nat /\ old.nr_blocks <= MAX_BLOCKS /\ old.current_block \in Nat
      /\ old.nr_blocks > 0 => old.current_block < old.nr_blocks
  BY <1>2, Constants DEF Slots, AtABlock
<1>5. b \in Nat /\ (old.nr_blocks > 0 => b < old.nr_blocks)
  BY <1>4 DEF NextBlock
<1>6. b < old.nr_blocks => b + 1 \in 1..MAX_BLOCKS
  BY <1>4, <1>5, Constants
<1> HIDE DEF b
<1>7. slot \in Slots(DOMAIN Memory.text, Len(Memory.list))
  BY <1>2, <1>5 DEF Slots, AtABlock
<1> HIDE DEF slot, m
<1>8. Good(m) /\ s \in 1..Len(m.toggles)
  BY <1>1, <1>3, <1>7, WithSlot
<1>9. b < old.nr_blocks => Good(DoBlock(m, s, b + 1))
  BY <1>6, <1>8, DoBlockKeeps DEF Keeps
<1>10. AfterKey(key) = IF b < old.nr_blocks THEN DoBlock(m, s, b + 1) ELSE m
  BY DEF AfterKey, m, b, old, s
<1> QED BY <1>8, <1>9, <1>10

LEMMA SameMemory == ASSUME Good(Memory), UNCHANGED mem PROVE Good(Memory)'
<1>1. Memory' = Memory
  BY DEF mem, Memory
<1>2. Good(Memory') = Good(Memory)'
  BY DEF Good, Packed, Variables, Slots, Blocks, Entries, Used, AtABlock, Texts
<1> QED BY <1>1, <1>2

\* The menu is drawn.
Drawn == [Memory EXCEPT !.wild = Strayed]
LEMMA ShowMenuStores ==
  ASSUME ShowMenu
  PROVE  /\ Store(Drawn) /\ DOMAIN Drawn = DOMAIN Memory /\ Drawn.ok = Memory.ok
         /\ Drawn.list = Memory.list /\ Drawn.text = Memory.text /\ Drawn.used = Memory.used
         /\ Drawn.toggles = Memory.toggles
BY DEF ShowMenu, Store, Drawn, Memory

LEMMA DrawnGood == ASSUME Good(Memory), ShowMenu PROVE Good(Memory)'
<1>1. Good(Drawn)
  BY ShowMenuStores DEF Good
<1> QED BY <1>1, ShowMenuStores, StoredGood

LEMMA ReadGood ==
  ASSUME Inv, NEW cfg \in {"root", "other"}, NEW what, Read(cfg, what), UNCHANGED files
  PROVE  Inv'
<1>1. CASE Emptied(cfg, what)
  BY <1>1, EmptyGood DEF Read, Inv
<1>2. CASE ~ Emptied(cfg, what)
  BY <1>2, SameMemory DEF Read, Inv
<1> QED BY <1>1, <1>2

LEMMA InitGood == Init => Inv
<1> SUFFICES ASSUME Init PROVE Inv
  OBVIOUS
<1>1. /\ Memory.list = <<>> /\ Memory.text = <<>> /\ Memory.used = 0 /\ Memory.toggles = <<>>
      /\ Memory.ok = TRUE /\ DOMAIN Memory = {"list", "text", "used", "toggles", "vector", "wild", "ok"}
  BY DEF Init, Memory
<1>2. Packed(<<>>, 0)
  BY Constants DEF Packed
<1>3. <<>> \in Seq(Variables({})) /\ <<>> \in Seq(Slots({}, 0)) /\ Len(<<>>) = 0 /\ DOMAIN <<>> = {}
  OBVIOUS
<1>4. Good(Memory)
  BY <1>1, <1>2, <1>3 DEF Good
<1>5. files \in Configurations /\ curr_cfg \in {"root", "other"} /\ position \in Nat \ {0}
  BY DEF Init
<1> QED BY <1>4, <1>5 DEF Inv

LEMMA StepGood == Inv /\ [Next]_vars => Inv'
<1> SUFFICES ASSUME Inv, [Next]_vars PROVE Inv'
  OBVIOUS
<1>1. CASE Line
  <2>1. position \in DOMAIN File
    <3>1. position <= Len(File) /\ position \in Nat \ {0}
      BY <1>1 DEF Line, Inv
    <3>2. Len(File) \in Nat /\ DOMAIN File = 1..Len(File)
      BY CommandsTyped
    <3> QED BY <3>1, <3>2
  <2>2. Good(Memory)'
    BY <1>1, <2>1, CommandsTyped, RunGood DEF Line
  <2> QED BY <1>1, <2>2 DEF Line, Inv
<1>2. CASE ShowMenu
  BY <1>2, DrawnGood DEF ShowMenu, Inv
<1>3. ASSUME NEW key \in Keys, OtherKey(key) PROVE Inv'
  BY <1>3, SameMemory DEF OtherKey, Inv
<1>4. ASSUME NEW key \in Keys, ToggleKey(key) PROVE Inv'
  <2>1. Good(Memory)'
    BY <1>4, AfterKeyGood, StoredGood DEF ToggleKey
  <2>2. position' \in Nat \ {0}
    BY <1>4 DEF ToggleKey, Inv
  <2> QED BY <1>4, <2>1, <2>2 DEF ToggleKey, Inv
<1>5. ASSUME NEW cfg \in {"root", "other"}, Configfile(cfg) PROVE Inv'
  BY <1>5, ReadGood DEF Configfile
<1>6. CASE Escape
  BY <1>6, SameMemory DEF Escape, Inv
<1>7. ASSUME NEW cfg \in {"root", "other"}, Leave(cfg) PROVE Inv'
  BY <1>7, ReadGood DEF Leave
<1>8. ASSUME NEW c \in files.typed, Typed(c) PROVE Inv'
  <2>1. Good(Memory)'
    BY <1>8, CommandsTyped, RunGood DEF Typed
  <2> QED BY <1>8, <2>1 DEF Typed, Inv
<1>9. CASE UNCHANGED vars
  BY <1>9, SameMemory DEF vars, reading, Inv
<1> QED BY <1>1, <1>2, <1>3, <1>4, <1>5, <1>6, <1>7, <1>8, <1>9 DEF Next, Input

\* A toggle that has blocks is at one of them (toggle_data and current_block of
\* commands.c), whatever keys, selects and files there are.
THEOREM AlwaysAtABlock == Spec => []CurrentIsABlock
<1>1. Inv => CurrentIsABlock
  <2> SUFFICES ASSUME Inv, NEW s \in DOMAIN toggle_data PROVE AtABlock(toggle_data[s])
    BY DEF CurrentIsABlock, AtABlock
  <2>1. Good(Memory) /\ Memory.toggles = toggle_data
    BY DEF Inv, Memory
  <2>2. s \in 1..Len(Memory.toggles)
    BY <2>1 DEF Good
  <2>3. toggle_data[s] \in Slots(DOMAIN Memory.text, Len(Memory.list))
    BY <2>1, <2>2, SlotParts
  <2> QED BY <2>3 DEF Slots
<1> QED BY <1>1, InitGood, StepGood, PTL DEF Spec

\* var_alloc_mem()'s texts never run into one another or out of the store, and no
\* variable and no entry of a toggle's block that counts points at anything else; a
\* variable the entry names is listed.
THEOREM PointersAlwaysLive == Spec => []PointersLive
<1>1. Inv => PointersLive
  <2> SUFFICES ASSUME Inv PROVE PointersLive
    OBVIOUS
  <2>1. /\ Good(Memory) /\ Memory.toggles = toggle_data /\ Memory.list = variable_list
        /\ Memory.text = store /\ Memory.used = actpos
    BY DEF Inv, Memory
  <2>2. TextsFit
    BY <2>1 DEF Good, Packed, TextsFit
  <2>3. \A i \in DOMAIN variable_list :
          variable_list[i].value # None => variable_list[i].value \in DOMAIN store
    BY <2>1, ListType
  <2>4. ASSUME NEW s \in DOMAIN toggle_data, NEW b \in 1..MAX_BLOCKS,
               NEW v \in 1..toggle_data[s].block[b].nr_vars
        PROVE  /\ toggle_data[s].block[b].var[v].value \in DOMAIN store
               /\ toggle_data[s].block[b].var[v].var \in DOMAIN variable_list \cup {0}
    <3>1. s \in 1..Len(Memory.toggles)
      BY <2>1 DEF Good
    <3>2. toggle_data[s].block[b].var[v] \in Used(DOMAIN store, Len(variable_list))
      BY <2>1, <3>1, SlotParts
    <3>3. DOMAIN variable_list = 1..Len(variable_list)
      BY <2>1, ListType
    <3> QED BY <3>2, <3>3 DEF Used
  <2> QED BY <2>2, <2>3, <2>4 DEF PointersLive
<1> QED BY <1>1, InitGood, StepGood, PTL DEF Spec

-------------------------------------------------------------------------------
(* The toggle of the key just pressed, and the others, while the file is read  *)
(* again for its triggers.                                                     *)

Stays(slot) ==
  \/ slot.key # pressed.key \/ slot.nr_blocks = 0
  \/ \E c \in Triggered : c.do = "toggle set" /\ c.key = pressed.key
Moves(slot, now) ==
  /\ Stays(slot) \/ now.current_block = (slot.current_block + 1) % slot.nr_blocks
  /\ slot.key \in {pressed.key} \cup UNION {KeysOf(c) : c \in Triggered} \/ now = slot

\* From the key on, every slot has its toggle, which has done no more than it may.
Reloads ==
  pressed # None /\ phase \in {"reading", "menu"} =>
    /\ phase = "reading" => process_what = "triggers" /\ last_key_pressed = pressed.key
    /\ \A s \in DOMAIN pressed.toggles :
         /\ s \in DOMAIN toggle_data /\ toggle_data[s].key = pressed.toggles[s].key
         /\ Moves(pressed.toggles[s], toggle_data[s])
KeyInv == Inv /\ Unique(Memory) /\ Reloads

LEMMA ToggleDomain ==
  ASSUME Inv
  PROVE  /\ Memory.toggles = toggle_data /\ DOMAIN toggle_data = 1..Len(toggle_data)
         /\ Len(toggle_data) \in Nat
BY DEF Inv, Good, Memory

LEMMA StoredUnique ==
  ASSUME NEW m, Unique(m), Store(m) PROVE Unique(Memory)'
BY DEF Store, Memory, Unique

LEMMA SameUnique == ASSUME Unique(Memory), UNCHANGED mem PROVE Unique(Memory)'
BY DEF mem, Memory, Unique

LEMMA NothingPicked ==
  ASSUME process_what = "triggers", NEW m, NEW c, Len(c.picks) \in Nat
  PROVE  Select(m, c, FALSE) = m
<1> DEFINE N == Len(c.picks)
<1>1. N \in Nat
  OBVIOUS
<1>2. PICK f : SelectRun(f, m, c, FALSE)
  BY <1>1, SelectLoop
<1> HIDE DEF N
<1> DEFINE T == {i \in 0..N : DOMAIN f[i] = {"stop", "m"} /\ f[i].m = m}
<1>3. 0 \in T
  <2>1. f[0] = [stop |-> FALSE, m |-> m]
    BY <1>2 DEF SelectRun
  <2> QED BY <1>1, <2>1
<1>4. ASSUME NEW i \in T, i < N PROVE i + 1 \in T
  <2>1. /\ i + 1 \in 1..N /\ i + 1 \in 0..N /\ (i + 1) - 1 = i
        /\ DOMAIN f[i] = {"stop", "m"} /\ f[i].m = m
    BY <1>1, <1>4
  <2>2. f[i + 1] = SelectStep(m, c, FALSE, f[i], i + 1)
    BY <1>2, <2>1 DEF SelectRun, N
  <2>3. ~ Selects(c.picks[i + 1].key, FALSE)
    BY DEF Selects
  <2>4. f[i + 1] = f[i] \/ f[i + 1] = [f[i] EXCEPT !.stop = TRUE]
    BY <2>2, <2>3, Zenon DEF SelectStep
  <2>5. DOMAIN f[i + 1] = {"stop", "m"} /\ f[i + 1].m = m
    BY <2>1, <2>4
  <2> QED BY <2>1, <2>5
<1>5. N \in T
  <2> HIDE DEF T
  <2>1. T \in SUBSET Nat
    BY DEF T
  <2>2. \A i \in T : i < N => i + 1 \in T
    BY <1>4
  <2>3. \A i \in 0..N : i \in T
    BY <1>1, <1>3, <2>1, <2>2, Induction
  <2> QED BY <1>1, <2>3
<1> QED BY <1>2, <1>5 DEF SelectRun, N

\* Without triggers in front, and with triggers alone wanted, a command changes no
\* toggle.
LEMMA UntriggeredStays ==
  ASSUME Inv, NEW c \in CommandsWith(Texts), process_what = "triggers", c.if = <<>>
  PROVE  Result(c).toggles = toggle_data
<1> DEFINE d == Substituted(Memory, c)
<1>0. Good(Memory) /\ Memory.toggles = toggle_data
  BY ToggleDomain DEF Inv
<1>1. /\ Good(Memory) /\ Memory.toggles = toggle_data
      /\ d \in CommandsWith(Texts) /\ d.do = c.do /\ d.if = <<>>
  BY <1>0, SubstitutedType, SubstitutedTouches, Zenon
<1>2. Result(c) = IF LeftOut(c) THEN Memory ELSE Plain(Memory, d, FALSE)
  BY <1>1, Zenon DEF Result
<1> HIDE DEF d
<1>3. CASE c.do = "toggle set"
  BY <1>1, <1>2, <1>3 DEF LeftOut
<1>4. CASE c.do = "set"
  <2>1. d.name \in Names /\ d.value \in Texts
    BY <1>1, <1>4
  <2>2. SetVar(Memory, d.name, d.value).toggles = toggle_data
    BY <1>1, <2>1, SetVarKeeps DEF Keeps
  <2>3. Plain(Memory, d, FALSE).toggles = toggle_data
    BY <1>1, <1>4, <2>2, Zenon DEF Plain
  <2> QED BY <1>1, <1>2, <2>3, Zenon
<1>5. CASE c.do = "select"
  <2>1. Len(d.picks) \in Nat
    <3>1. d.picks \in Seq([key : Keys, block : Nat])
      BY <1>1, <1>5
    <3> HIDE DEF d
    <3> QED BY <3>1, Elements
  <2>6. Select(Memory, d, FALSE) = Memory
    BY <2>1, NothingPicked
  <2>7. Plain(Memory, d, FALSE) = Memory
    BY <1>1, <1>5, <2>6 DEF Plain
  <2> QED BY <1>1, <1>2, <2>7, Zenon
<1>6. c.do \in {"set", "toggle set", "select"}
  OBVIOUS
<1> QED BY <1>3, <1>4, <1>5, <1>6

\* A line of the file read again.
LEMMA LineReloads ==
  ASSUME KeyInv, Line, Inv', pressed # None, phase' = "reading"
  PROVE  Reloads'
<1> DEFINE c == File[position]
           r == Result(c)
<1>1. /\ phase = "reading" /\ position \in DOMAIN File /\ c \in CommandsWith(Texts)
      /\ toggle_data' = r.toggles
  <2>1. position <= Len(File) /\ position \in Nat \ {0} /\ phase = "reading"
    BY DEF Line, KeyInv, Inv
  <2>2. position \in DOMAIN File
    <3>1. DOMAIN File = 1..Len(File) /\ Len(File) \in Nat
      BY CommandsTyped DEF KeyInv
    <3> QED BY <2>1, <3>1
  <2>3. toggle_data' = r.toggles
    BY DEF Line, Run, Store
  <2> QED BY <2>1, <2>2, <2>3, CommandsTyped DEF KeyInv
<1>2. /\ process_what = "triggers" /\ last_key_pressed = pressed.key
      /\ \A s \in DOMAIN pressed.toggles :
           /\ s \in DOMAIN toggle_data /\ toggle_data[s].key = pressed.toggles[s].key
           /\ Moves(pressed.toggles[s], toggle_data[s])
  BY <1>1 DEF KeyInv, Reloads
<1>3. /\ pressed' = pressed /\ process_what' = process_what /\ last_key_pressed' = last_key_pressed
      /\ File' = File /\ Triggered' = Triggered
  BY DEF Line, File, Triggered, Commands
<1>4. ASSUME NEW slot, NEW now PROVE Moves(slot, now)' <=> Moves(slot, now)
  BY <1>3 DEF Moves, Stays, KeysOf
<1>5. /\ DOMAIN toggle_data = 1..Len(toggle_data) /\ DOMAIN toggle_data' = 1..Len(toggle_data')
      /\ Len(toggle_data) \in Nat /\ Len(toggle_data') \in Nat /\ Memory.toggles = toggle_data
  <2>1. /\ DOMAIN toggle_data' = 1..Len(toggle_data') /\ Len(toggle_data') \in Nat
    BY DEF Inv, Good, Memory
  <2> QED BY <2>1, ToggleDomain DEF KeyInv
<1> HIDE DEF c, r
<1>6. CASE c.if = <<>>
  <2>1. toggle_data' = toggle_data
    BY <1>1, <1>2, <1>6, UntriggeredStays DEF KeyInv, r
  <2> QED BY <1>2, <1>3, <1>4, <2>1 DEF Reloads
<1>7. CASE c.if # <<>>
  <2>1. c \in Triggered
    BY <1>1, <1>7 DEF Triggered, Commands, c
  <2>2. Leaves(Memory, r, Touched(c))
    BY <1>1, ResultGood DEF KeyInv, Inv, Does, r
  <2>3. ASSUME NEW s \in DOMAIN pressed.toggles
        PROVE  /\ s \in DOMAIN toggle_data' /\ toggle_data'[s].key = pressed.toggles[s].key
               /\ Moves(pressed.toggles[s], toggle_data'[s])
    <3> DEFINE slot == pressed.toggles[s]
               old == toggle_data[s]
               now == toggle_data'[s]
    <3>1. s \in 1..Len(toggle_data) /\ old.key = slot.key /\ Moves(slot, old)
      BY <1>2, <1>5
    <3>2. Len(toggle_data) <= Len(toggle_data') /\ now.key = old.key /\ (old.key \notin Touched(c) => now = old)
      BY <1>1, <1>5, <2>2, <3>1 DEF Leaves
    <3>3. s \in DOMAIN toggle_data'
      BY <1>5, <3>1, <3>2
    <3> HIDE DEF slot, old, now
    <3>4. Stays(slot) \/ now.current_block = (slot.current_block + 1) % slot.nr_blocks
      <4>1. CASE Stays(slot)
        BY <4>1
      <4>2. CASE ~ Stays(slot)
        <5>1. slot.key = pressed.key /\ ~ (c.do = "toggle set" /\ c.key = pressed.key)
          BY <2>1, <4>2 DEF Stays
        <5>2. slot.key \notin Touched(c)
          BY <1>2, <5>1 DEF Touched, KeysOf
        <5>3. now = old
          BY <3>1, <3>2, <5>2
        <5> QED BY <3>1, <4>2, <5>3 DEF Moves
      <4> QED BY <4>1, <4>2
    <3>5. slot.key \in {pressed.key} \cup UNION {KeysOf(k) : k \in Triggered} \/ now = slot
      <4>1. CASE slot.key \in Touched(c)
        <5>1. slot.key \in KeysOf(c)
          BY <4>1 DEF Touched
        <5> QED BY <2>1, <5>1
      <4>2. CASE slot.key \notin Touched(c)
        <5>1. now = old
          BY <3>1, <3>2, <4>2
        <5> QED BY <3>1, <5>1 DEF Moves
      <4> QED BY <4>1, <4>2
    <3>6. Moves(slot, now)
      BY <3>4, <3>5 DEF Moves
    <3> QED BY <3>1, <3>2, <3>3, <3>6 DEF slot, old, now
  <2> QED BY <1>2, <1>3, <1>4, <2>3 DEF Reloads
<1> QED BY <1>6, <1>7

\* toggle_do_key() moves one toggle to its next block.
LEMMA AfterKeyMoves ==
  ASSUME KeyInv, NEW key, Slot(Memory, key) # 0
  PROVE  LET s == Slot(Memory, key) IN
         /\ s \in DOMAIN toggle_data /\ toggle_data[s].key = key
         /\ AfterKey(key).toggles = [toggle_data EXCEPT ![s].current_block = NextBlock(toggle_data[s])]
         /\ \A t \in DOMAIN toggle_data : toggle_data[t].key = key => t = s
<1> DEFINE s == Slot(Memory, key)
           old == toggle_data[s]
           b == NextBlock(old)
           m == [Memory EXCEPT !.toggles[s].current_block = b]
<1>1. /\ Good(Memory) /\ Memory.toggles = toggle_data /\ s \in 1..Len(Memory.toggles)
      /\ DOMAIN toggle_data = 1..Len(toggle_data) /\ toggle_data[s].key = key
  <2>1. Good(Memory) /\ Memory.toggles = toggle_data /\ DOMAIN toggle_data = 1..Len(toggle_data)
    BY ToggleDomain DEF KeyInv, Inv
  <2> QED BY <2>1, SlotType, SlotIs
<1>2. m.toggles = [toggle_data EXCEPT ![s].current_block = b]
  BY <1>1 DEF Memory
<1>3. AfterKey(key) = IF b < old.nr_blocks THEN DoBlock(m, s, b + 1) ELSE m
  BY DEF AfterKey
<1>4. \A t \in DOMAIN toggle_data : toggle_data[t].key = key => t = s
  BY <1>1 DEF KeyInv, Unique
<1>5. CASE b < old.nr_blocks
  <2> DEFINE slot == [old EXCEPT !.current_block = b]
  <2>1. m = SlotPut(Memory, s, slot)
    BY <1>1 DEF SlotPut, Memory
  <2> HIDE DEF s
  <2>2. old \in Slots(DOMAIN Memory.text, Len(Memory.list))
    BY <1>1, SlotParts
  <2> HIDE DEF old
  <2>3. /\ old.nr_blocks \in Nat /\ old.nr_blocks <= MAX_BLOCKS /\ old.current_block \in Nat
    BY <2>2, Constants DEF Slots
  <2>4. b \in Nat /\ b + 1 \in 1..MAX_BLOCKS
    BY <1>5, <2>3, Constants DEF NextBlock
  <2> HIDE DEF b
  <2>5. slot \in Slots(DOMAIN Memory.text, Len(Memory.list))
    BY <1>5, <2>2, <2>4 DEF Slots, AtABlock
  <2> HIDE DEF slot, m
  <2>6. Good(m) /\ s \in 1..Len(m.toggles)
    BY <1>1, <2>1, <2>5, WithSlot
  <2>7. DoBlock(m, s, b + 1).toggles = m.toggles
    BY <2>4, <2>6, DoBlockKeeps DEF Keeps
  <2> QED BY <1>1, <1>2, <1>3, <1>4, <1>5, <2>7 DEF s, b, old
<1>6. CASE ~ (b < old.nr_blocks)
  <2> HIDE DEF m, b
  <2>1. AfterKey(key).toggles = m.toggles
    BY <1>3, <1>6
  <2> QED BY <1>1, <1>2, <1>4, <2>1 DEF b
<1> QED BY <1>5, <1>6

LEMMA NextIsModulo ==
  ASSUME NEW n \in Nat, NEW c \in Nat, n > 0, c < n
  PROVE  (IF c + 1 = n THEN 0 ELSE c + 1) = (c + 1) % n
OBVIOUS

\* The key of a toggle, after which the file is read again.
LEMMA KeyReloads ==
  ASSUME KeyInv, NEW key \in Keys, ToggleKey(key)
  PROVE  Unique(Memory)' /\ Reloads'
<1> DEFINE s == Slot(Memory, key)
           old == toggle_data[s]
           new == [old EXCEPT !.current_block = NextBlock(old)]
           now == AfterKey(key).toggles
<1>1. /\ s \in DOMAIN toggle_data /\ old.key = key /\ now = [toggle_data EXCEPT ![s] = new]
      /\ \A t \in DOMAIN toggle_data : toggle_data[t].key = key => t = s
  BY AfterKeyMoves DEF ToggleKey
<1>2. toggle_data' = now /\ Store(AfterKey(key))
  BY <1>1 DEF ToggleKey, Store
<1>3. /\ Memory.toggles = toggle_data /\ DOMAIN toggle_data = 1..Len(toggle_data) /\ Len(toggle_data) \in Nat
      /\ toggle_data \in Seq(Slots(DOMAIN Memory.text, Len(Memory.list))) /\ Good(Memory)
  BY ToggleDomain DEF KeyInv, Inv, Good
<1>4. old \in Slots(DOMAIN Memory.text, Len(Memory.list))
  BY <1>1, <1>3
<1> HIDE DEF s, now
<1> HIDE DEF old
<1>5. /\ new.key = key /\ new.current_block = NextBlock(old)
      /\ old.nr_blocks \in Nat /\ old.current_block \in Nat
      /\ old.nr_blocks > 0 => old.current_block < old.nr_blocks
  BY <1>1, <1>4, Constants DEF Slots, AtABlock
<1>6. old.nr_blocks = 0 \/ new.current_block = (old.current_block + 1) % old.nr_blocks
  BY <1>5, NextIsModulo DEF NextBlock
<1> HIDE DEF new
<1>7. /\ Len(now) = Len(toggle_data) /\ DOMAIN now = DOMAIN toggle_data /\ now[s] = new
      /\ \A t \in DOMAIN toggle_data : t # s => now[t] = toggle_data[t]
  <2> DEFINE S == Slots(DOMAIN Memory.text, Len(Memory.list)) \cup {new}
  <2>1. toggle_data \in Seq(S) /\ new \in S
    BY <1>3
  <2> HIDE DEF S
  <2> QED BY <1>1, <2>1
<1>8. Unique(Memory)'
  <2>1. Others(Memory, AfterKey(key), s)
    BY <1>1, <1>3, <1>5, <1>7 DEF Others, now, old
  <2>2. Leaves(Memory, AfterKey(key), {key})
    BY <1>1, <1>3, <2>1, OthersLeft DEF old
  <2> QED BY <1>2, <2>2, StoredUnique DEF KeyInv, Leaves
<1>9. CASE Printed
  <2>1. /\ pressed' = [key |-> key, toggles |-> toggle_data]
        /\ process_what' = "triggers" /\ last_key_pressed' = key
    BY <1>9 DEF ToggleKey
  <2>2. pressed'.key = key /\ pressed'.toggles = toggle_data
    BY <2>1
  <2>3. ASSUME NEW slot, NEW to, slot.key = key \/ to = slot,
               slot.key # key \/ slot.nr_blocks = 0 \/ to.current_block = (slot.current_block + 1) % slot.nr_blocks
        PROVE  Moves(slot, to)'
    BY <2>2, <2>3 DEF Moves, Stays
  <2>4. ASSUME NEW t \in DOMAIN toggle_data
        PROVE  /\ t \in DOMAIN now /\ now[t].key = toggle_data[t].key
               /\ toggle_data[t].key = key \/ now[t] = toggle_data[t]
               /\ \/ toggle_data[t].key # key \/ toggle_data[t].nr_blocks = 0
                  \/ now[t].current_block = (toggle_data[t].current_block + 1) % toggle_data[t].nr_blocks
    <3>1. CASE t = s
      <4>1. now[t] = new /\ toggle_data[t] = old
        BY <1>7, <3>1 DEF old
      <4> QED BY <1>1, <1>5, <1>6, <1>7, <4>1
    <3>2. CASE t # s
      <4>1. now[t] = toggle_data[t] /\ toggle_data[t].key # key
        BY <1>1, <1>7, <3>2
      <4> QED BY <1>7, <4>1
    <3> QED BY <3>1, <3>2
  <2>5. toggle_data' = now /\ DOMAIN pressed'.toggles = DOMAIN toggle_data
    BY <1>2, <2>2
  <2>6. ASSUME NEW t \in DOMAIN pressed'.toggles
        PROVE  /\ t \in DOMAIN toggle_data' /\ toggle_data'[t].key = pressed'.toggles[t].key
               /\ Moves(pressed.toggles[t], toggle_data[t])'
    BY <2>2, <2>3, <2>4, <2>5
  <2> QED BY <1>8, <2>1, <2>2, <2>6 DEF Reloads
<1>10. CASE ~ Printed
  <2>1. pressed' = None
    BY <1>10 DEF ToggleKey
  <2> QED BY <1>8, <2>1 DEF Reloads
<1> QED BY <1>9, <1>10

LEMMA EmptyUnique == ASSUME EmptyStore PROVE Unique(Memory)'
<1>1. Memory'.toggles = <<>>
  BY DEF EmptyStore, Memory
<1>2. ASSUME NEW m, m.toggles = <<>> PROVE Unique(m)
  <2>1. Len(m.toggles) = 0 /\ 1..0 = {}
    BY <1>2
  <2> QED BY <2>1 DEF Unique
<1>3. Unique(Memory') <=> Unique(Memory)'
  BY DEF Unique
<1> QED BY <1>1, <1>2, <1>3

LEMMA ReadUnique ==
  ASSUME KeyInv, NEW cfg, NEW what, Read(cfg, what)
  PROVE  Unique(Memory)'
<1>1. EmptyStore \/ UNCHANGED mem
  BY DEF Read
<1> QED BY <1>1, EmptyUnique, SameUnique DEF KeyInv

LEMMA RunUnique ==
  ASSUME KeyInv, NEW c \in CommandsWith(Texts), Run(c)
  PROVE  Unique(Memory)'
<1> DEFINE r == Result(c)
<1>1. Good(Memory) /\ Store(r)
  BY DEF KeyInv, Inv, Run
<1>2. Leaves(Memory, r, Touched(c))
  BY <1>1, ResultGood DEF Does
<1> HIDE DEF r
<1>3. Unique(r)
  BY <1>2 DEF KeyInv, Leaves
<1> QED BY <1>1, <1>3, StoredUnique

LEMMA KeyInit == Init => KeyInv
<1> SUFFICES ASSUME Init PROVE KeyInv
  OBVIOUS
<1>1. Memory.toggles = <<>> /\ pressed = None
  BY DEF Init, Memory
<1>2. Len(Memory.toggles) = 0 /\ 1..0 = {}
  BY <1>1
<1>3. Unique(Memory)
  BY <1>2 DEF Unique
<1> QED BY <1>1, <1>3, InitGood DEF KeyInv, Reloads

LEMMA KeyStep == KeyInv /\ [Next]_vars => KeyInv'
<1> SUFFICES ASSUME KeyInv, [Next]_vars PROVE KeyInv'
  OBVIOUS
<1>0. Inv'
  BY StepGood DEF KeyInv
<1> SUFFICES Unique(Memory)' /\ Reloads'
  BY <1>0 DEF KeyInv
<1>1. CASE Line
  <2>1. File[position] \in CommandsWith(Texts) /\ Run(File[position])
    <3>1. position \in Nat \ {0} /\ position <= Len(File) /\ Run(File[position])
      BY <1>1 DEF Line, KeyInv, Inv
    <3>2. DOMAIN File = 1..Len(File) /\ Len(File) \in Nat
      BY CommandsTyped DEF KeyInv
    <3>3. position \in DOMAIN File
      BY <3>1, <3>2
    <3> QED BY <3>1, <3>3, CommandsTyped DEF KeyInv
  <2>2. Unique(Memory)'
    BY <2>1, RunUnique
  <2>3. pressed' = pressed /\ phase' \in {"reading", "cmdline"}
    BY <1>1 DEF Line
  <2>4. CASE pressed # None /\ phase' = "reading"
    BY <1>0, <1>1, <2>2, <2>4, LineReloads
  <2>5. CASE pressed = None \/ phase' = "cmdline"
    BY <2>2, <2>3, <2>5 DEF Reloads
  <2> QED BY <2>3, <2>4, <2>5
<1>2. CASE ShowMenu
  <2>1. /\ phase = "reading" /\ phase' = "menu" /\ toggle_data' = toggle_data
        /\ pressed' = pressed /\ Triggered' = Triggered
    BY <1>2 DEF ShowMenu, Triggered, Commands, File
  <2>2. Unique(Memory)'
    BY <1>2, ShowMenuStores, StoredUnique DEF KeyInv, Unique
  <2>3. ASSUME NEW slot, NEW now PROVE Moves(slot, now)' <=> Moves(slot, now)
    BY <2>1 DEF Moves, Stays, KeysOf
  <2> QED BY <2>1, <2>2, <2>3 DEF KeyInv, Reloads
<1>3. ASSUME NEW key \in Keys, OtherKey(key) PROVE Unique(Memory)' /\ Reloads'
  BY <1>3, SameUnique DEF OtherKey, KeyInv, Reloads
<1>4. ASSUME NEW key \in Keys, ToggleKey(key) PROVE Unique(Memory)' /\ Reloads'
  BY <1>4, KeyReloads
<1>5. ASSUME NEW cfg \in {"root", "other"}, Configfile(cfg) PROVE Unique(Memory)' /\ Reloads'
  BY <1>5, ReadUnique DEF Configfile, Reloads
<1>6. CASE Escape
  BY <1>6, SameUnique DEF Escape, KeyInv, Reloads
<1>7. ASSUME NEW cfg \in {"root", "other"}, Leave(cfg) PROVE Unique(Memory)' /\ Reloads'
  BY <1>7, ReadUnique DEF Leave, Reloads
<1>8. ASSUME NEW c \in files.typed, Typed(c) PROVE Unique(Memory)' /\ Reloads'
  <2>1. c \in CommandsWith(Texts) /\ Run(c) /\ pressed' = None
    BY <1>8, CommandsTyped DEF KeyInv, Typed
  <2> QED BY <2>1, RunUnique DEF Reloads
<1>9. CASE UNCHANGED vars
  <2>1. /\ UNCHANGED mem /\ toggle_data' = toggle_data /\ phase' = phase /\ process_what' = process_what
        /\ last_key_pressed' = last_key_pressed /\ pressed' = pressed /\ Triggered' = Triggered
    BY <1>9 DEF vars, mem, reading, ghosts, Triggered, Commands, File
  <2>2. Unique(Memory)'
    BY <2>1, SameUnique DEF KeyInv
  <2>3. ASSUME NEW slot, NEW now PROVE Moves(slot, now)' <=> Moves(slot, now)
    BY <2>1 DEF Moves, Stays, KeysOf
  <2> QED BY <2>1, <2>2, <2>3 DEF KeyInv, Reloads
<1> QED BY <1>1, <1>2, <1>3, <1>4, <1>5, <1>6, <1>7, <1>8, <1>9 DEF Next, Input

\* The key of a toggle moves that toggle by one block, round its blocks, however the
\* file then read again for its triggers selects and sets toggles (toggle_do_key(),
\* last_key_pressed and process_what), and no other toggle but those that a
\* trigger's command names.
THEOREM TogglesKeepTheirKeys == Spec => []KeyMovesItsToggle
<1>1. KeyInv => KeyMovesItsToggle
  BY DEF KeyInv, Reloads, KeyMovesItsToggle, Moves, Stays
<1> QED BY <1>1, KeyInit, KeyStep, PTL DEF Spec

-------------------------------------------------------------------------------
(* The variables shown are those of the blocks the toggles are at.             *)

\* Every variable is listed once.
OneName(m) == \A i, j \in 1..Len(m.list) : m.list[i].name = m.list[j].name => i = j

\* What a step may do to the variables: those of the names N get other values, and
\* it may add some.
Changes(m, x, N) ==
  /\ Len(m.list) <= Len(x.list)
  /\ \A i \in 1..Len(m.list) : /\ x.list[i].name = m.list[i].name
                               /\ m.list[i].name \notin N => x.list[i] = m.list[i]
  /\ OneName(m) => OneName(x)
AllAre(m, name, at) == \A i \in 1..Len(m.list) : m.list[i].name = name => m.list[i].value = at

LEMMA ListKept ==
  ASSUME NEW m, NEW x, NEW N, Changes(m, x, N), Len(m.list) \in Nat, Len(x.list) \in Nat, NEW i \in 1..Len(m.list)
  PROVE  i \in 1..Len(x.list) /\ x.list[i].name = m.list[i].name
BY DEF Changes

LEMMA SameList == ASSUME NEW m, NEW x, Good(m), x.list = m.list, NEW N PROVE Changes(m, x, N)
BY ListType DEF Changes, OneName

LEMMA ChangesMore ==
  ASSUME NEW m, NEW x, NEW N, NEW K, N \subseteq K, Changes(m, x, N) PROVE Changes(m, x, K)
BY DEF Changes

LEMMA ChangesOn ==
  ASSUME NEW m, NEW x, NEW y, NEW N, Good(m), Good(x), Good(y), Changes(m, x, N), Changes(x, y, N)
  PROVE  Changes(m, y, N)
<1>1. Len(m.list) \in Nat /\ Len(x.list) \in Nat /\ Len(y.list) \in Nat
  BY ListType
<1>2. ASSUME NEW i \in 1..Len(m.list)
      PROVE  y.list[i].name = m.list[i].name /\ (m.list[i].name \notin N => y.list[i] = m.list[i])
  <2>1. i \in 1..Len(x.list)
    BY <1>1 DEF Changes
  <2> QED BY <2>1 DEF Changes
<1> QED BY <1>1, <1>2 DEF Changes

LEMMA NamedChanges ==
  ASSUME NEW m, Good(m), NEW name \in Names, Index(m, name) = 0
  PROVE  /\ Changes(m, Named(m, name), {})
         /\ Named(m, name).ok => /\ Len(Named(m, name).list) = Len(m.list) + 1
                                 /\ Named(m, name).list[Len(m.list) + 1].name = name
<1>1. CASE Len(m.list) = VARIABLES_MAX \/ ~ Room(m, name)
  <2>1. Named(m, name) = Fail(m)
    BY <1>1 DEF Named
  <2>2. Fail(m).ok = FALSE /\ Fail(m).list = m.list
    BY DEF Fail, Good
  <2> QED BY <2>1, <2>2, SameList
<1>2. CASE ~ (Len(m.list) = VARIABLES_MAX \/ ~ Room(m, name))
  <2> DEFINE x == Allocate(m, name)
             var == [name |-> name, value |-> None]
             y == Named(m, name)
  <2>1. Good(x) /\ x.list = m.list
    BY <1>2, AllocateKeeps DEF Texts, Keeps
  <2>2. y = [x EXCEPT !.list = Append(@, var)]
    BY <1>2 DEF Named
  <2> HIDE DEF x, y
  <2>3. y.list = Append(m.list, var) /\ var.name = name
    BY <2>1, <2>2 DEF Good
  <2> HIDE DEF var
  <2>4. m.list \in Seq(Variables(DOMAIN m.text) \cup {var}) /\ Len(m.list) \in Nat
    BY ListType DEF Good
  <2>5. /\ Len(y.list) = Len(m.list) + 1 /\ y.list[Len(m.list) + 1] = var
        /\ \A i \in 1..Len(m.list) : y.list[i] = m.list[i]
    BY <2>3, <2>4
  <2>6. \A i \in 1..Len(m.list) : m.list[i].name # name
    BY IndexType, ListType
  <2>7. ASSUME OneName(m), NEW i \in 1..Len(y.list), NEW j \in 1..Len(y.list), y.list[i].name = y.list[j].name
        PROVE  i = j
    <3>1. \A k \in 1..Len(y.list) : k \in 1..Len(m.list) \/ k = Len(m.list) + 1
      BY <2>4, <2>5
    <3>2. CASE i \in 1..Len(m.list) /\ j \in 1..Len(m.list)
      BY <2>5, <2>7, <3>2 DEF OneName
    <3>3. CASE i \in 1..Len(m.list) /\ j = Len(m.list) + 1
      BY <2>3, <2>5, <2>6, <2>7, <3>3
    <3>4. CASE i = Len(m.list) + 1 /\ j \in 1..Len(m.list)
      BY <2>3, <2>5, <2>6, <2>7, <3>4
    <3> QED BY <3>1, <3>2, <3>3, <3>4
  <2>8. OneName(m) => OneName(y)
    BY <2>7 DEF OneName
  <2> QED BY <2>3, <2>4, <2>5, <2>8 DEF Changes, y
<1> QED BY <1>1, <1>2

LEMMA PointAtChanges ==
  ASSUME NEW m, Good(m), NEW name, Index(m, name) # 0, NEW at
  PROVE  /\ Changes(m, PointAt(m, name, at), {name})
         /\ OneName(m) => AllAre(PointAt(m, name, at), name, at)
         /\ PointAt(m, name, at).ok = m.ok
<1> DEFINE x == PointAt(m, name, at)
           i == Index(m, name)
<1>1. /\ Len(m.list) \in Nat /\ DOMAIN m.list = 1..Len(m.list) /\ i \in 1..Len(m.list)
      /\ m.list \in Seq(Variables(DOMAIN m.text)) /\ m.list[i].name = name
  <2>1. PICK j \in DOMAIN m.list : m.list[j].name = name
    BY IndexType
  <2>2. m.list[i].name = name
    BY <2>1 DEF Index
  <2> QED BY <2>2, IndexType, ListType DEF Good
<1>2. x.ok = m.ok /\ x.list = [m.list EXCEPT ![i] = [m.list[i] EXCEPT !.value = at]]
  BY DEF PointAt, Good
<1> HIDE DEF x, i
<1> DEFINE var == [m.list[i] EXCEPT !.value = at]
<1>3. m.list[i] \in Variables(DOMAIN m.text)
  BY <1>1
<1>4. var.name = name /\ var.value = at
  BY <1>1, <1>3 DEF Variables
<1> HIDE DEF var
<1>5. m.list \in Seq(Variables(DOMAIN m.text) \cup {var})
  BY <1>1
<1>6. /\ Len(x.list) = Len(m.list) /\ x.list[i] = var
      /\ \A j \in 1..Len(m.list) : j # i => x.list[j] = m.list[j]
  BY <1>1, <1>2, <1>5 DEF var
<1>7. \A j \in 1..Len(m.list) : /\ x.list[j].name = m.list[j].name
                                /\ m.list[j].name # name => x.list[j] = m.list[j]
  BY <1>1, <1>4, <1>6
<1>8. OneName(m) => OneName(x)
  BY <1>6, <1>7 DEF OneName
<1>9. OneName(m) => AllAre(x, name, at)
  BY <1>1, <1>4, <1>6, <1>7 DEF OneName, AllAre
<1> QED BY <1>1, <1>2, <1>6, <1>7, <1>8, <1>9 DEF Changes, x

LEMMA ThereChanges ==
  ASSUME NEW m, Good(m), NEW name \in Names, NEW N,
         NEW n, n = IF Index(m, name) = 0 THEN Named(m, name) ELSE m
  PROVE  Changes(m, n, N)
<1>1. CASE Index(m, name) = 0
  BY <1>1, NamedChanges, ChangesMore
<1>2. CASE Index(m, name) # 0
  BY <1>2, SameList
<1> QED BY <1>1, <1>2

LEMMA SetNoCopyChanges ==
  ASSUME NEW m, Good(m), NEW name \in Names, NEW at \in DOMAIN m.text
  PROVE  /\ Changes(m, SetNoCopy(m, name, at), {name})
         /\ SetNoCopy(m, name, at).ok /\ OneName(m) => AllAre(SetNoCopy(m, name, at), name, at)
         /\ Index(m, name) # 0 /\ m.ok => SetNoCopy(m, name, at).ok
<1> DEFINE n == IF Index(m, name) = 0 THEN Named(m, name) ELSE m
           x == SetNoCopy(m, name, at)
<1>1. Keeps(m, n) /\ Good(n) /\ (n.ok => Index(n, name) # 0)
  BY IsThere
<1>2. x = IF n.ok THEN PointAt(n, name, at) ELSE n
  BY DEF SetNoCopy
<1>3. Changes(m, n, {name}) /\ (Index(m, name) # 0 => n = m)
  BY ThereChanges
<1>4. Good(x)
  BY SetNoCopyKeeps DEF Keeps
<1> HIDE DEF n, x
<1>5. CASE n.ok
  <2>1. Changes(n, x, {name}) /\ (OneName(n) => AllAre(x, name, at)) /\ x.ok
    BY <1>1, <1>2, <1>5, PointAtChanges
  <2>2. Changes(m, x, {name})
    BY <1>1, <1>3, <1>4, <2>1, ChangesOn
  <2>3. OneName(m) => OneName(n)
    BY <1>3 DEF Changes
  <2> QED BY <2>1, <2>2, <2>3 DEF x
<1>6. CASE ~ n.ok
  BY <1>2, <1>3, <1>6 DEF x
<1> QED BY <1>5, <1>6

LEMMA SetAnewChanges ==
  ASSUME NEW m, Good(m), NEW name, Index(m, name) # 0, NEW v \in Texts
  PROVE  Changes(m, SetAnew(m, name, v), {name})
<1>1. CASE Room(m, v)
  <2> DEFINE x == Allocate(m, v)
             y == SetAnew(m, name, v)
  <2>1. Good(x) /\ x.list = m.list /\ Good(y)
    BY <1>1, AllocateKeeps, SetAnewKeeps DEF Keeps
  <2>2. Index(x, name) # 0
    BY <2>1 DEF Index
  <2>3. y = PointAt(x, name, m.used)
    BY <1>1 DEF SetAnew
  <2> HIDE DEF x, y
  <2>4. Changes(m, x, {name}) /\ Changes(x, y, {name})
    BY <2>1, <2>2, <2>3, SameList, PointAtChanges
  <2> QED BY <2>1, <2>4, ChangesOn DEF y
<1>2. CASE ~ Room(m, v)
  <2>1. SetAnew(m, name, v) = Fail(m) /\ Fail(m).list = m.list
    BY <1>2 DEF SetAnew, Fail, Good
  <2> QED BY <2>1, SameList
<1> QED BY <1>1, <1>2

LEMMA SetVarChanges ==
  ASSUME NEW m, Good(m), NEW name \in Names, NEW v \in Texts
  PROVE  Changes(m, SetVar(m, name, v), {name})
<1> DEFINE n == IF Index(m, name) = 0 THEN Named(m, name) ELSE m
           at == Value(n, name)
           x == SetVar(m, name, v)
<1>1. Good(n) /\ (n.ok => Index(n, name) # 0) /\ Changes(m, n, {name}) /\ Good(x)
  BY IsThere, ThereChanges, SetVarKeeps DEF Keeps
<1>2. CASE x = n
  BY <1>1, <1>2
<1>3. CASE n.ok /\ x = SetAnew(n, name, v)
  <2> HIDE DEF n, x
  <2>1. Changes(n, x, {name})
    BY <1>1, <1>3, SetAnewChanges
  <2> QED BY <1>1, <2>1, ChangesOn DEF x
<1>4. CASE x = [n EXCEPT !.vector = TRUE] \/ x = [n EXCEPT !.text[at] = v]
  <2> HIDE DEF n, x
  <2>1. x.list = n.list
    BY <1>1, <1>4 DEF Good
  <2>2. Changes(n, x, {name})
    BY <1>1, <2>1, SameList
  <2> QED BY <1>1, <2>2, ChangesOn DEF x
<1>5. x = n \/ (n.ok /\ x = SetAnew(n, name, v)) \/ x = [n EXCEPT !.vector = TRUE] \/ x = [n EXCEPT !.text[at] = v]
  BY Zenon DEF SetVar
<1> QED BY <1>2, <1>3, <1>4, <1>5

-------------------------------------------------------------------------------
(* The names that the configuration's commands give the variables of toggles.  *)

\* A toggle set has the name at a place of a block of the key's toggle.
Has(key, b, v, name) ==
  \E c \in AllCommands : /\ c.do = "toggle set" /\ c.key = key
                         /\ b \in DOMAIN c.blocks /\ v \in DOMAIN c.blocks[b] /\ c.blocks[b][v].name = name
NamesAt(key) == {name \in Names : \E b, v : Has(key, b, v, name)}

LEMMA OnePlaceOnly ==
  ASSUME OnePlace, NEW key, NEW b, NEW v, NEW w, NEW name, Has(key, b, v, name), Has(key, b, w, name)
  PROVE  v = w
<1>1. PICK c \in AllCommands : /\ c.do = "toggle set" /\ c.key = key
                               /\ b \in DOMAIN c.blocks /\ v \in DOMAIN c.blocks[b] /\ c.blocks[b][v].name = name
  BY DEF Has
<1>2. PICK d \in AllCommands : /\ d.do = "toggle set" /\ d.key = key
                               /\ b \in DOMAIN d.blocks /\ w \in DOMAIN d.blocks[b] /\ d.blocks[b][w].name = name
  BY DEF Has
<1>3. /\ c \in {e \in AllCommands : e.do = "toggle set"} /\ d \in {e \in AllCommands : e.do = "toggle set"}
      /\ b \in DOMAIN c.blocks \cap DOMAIN d.blocks
  BY <1>1, <1>2
<1>4. c.blocks[b][v].name = d.blocks[b][w].name => v = w
  BY <1>1, <1>2, <1>3 DEF OnePlace
<1> QED BY <1>1, <1>2, <1>4

LEMMA NameOfHad ==
  ASSUME NEW c, c.do = "toggle set", NEW b \in DOMAIN c.blocks, NEW v \in DOMAIN c.blocks[b]
  PROVE  c.blocks[b][v].name \in NamesOf(c)
<1> DEFINE names(a) == {c.blocks[a][w].name : w \in DOMAIN c.blocks[a]}
<1>1. c.blocks[b][v].name \in names(b)
  OBVIOUS
<1> HIDE DEF names
<1>2. c.blocks[b][v].name \in UNION {names(a) : a \in DOMAIN c.blocks}
  BY <1>1
<1>3. NamesOf(c) = UNION {names(a) : a \in DOMAIN c.blocks}
  BY DEF NamesOf, names
<1> QED BY <1>2, <1>3

LEMMA ApartKeys ==
  ASSUME Apart, NEW key, NEW other, NEW b, NEW v, NEW a, NEW w, NEW name, Has(key, b, v, name), Has(other, a, w, name)
  PROVE  key = other
<1>1. PICK c \in AllCommands : /\ c.do = "toggle set" /\ c.key = key
                               /\ b \in DOMAIN c.blocks /\ v \in DOMAIN c.blocks[b] /\ c.blocks[b][v].name = name
  BY DEF Has
<1>2. PICK d \in AllCommands : /\ d.do = "toggle set" /\ d.key = other
                               /\ a \in DOMAIN d.blocks /\ w \in DOMAIN d.blocks[a] /\ d.blocks[a][w].name = name
  BY DEF Has
<1>3. name \in NamesOf(c) \cap NamesOf(d)
  BY <1>1, <1>2, NameOfHad
<1>4. c.do \in {"set", "toggle set"} /\ d.do \in {"set", "toggle set"}
  BY <1>1, <1>2
<1>5. c.do = "set" \/ c.key = d.key
  BY <1>3, <1>4 DEF Apart
<1> QED BY <1>1, <1>2, <1>5

\* What a command of the configuration may name.
InPlaces(c) == \A b \in DOMAIN c.blocks : \A v \in DOMAIN c.blocks[b] : Has(c.key, b, v, c.blocks[b][v].name)
Allowed(c) ==
  /\ c.do = "set" => \A key, b, v : ~ Has(key, b, v, c.name)
  /\ c.do = "toggle set" => InPlaces(c)

LEMMA AllAllowed ==
  ASSUME Apart, NEW c \in AllCommands
  PROVE  Allowed(c)
<1>1. ASSUME c.do = "set", NEW key, NEW b, NEW v, Has(key, b, v, c.name) PROVE FALSE
  <2>1. PICK d \in AllCommands : /\ d.do = "toggle set" /\ d.key = key
                                 /\ b \in DOMAIN d.blocks /\ v \in DOMAIN d.blocks[b] /\ d.blocks[b][v].name = c.name
    BY <1>1 DEF Has
  <2>2. c.name \in NamesOf(c) \cap NamesOf(d)
    BY <1>1, <2>1, NameOfHad DEF NamesOf
  <2>3. c.do = d.do
    BY <1>1, <2>1, <2>2 DEF Apart
  <2> QED BY <1>1, <2>1, <2>3
<1>2. ASSUME c.do = "toggle set", NEW b \in DOMAIN c.blocks, NEW v \in DOMAIN c.blocks[b]
      PROVE  Has(c.key, b, v, c.blocks[b][v].name)
  BY <1>2 DEF Has
<1> QED BY <1>1, <1>2 DEF Allowed, InPlaces

\* Replacing references changes no name.
LEMMA SubstitutedAllowed ==
  ASSUME NEW m, Good(m), NEW c \in CommandsWith(Texts), Allowed(c)
  PROVE  Allowed(Substituted(m, c))
<1> DEFINE d == Substituted(m, c)
           new == Substitutes(m, c.if)
<1>1. CASE c.do = "set"
  <2>1. d = [[c EXCEPT !.if = new] EXCEPT !.value = Sprinted(m, @)]
    BY <1>1 DEF Substituted, Substitutes
  <2> HIDE DEF new, d
  <2>2. d.do = "set" /\ d.name = c.name
    BY <1>1, <2>1
  <2> QED BY <1>1, <2>2 DEF Allowed, d
<1>2. CASE c.do = "toggle set"
  <2> DEFINE blocks == [b \in DOMAIN c.blocks |-> Substitutes(m, c.blocks[b])]
  <2>1. d = [[c EXCEPT !.if = new] EXCEPT !.blocks = blocks]
    BY <1>2 DEF Substituted, Substitutes
  <2> HIDE DEF new, d, blocks
  <2>2. d.do = "toggle set" /\ d.key = c.key /\ d.blocks = blocks
    BY <1>2, <2>1
  <2>3. ASSUME NEW b \in DOMAIN blocks, NEW v \in DOMAIN blocks[b]
        PROVE  /\ b \in DOMAIN c.blocks /\ v \in DOMAIN c.blocks[b]
               /\ blocks[b][v].name = c.blocks[b][v].name
    <3>1. b \in DOMAIN c.blocks /\ blocks[b] = Substitutes(m, c.blocks[b])
      BY DEF blocks
    <3>2. v \in DOMAIN c.blocks[b] /\ blocks[b][v] = [c.blocks[b][v] EXCEPT !.value = Sprinted(m, @)]
      BY <3>1 DEF Substitutes
    <3>3. c.blocks[b][v] \in [name : Names, value : Texts]
      <4> DEFINE A == Assignments(Texts)
                 P == [name : Names, value : Texts]
      <4>1. c.blocks \in Seq(A)
        BY <1>2
      <4> HIDE DEF A
      <4>2. c.blocks[b] \in A
        BY <3>1, <4>1, Elements
      <4>3. c.blocks[b] \in Seq(P)
        BY <4>2 DEF A
      <4> HIDE DEF P
      <4>4. c.blocks[b][v] \in P
        BY <3>2, <4>3, Elements
      <4> QED BY <4>4 DEF P
    <3> QED BY <3>1, <3>2, <3>3
  <2>4. \A b \in DOMAIN blocks : \A v \in DOMAIN blocks[b] : Has(c.key, b, v, blocks[b][v].name)
    BY <1>2, <2>3 DEF Allowed, InPlaces
  <2> QED BY <2>2, <2>4 DEF Allowed, InPlaces, d
<1>3. CASE c.do = "select"
  <2>1. d = [c EXCEPT !.if = new]
    BY <1>3 DEF Substituted, Substitutes
  <2> HIDE DEF new, d
  <2>2. d.do = "select"
    BY <1>3, <2>1
  <2> QED BY <2>2 DEF Allowed, d
<1>4. c.do \in {"set", "toggle set", "select"}
  OBVIOUS
<1> QED BY <1>1, <1>2, <1>3, <1>4

-------------------------------------------------------------------------------
(* Toggles and what is shown.                                                  *)

\* A block's variables have the names that are given at their places.
Entered(m, s) ==
  \A b \in 1..MAX_BLOCKS, v \in 1..MAX_VAR_PER_BLOCK :
    LET e == m.toggles[s].block[b].var[v]
    IN  e.var # 0 => Has(m.toggles[s].key, b, v, m.list[e.var].name)

\* The variables of block b have its texts, if no later of them has the name again.
BlockShown(m, s, b) ==
  OnePlace => \A v \in 1..MAX_VAR_PER_BLOCK :
    v <= m.toggles[s].block[b].nr_vars /\ m.toggles[s].block[b].var[v].var # 0 =>
      m.list[m.toggles[s].block[b].var[v].var].value = m.toggles[s].block[b].var[v].value
ShownAt(m, s) == m.toggles[s].nr_blocks > 0 => BlockShown(m, s, m.toggles[s].current_block + 1)
Sound(m) == OneName(m) /\ Unique(m) /\ \A s \in 1..Len(m.toggles) : Entered(m, s) /\ ShownAt(m, s)

LEMMA SoundAlike ==
  ASSUME NEW m, NEW x, x.list = m.list, x.toggles = m.toggles, Sound(m) PROVE Sound(x)
<1>1. OneName(x) /\ Unique(x) /\ Len(x.toggles) = Len(m.toggles)
  BY DEF Sound, OneName, Unique
<1>2. ASSUME NEW s \in 1..Len(m.toggles) PROVE Entered(x, s) /\ ShownAt(x, s)
  <2>1. Entered(m, s) /\ ShownAt(m, s)
    BY DEF Sound
  <2>2. Entered(x, s)
    BY <2>1 DEF Entered
  <2>3. ShownAt(x, s)
    BY <2>1 DEF ShownAt, BlockShown
  <2> QED BY <2>2, <2>3
<1> QED BY <1>1, <1>2 DEF Sound

LEMMA EntryListed ==
  ASSUME NEW m, Good(m), NEW s \in 1..Len(m.toggles), NEW b \in 1..MAX_BLOCKS, NEW v \in 1..MAX_VAR_PER_BLOCK
  PROVE  LET e == m.toggles[s].block[b].var[v] IN
         /\ e.var # 0 => e.var \in 1..Len(m.list)
         /\ v <= m.toggles[s].block[b].nr_vars => e.value \in DOMAIN m.text
<1> DEFINE e == m.toggles[s].block[b].var[v]
<1>1. /\ e \in Entries(DOMAIN m.text, Len(m.list))
      /\ v <= m.toggles[s].block[b].nr_vars => e \in Used(DOMAIN m.text, Len(m.list))
  BY SlotParts, BlockParts
<1>2. Len(m.list) \in Nat
  BY ListType
<1> HIDE DEF e
<1>3. e.var # 0 => e.var \in 1..Len(m.list)
  BY <1>1, <1>2 DEF Entries
<1>4. \A u \in Used(DOMAIN m.text, Len(m.list)) : u.value \in DOMAIN m.text
  BY DEF Used
<1> QED BY <1>1, <1>3, <1>4 DEF e

LEMMA StillEntered ==
  ASSUME NEW m, NEW x, NEW N, NEW s, Good(m), Changes(m, x, N), s \in 1..Len(m.toggles),
         x.toggles[s] = m.toggles[s], Entered(m, s)
  PROVE  Entered(x, s)
<1> SUFFICES ASSUME NEW b \in 1..MAX_BLOCKS, NEW v \in 1..MAX_VAR_PER_BLOCK, x.toggles[s].block[b].var[v].var # 0
             PROVE  Has(x.toggles[s].key, b, v, x.list[x.toggles[s].block[b].var[v].var].name)
  BY DEF Entered
<1> DEFINE e == m.toggles[s].block[b].var[v]
<1>1. e.var \in 1..Len(m.list) /\ Has(m.toggles[s].key, b, v, m.list[e.var].name)
  BY EntryListed DEF Entered
<1>2. x.list[e.var].name = m.list[e.var].name
  BY <1>1 DEF Changes
<1> QED BY <1>1, <1>2

\* No name of N is one of the key's toggle.
Foreign(N, key) == \A b, v : \A name \in N : ~ Has(key, b, v, name)

LEMMA ForeignName ==
  ASSUME NEW name, NEW key, \A b, v : ~ Has(key, b, v, name) PROVE Foreign({name}, key)
<1> SUFFICES ASSUME NEW b, NEW v, NEW other \in {name} PROVE ~ Has(key, b, v, other)
  BY DEF Foreign
<1> QED OBVIOUS

LEMMA StillShown ==
  ASSUME NEW m, NEW x, NEW N, NEW s, Good(m), Changes(m, x, N), s \in 1..Len(m.toggles),
         x.toggles[s] = m.toggles[s], Entered(m, s), Foreign(N, m.toggles[s].key), ShownAt(m, s)
  PROVE  ShownAt(x, s)
<1> DEFINE b == m.toggles[s].current_block + 1
<1> SUFFICES ASSUME OnePlace, x.toggles[s].nr_blocks > 0, NEW v \in 1..MAX_VAR_PER_BLOCK,
                    v <= m.toggles[s].block[b].nr_vars, m.toggles[s].block[b].var[v].var # 0
             PROVE  x.list[m.toggles[s].block[b].var[v].var].value = m.toggles[s].block[b].var[v].value
  BY DEF ShownAt, BlockShown
<1>1. b \in 1..MAX_BLOCKS
  <2>1. m.toggles[s] \in Slots(DOMAIN m.text, Len(m.list))
    BY SlotParts
  <2> DEFINE slot == m.toggles[s]
  <2>2. slot.nr_blocks > 0
    OBVIOUS
  <2> HIDE DEF slot
  <2>3. slot \in Slots(DOMAIN m.text, Len(m.list))
    BY <2>1 DEF slot
  <2>4. slot.nr_blocks \in 0..MAX_BLOCKS /\ slot.current_block \in Nat /\ slot.current_block < slot.nr_blocks
    BY <2>2, <2>3 DEF Slots, AtABlock
  <2>5. slot.current_block + 1 \in 1..MAX_BLOCKS
    BY <2>4, Constants
  <2> QED BY <2>5 DEF slot
<1> HIDE DEF b
<1> DEFINE e == m.toggles[s].block[b].var[v]
<1>2. e.var # 0 /\ e.var \in 1..Len(m.list)
  BY <1>1, EntryListed
<1>3. Has(m.toggles[s].key, b, v, m.list[e.var].name)
  BY <1>1, <1>2 DEF Entered
<1>4. m.list[e.var].name \notin N
  BY <1>3 DEF Foreign
<1>5. x.list[e.var] = m.list[e.var]
  BY <1>2, <1>4 DEF Changes
<1>6. m.list[e.var].value = e.value
  BY DEF ShownAt, BlockShown, b
<1> QED BY <1>5, <1>6

\* A step that changes no toggle, and no variable of one.
LEMMA SoundSame ==
  ASSUME NEW m, NEW x, NEW N, Good(m), Good(x), Sound(m), Changes(m, x, N), x.toggles = m.toggles,
         \A key : Foreign(N, key)
  PROVE  Sound(x)
<1>1. \A s \in 1..Len(m.toggles) : Entered(x, s) /\ ShownAt(x, s)
  BY StillEntered, StillShown DEF Sound
<1>2. OneName(x) /\ Unique(x)
  BY SameToggles DEF Sound, Changes, Leaves
<1> QED BY <1>1, <1>2 DEF Sound

\* A step that changes one toggle and its variables.
LEMMA SoundOn ==
  ASSUME Apart, NEW m, NEW x, NEW s \in 1..Len(m.toggles), Good(m), Good(x), Sound(m), Others(m, x, s),
         Changes(m, x, NamesAt(m.toggles[s].key)), Entered(x, s), ShownAt(x, s)
  PROVE  Sound(x)
<1> DEFINE key == m.toggles[s].key
<1>1. Leaves(m, x, {key})
  BY OthersLeft
<1>2. OneName(x) /\ Unique(x)
  BY <1>1 DEF Sound, Changes, Leaves
<1>3. ASSUME NEW t \in 1..Len(m.toggles), t # s PROVE Entered(x, t) /\ ShownAt(x, t)
  <2>1. x.toggles[t] = m.toggles[t] /\ Entered(m, t) /\ ShownAt(m, t)
    BY <1>3 DEF Others, Sound
  <2>2. m.toggles[t].key # key
    BY <1>3 DEF Sound, Unique
  <2>3. Foreign(NamesAt(key), m.toggles[t].key)
    <3> HIDE DEF key
    <3> QED BY <2>2, ApartKeys DEF Foreign, NamesAt
  <2> QED BY <2>1, <2>3, StillEntered, StillShown
<1>4. Len(x.toggles) = Len(m.toggles)
  BY DEF Others
<1> QED BY <1>2, <1>3, <1>4 DEF Sound

\* toggle_do_block() shows a block, and cannot fail.
LEMMA DoBlockShows ==
  ASSUME NEW m, Good(m), m.ok, OneName(m), NEW s \in 1..Len(m.toggles), NEW b \in 1..MAX_BLOCKS,
         Entered(m, s)
  PROVE  /\ DoBlock(m, s, b).ok /\ BlockShown(DoBlock(m, s, b), s, b)
         /\ Changes(m, DoBlock(m, s, b), NamesAt(m.toggles[s].key))
         /\ Entered(DoBlock(m, s, b), s)
<1> DEFINE block == m.toggles[s].block[b]
           key == m.toggles[s].key
           N == MAX_VAR_PER_BLOCK
           Name(v) == m.list[block.var[v].var].name
           Shows(x, v) == OnePlace /\ block.var[v].var # 0 => x.list[block.var[v].var].value = block.var[v].value
<1>0. PICK f : DoBlockRun(f, m, s, b)
  BY DoBlockLoop
<1>1. /\ f[0] = m /\ DoBlock(m, s, b) = f[N]
      /\ \A v \in 1..N : f[v] = IF v > block.nr_vars THEN f[v - 1]
                                ELSE PointsTo(m, f[v - 1], block.var[v])
  BY <1>0 DEF DoBlockRun
<1>2. ASSUME NEW v \in 1..N, v <= block.nr_vars, block.var[v].var # 0
      PROVE  /\ block.var[v].var \in 1..Len(m.list) /\ block.var[v].value \in DOMAIN m.text
             /\ Has(key, b, v, Name(v)) /\ Name(v) \in Names /\ Name(v) \in NamesAt(key)
  <2>1. block.var[v].var \in 1..Len(m.list) /\ block.var[v].value \in DOMAIN m.text
    BY <1>2, EntryListed
  <2>2. Has(key, b, v, Name(v))
    BY <1>2, <2>1 DEF Entered
  <2>3. Name(v) \in Names
    BY <2>1, ListType
  <2> HIDE DEF Name, key
  <2> QED BY <2>1, <2>2, <2>3 DEF NamesAt
<1>3. ASSUME OnePlace, NEW v \in 1..N, NEW w \in 1..N, v <= block.nr_vars, w <= block.nr_vars,
             block.var[v].var # 0, block.var[w].var # 0, Name(v) = Name(w)
      PROVE  v = w
  <2>1. Has(key, b, v, Name(v)) /\ Has(key, b, w, Name(v))
    BY <1>2, <1>3
  <2> HIDE DEF Name, key
  <2> QED BY <1>3, <2>1, OnePlaceOnly
<1>4. block.nr_vars \in Nat
  BY BlockParts
<1> HIDE DEF block, key
<1> DEFINE T == {v \in 0..N : /\ f[v].ok /\ Keeps(m, f[v]) /\ Changes(m, f[v], NamesAt(key))
                              /\ \A w \in 1..v : w <= block.nr_vars => Shows(f[v], w)}
<1>5. 0 \in T
  <2>1. Keeps(m, m) /\ Changes(m, m, NamesAt(key)) /\ 1..0 = {} /\ 0 \in 0..N
    BY KeepsSelf, SameList, Constants
  <2> QED BY <1>1, <2>1
<1>6. ASSUME NEW v \in T, v < N PROVE v + 1 \in T
  <2>1. /\ v \in Nat /\ v + 1 \in 1..N /\ v + 1 \in 0..N /\ (v + 1) - 1 = v
        /\ f[v].ok /\ Keeps(m, f[v]) /\ Good(f[v]) /\ Changes(m, f[v], NamesAt(key))
        /\ \A w \in 1..v : w <= block.nr_vars => Shows(f[v], w)
    BY <1>6, Constants DEF Keeps
  <2>2. f[v + 1] = IF v + 1 > block.nr_vars THEN f[v]
                   ELSE PointsTo(m, f[v], block.var[v + 1])
    BY <1>1, <2>1
  <2>3. \A w \in 1..(v + 1) : w = v + 1 \/ w \in 1..v
    BY <2>1
  <2>4. CASE v + 1 > block.nr_vars
    <3>1. f[v + 1] = f[v]
      BY <2>2, <2>4
    <3>2. \A w \in 1..(v + 1) : w <= block.nr_vars => w \in 1..v
      BY <1>4, <2>1, <2>3, <2>4
    <3> HIDE DEF Shows
    <3> QED BY <2>1, <3>1, <3>2
  <2>7. CASE v + 1 <= block.nr_vars /\ block.var[v + 1].var = 0
    <3> DEFINE x == f[v + 1]
    <3>1. x = [f[v] EXCEPT !.wild = TRUE]
      <4>1. ~ (v + 1 > block.nr_vars)
        BY <1>4, <2>1, <2>7
      <4> QED BY <2>2, <2>7, <4>1 DEF PointsTo
    <3> HIDE DEF x
    <3>2. x.list = f[v].list /\ x.toggles = f[v].toggles /\ x.ok = f[v].ok /\ Keeps(f[v], x)
      BY <2>1, <3>1, WildKeeps
    <3>3. Keeps(m, x) /\ Changes(m, x, NamesAt(key))
      BY <2>1, <3>2, KeepsOn DEF Changes, OneName
    <3>4. \A w \in 1..(v + 1) : w <= block.nr_vars => Shows(x, w)
      BY <2>1, <2>3, <2>7, <3>2
    <3> HIDE DEF Shows
    <3> QED BY <2>1, <3>2, <3>3, <3>4 DEF x
  <2>5. CASE v + 1 <= block.nr_vars /\ block.var[v + 1].var # 0
    <3> DEFINE name == Name(v + 1)
               at == block.var[v + 1].value
               i == block.var[v + 1].var
               x == f[v + 1]
    <3>1. /\ i \in 1..Len(m.list) /\ at \in DOMAIN m.text /\ name \in Names /\ name \in NamesAt(key)
          /\ m.list[i].name = name
      BY <1>2, <2>1, <2>5
    <3>2. x = SetNoCopy(f[v], name, at)
      <4>1. ~ (v + 1 > block.nr_vars)
        BY <1>4, <2>1, <2>5
      <4> QED BY <2>2, <2>5, <4>1 DEF PointsTo
    <3> HIDE DEF x, name, at, i
    <3>3. /\ at \in DOMAIN f[v].text /\ i \in 1..Len(f[v].list) /\ f[v].list[i].name = name
      <4>1. Len(m.list) \in Nat /\ Len(f[v].list) \in Nat
        BY <2>1, ListType
      <4>2. at \in DOMAIN f[v].text
        BY <2>1, <3>1 DEF Keeps, Grows
      <4>3. i \in 1..Len(f[v].list) /\ f[v].list[i].name = name
        BY <2>1, <3>1, <4>1, ListKept
      <4> QED BY <4>2, <4>3
    <3>4. Index(f[v], name) # 0
      BY <2>1, <3>3, IndexType, ListType
    <3>5. Keeps(f[v], x) /\ Good(x) /\ Changes(f[v], x, {name}) /\ x.ok /\ (OneName(f[v]) => AllAre(x, name, at))
      BY <2>1, <3>1, <3>2, <3>3, <3>4, SetNoCopyKeeps, SetNoCopyChanges DEF Keeps
    <3>6. Keeps(m, x) /\ Changes(m, x, NamesAt(key))
      <4>1. Changes(f[v], x, NamesAt(key))
        BY <3>1, <3>5, ChangesMore
      <4> QED BY <2>1, <3>5, <4>1, KeepsOn, ChangesOn
    <3>7. Len(f[v].list) \in Nat /\ Len(x.list) \in Nat /\ Len(f[v].list) <= Len(x.list)
      BY <2>1, <3>5, ListType DEF Changes
    <3>8. x.list[i].value = at
      <4>1. i \in 1..Len(x.list) /\ x.list[i].name = name
        BY <3>3, <3>5, <3>7 DEF Changes
      <4>2. OneName(f[v])
        BY <2>1 DEF Changes
      <4> QED BY <3>5, <4>1, <4>2 DEF AllAre
    <3>9. ASSUME OnePlace, NEW w \in 1..v, w <= block.nr_vars, block.var[w].var # 0
          PROVE  x.list[block.var[w].var].value = block.var[w].value
      <4> DEFINE j == block.var[w].var
      <4>1. w \in 1..N /\ w # v + 1
        BY <2>1, Constants
      <4>2. j \in 1..Len(m.list) /\ m.list[j].name # name
        BY <1>2, <1>3, <2>1, <2>5, <3>9, <4>1 DEF name
      <4>3. j \in 1..Len(f[v].list) /\ f[v].list[j].name # name
        <5>1. Len(m.list) \in Nat
          BY ListType
        <5> HIDE DEF j
        <5>2. j \in 1..Len(f[v].list) /\ f[v].list[j].name = m.list[j].name
          BY <2>1, <3>7, <4>2, <5>1, ListKept
        <5> QED BY <4>2, <5>2
      <4>4. x.list[j] = f[v].list[j]
        BY <3>5, <4>3 DEF Changes
      <4>5. Shows(f[v], w)
        BY <2>1, <3>9
      <4> QED BY <3>9, <4>4, <4>5
    <3>10. Shows(x, v + 1)
      BY <3>8 DEF i, at
    <3>11. \A w \in 1..(v + 1) : w <= block.nr_vars => Shows(x, w)
      <4>1. \A w \in 1..v : w <= block.nr_vars => Shows(x, w)
        BY <3>9
      <4> HIDE DEF Shows
      <4> QED BY <2>3, <3>10, <4>1
    <3> HIDE DEF Shows
    <3>12. x.ok /\ Keeps(m, x) /\ Changes(m, x, NamesAt(key))
      BY <3>5, <3>6
    <3> QED BY <2>1, <3>11, <3>12 DEF x
  <2>6. v + 1 > block.nr_vars \/ v + 1 <= block.nr_vars
    BY <1>4, <2>1
  <2> HIDE DEF T
  <2> QED BY <2>4, <2>5, <2>6, <2>7
<1>7. N \in T
  <2> HIDE DEF T
  <2>1. T \in SUBSET Nat
    BY DEF T
  <2>2. N \in Nat /\ \A v \in T : v < N => v + 1 \in T
    BY <1>6, Constants
  <2>3. \A v \in 0..N : v \in T
    BY <1>5, <2>1, <2>2, Induction
  <2> QED BY <2>2, <2>3
<1> DEFINE y == DoBlock(m, s, b)
<1>8. /\ y.ok /\ Keeps(m, y) /\ Changes(m, y, NamesAt(key))
      /\ \A w \in 1..N : w <= block.nr_vars => Shows(y, w)
  BY <1>1, <1>7
<1> HIDE DEF y
<1>9. y.toggles = m.toggles
  BY <1>8 DEF Keeps
<1>10. BlockShown(y, s, b)
  BY <1>8, <1>9 DEF BlockShown, block
<1>11. Entered(y, s)
  BY <1>8, <1>9, StillEntered
<1> QED BY <1>8, <1>10, <1>11 DEF y, key

\* A step of toggle set before the blocks are counted.
EntersAt(m, x, s) ==
  /\ Entered(m, s) => Entered(x, s)
  /\ x.toggles[s].nr_blocks = m.toggles[s].nr_blocks
  /\ Changes(m, x, NamesAt(m.toggles[s].key))

LEMMA EntersOn ==
  ASSUME NEW m, NEW x, NEW y, NEW s, Good(m), Good(x), Good(y), x.toggles[s].key = m.toggles[s].key,
         EntersAt(m, x, s), EntersAt(x, y, s)
  PROVE  EntersAt(m, y, s)
BY ChangesOn DEF EntersAt

LEMMA EntersSame ==
  ASSUME NEW m, NEW x, NEW s \in 1..Len(m.toggles), Good(m), x.toggles = m.toggles,
         Changes(m, x, NamesAt(m.toggles[s].key))
  PROVE  EntersAt(m, x, s)
BY StillEntered DEF EntersAt

LEMMA VarPutEnters ==
  ASSUME NEW m, Good(m), NEW s \in 1..Len(m.toggles), NEW b \in 1..MAX_BLOCKS, NEW v \in 1..MAX_VAR_PER_BLOCK,
         NEW e, e.var # 0 => Has(m.toggles[s].key, b, v, m.list[e.var].name)
  PROVE  EntersAt(m, VarPut(m, s, b, v, e), s)
<1> DEFINE x == VarPut(m, s, b, v, e)
           slot == m.toggles[s]
           block == slot.block[b]
           newblock == [block EXCEPT !.var = [block.var EXCEPT ![v] = e]]
           newslot == [slot EXCEPT !.block = [slot.block EXCEPT ![b] = newblock]]
<1>1. slot \in Slots(DOMAIN m.text, Len(m.list)) /\ block \in Blocks(DOMAIN m.text, Len(m.list))
  BY SlotParts
<1>2. x.list = m.list /\ x.toggles = [m.toggles EXCEPT ![s] = newslot]
  BY DEF VarPut, Good
<1>3. DOMAIN m.toggles = 1..Len(m.toggles)
  BY DEF Good
<1>4. x.toggles[s] = newslot
  BY <1>2, <1>3
<1> HIDE DEF x, slot
<1> HIDE DEF block
<1>5. \A w \in 1..MAX_VAR_PER_BLOCK : newblock.var[w] = IF w = v THEN e ELSE block.var[w]
  <2>1. block \in [nr_vars : 0..MAX_VAR_PER_BLOCK, var : [1..MAX_VAR_PER_BLOCK -> Entries(DOMAIN m.text, Len(m.list))]]
    BY <1>1 DEF Blocks
  <2> QED BY <2>1
<1> HIDE DEF newblock
<1>6. /\ newslot.key = slot.key /\ newslot.nr_blocks = slot.nr_blocks
      /\ \A a \in 1..MAX_BLOCKS : newslot.block[a] = IF a = b THEN newblock ELSE slot.block[a]
  <2> DEFINE B == Blocks(DOMAIN m.text, Len(m.list))
  <2>1. slot \in [key : Keys, current_block : Nat, nr_blocks : 0..MAX_BLOCKS, block : [1..MAX_BLOCKS -> B]]
    BY <1>1 DEF Slots
  <2> HIDE DEF B
  <2> QED BY <2>1
<1> HIDE DEF newslot
<1>7. ASSUME Entered(m, s), NEW a \in 1..MAX_BLOCKS, NEW w \in 1..MAX_VAR_PER_BLOCK, newslot.block[a].var[w].var # 0
      PROVE  Has(slot.key, a, w, m.list[newslot.block[a].var[w].var].name)
  <2>1. CASE a = b /\ w = v
    BY <1>5, <1>6, <1>7, <2>1 DEF slot
  <2>2. CASE ~ (a = b /\ w = v)
    <3>1. newslot.block[a].var[w] = slot.block[a].var[w]
      BY <1>5, <1>6, <2>2 DEF block
    <3> QED BY <1>7, <3>1 DEF Entered, slot
  <2> QED BY <2>1, <2>2
<1>8. Entered(m, s) => Entered(x, s)
  BY <1>2, <1>4, <1>6, <1>7 DEF Entered
<1>9. Changes(m, x, NamesAt(slot.key))
  BY <1>2, SameList
<1> QED BY <1>4, <1>6, <1>8, <1>9 DEF EntersAt, x, slot

LEMMA CountPutEnters ==
  ASSUME NEW m, Good(m), NEW s \in 1..Len(m.toggles), NEW b \in 1..MAX_BLOCKS, NEW v
  PROVE  EntersAt(m, CountPut(m, s, b, v), s)
<1> DEFINE x == CountPut(m, s, b, v)
           slot == m.toggles[s]
           block == slot.block[b]
           newblock == [block EXCEPT !.nr_vars = IF v > @ THEN v ELSE @]
           newslot == [slot EXCEPT !.block = [slot.block EXCEPT ![b] = newblock]]
<1>1. slot \in Slots(DOMAIN m.text, Len(m.list)) /\ block \in Blocks(DOMAIN m.text, Len(m.list))
  BY SlotParts
<1>2. x.list = m.list /\ x.toggles = [m.toggles EXCEPT ![s] = newslot]
  BY DEF CountPut, Good
<1>3. DOMAIN m.toggles = 1..Len(m.toggles)
  BY DEF Good
<1>4. x.toggles[s] = newslot
  BY <1>2, <1>3
<1> HIDE DEF x, slot
<1> HIDE DEF block
<1>5. newblock.var = block.var
  <2>1. block \in [nr_vars : 0..MAX_VAR_PER_BLOCK, var : [1..MAX_VAR_PER_BLOCK -> Entries(DOMAIN m.text, Len(m.list))]]
    BY <1>1 DEF Blocks
  <2> QED BY <2>1
<1> HIDE DEF newblock
<1>6. /\ newslot.key = slot.key /\ newslot.nr_blocks = slot.nr_blocks
      /\ \A a \in 1..MAX_BLOCKS : newslot.block[a] = IF a = b THEN newblock ELSE slot.block[a]
  <2> DEFINE B == Blocks(DOMAIN m.text, Len(m.list))
  <2>1. slot \in [key : Keys, current_block : Nat, nr_blocks : 0..MAX_BLOCKS, block : [1..MAX_BLOCKS -> B]]
    BY <1>1 DEF Slots
  <2> HIDE DEF B
  <2> QED BY <2>1
<1> HIDE DEF newslot
<1>7. \A a \in 1..MAX_BLOCKS : newslot.block[a].var = slot.block[a].var
  BY <1>5, <1>6 DEF block
<1>8. Entered(m, s) => Entered(x, s)
  BY <1>2, <1>4, <1>6, <1>7 DEF Entered, slot
<1>9. Changes(m, x, NamesAt(slot.key))
  BY <1>2, SameList
<1> QED BY <1>4, <1>6, <1>8, <1>9 DEF EntersAt, x, slot

LEMMA ProcessVarEnters ==
  ASSUME NEW m, Good(m), NEW s \in 1..Len(m.toggles), NEW b \in 1..MAX_BLOCKS, NEW v \in 1..MAX_VAR_PER_BLOCK,
         NEW pair \in [name : Names, value : Texts], m.toggles[s].block[b].nr_vars >= v - 1,
         Has(m.toggles[s].key, b, v, pair.name), Entered(m, s)
  PROVE  EntersAt(m, ProcessVar(m, s, b, v, pair), s)
<1> DEFINE a == Allocate(m, pair.value)
           set == SetNoCopy(a, pair.name, m.used)
           e == [var |-> Index(set, pair.name),
                 value |-> IF set.ok THEN m.used ELSE set.toggles[s].block[b].var[v].value]
           new == VarPut(set, s, b, v, e)
           n == IF SameText(m, s, b, v, pair) THEN m ELSE IF ~ Room(m, pair.value) THEN Fail(m) ELSE new
           counted == CountPut(n, s, b, v)
           key == m.toggles[s].key
<1>1. ProcessVar(m, s, b, v, pair) = IF n.ok THEN counted ELSE n
  BY DEF ProcessVar, VarPut, CountPut
<1>2. pair.name \in Names /\ pair.value \in Texts /\ pair.name \in NamesAt(key)
  <2> HIDE DEF key
  <2>1. Has(key, b, v, pair.name)
    BY DEF key
  <2> QED BY <2>1 DEF NamesAt
<1> HIDE DEF n, key
<1>3. CASE SameText(m, s, b, v, pair)
  <2>1. n = m
    BY <1>3 DEF n
  <2>2. EntersAt(m, m, s)
    BY EntersSame, SameList
  <2>3. EntersAt(m, CountPut(m, s, b, v), s)
    BY CountPutEnters
  <2> QED BY <1>1, <2>1, <2>2, <2>3
<1>4. CASE ~ SameText(m, s, b, v, pair) /\ ~ Room(m, pair.value)
  <2>1. n = Fail(m) /\ Fail(m).ok = FALSE /\ Fail(m).toggles = m.toggles /\ Fail(m).list = m.list
    BY <1>4 DEF n, Fail, Good
  <2>2. EntersAt(m, Fail(m), s)
    BY <2>1, EntersSame, SameList
  <2> QED BY <1>1, <2>1, <2>2
<1>5. CASE ~ SameText(m, s, b, v, pair) /\ Room(m, pair.value)
  <2>1. n = new
    BY <1>5 DEF n
  <2>2. Keeps(m, a) /\ Good(a) /\ m.used \in DOMAIN a.text /\ a.list = m.list
    BY <1>2, <1>5, AllocateKeeps DEF Keeps
  <2> HIDE DEF a
  <2>3. Keeps(a, set) /\ Good(set) /\ (set.ok => Index(set, pair.name) # 0) /\ Changes(a, set, {pair.name})
    BY <1>2, <2>2, SetNoCopyKeeps, SetNoCopyChanges DEF Keeps
  <2>4. Keeps(m, set) /\ Changes(m, set, NamesAt(key))
    <3>1. Changes(m, a, NamesAt(key)) /\ Changes(a, set, NamesAt(key))
      BY <1>2, <2>2, <2>3, SameList, ChangesMore
    <3> HIDE DEF set
    <3> QED BY <2>2, <2>3, <3>1, KeepsOn, ChangesOn
  <2>0. Writes(m, ProcessVar(m, s, b, v, pair), s)
    BY ProcessVarWrites
  <2> HIDE DEF set
  <2>5. set.toggles = m.toggles /\ s \in 1..Len(set.toggles)
    BY <2>4 DEF Keeps
  <2>6. EntersAt(m, set, s)
    BY <2>4, <2>5, EntersSame DEF key
  <2>7. Entered(set, s)
    BY <2>6 DEF EntersAt
  <2>8. e.var # 0 => Has(key, b, v, set.list[e.var].name)
    <3>1. e.var = Index(set, pair.name)
      OBVIOUS
    <3> HIDE DEF e
    <3> SUFFICES ASSUME Index(set, pair.name) # 0 PROVE Has(key, b, v, set.list[e.var].name)
      BY <3>1
    <3>2. PICK j \in DOMAIN set.list : set.list[j].name = pair.name
      BY <2>3, IndexType
    <3>3. set.list[Index(set, pair.name)].name = pair.name
      BY <3>2 DEF Index
    <3> QED BY <3>1, <3>3 DEF key
  <2>9. /\ e \in Entries(DOMAIN set.text, Len(set.list))
        /\ v <= set.toggles[s].block[b].nr_vars => e \in Used(DOMAIN set.text, Len(set.list))
    <3> DEFINE was == set.toggles[s].block[b].var[v]
    <3>1. Index(set, pair.name) \in 0..Len(set.list) /\ m.used \in DOMAIN set.text
      BY <2>2, <2>3, IndexType DEF Keeps, Grows
    <3>2. was \in Entries(DOMAIN set.text, Len(set.list))
      BY <2>3, <2>5, SlotParts
    <3>3. v <= set.toggles[s].block[b].nr_vars => was \in Used(DOMAIN set.text, Len(set.list))
      BY <2>3, <2>5, BlockParts
    <3> HIDE DEF was
    <3>4. e = [var |-> Index(set, pair.name), value |-> IF set.ok THEN m.used ELSE was.value]
      BY DEF was
    <3> HIDE DEF e
    <3> QED BY <3>1, <3>2, <3>3, <3>4 DEF Entries, Used
  <2> HIDE DEF e
  <2>10. VarWritten(set, new, s, b, v, e)
    <3>1. v <= set.toggles[s].block[b].nr_vars => e \in Used(DOMAIN set.text, Len(set.list))
      BY <2>9
    <3> QED BY <2>3, <2>5, <2>9, <3>1, WithVar
  <2>11. EntersAt(set, new, s)
    <3>1. e.var # 0 => Has(set.toggles[s].key, b, v, set.list[e.var].name)
      BY <2>5, <2>8 DEF key
    <3> QED BY <2>3, <2>5, <3>1, VarPutEnters
  <2> HIDE DEF new
  <2>12. Good(new) /\ s \in 1..Len(new.toggles) /\ new.toggles[s].key = m.toggles[s].key
    BY <2>5, <2>10 DEF VarWritten, Writes, Others
  <2>13. EntersAt(m, new, s)
    <3>1. set.toggles[s].key = m.toggles[s].key
      BY <2>5
    <3> QED BY <2>3, <2>6, <2>11, <2>12, <3>1, EntersOn
  <2>14. EntersAt(new, CountPut(new, s, b, v), s)
    BY <2>12, CountPutEnters
  <2>15. CASE new.ok
    <3>1. ProcessVar(m, s, b, v, pair) = CountPut(new, s, b, v)
      BY <1>1, <2>1, <2>15
    <3> DEFINE y == CountPut(new, s, b, v)
    <3>2. Good(y)
      BY <2>0, <3>1 DEF Writes
    <3> HIDE DEF y
    <3> QED BY <2>12, <2>13, <2>14, <3>1, <3>2, EntersOn DEF y
  <2>16. CASE ~ new.ok
    BY <1>1, <2>1, <2>13, <2>16
  <2> QED BY <2>15, <2>16
<1> QED BY <1>3, <1>4, <1>5

LEMMA ProcessBlockEnters ==
  ASSUME NEW m, Good(m), NEW s \in 1..Len(m.toggles), NEW b \in 1..MAX_BLOCKS,
         NEW pairs \in Assignments(Texts), Entered(m, s),
         \A v \in DOMAIN pairs : Has(m.toggles[s].key, b, v, pairs[v].name)
  PROVE  EntersAt(m, ProcessBlock(m, s, b, pairs), s)
<1>1. /\ Len(pairs) \in Nat /\ DOMAIN pairs = 1..Len(pairs)
      /\ \A v \in 1..Len(pairs) : pairs[v] \in [name : Names, value : Texts]
  BY Elements
<1>2. PICK f : ProcessBlockRun(f, m, s, b, pairs)
  BY <1>1, ProcessBlockLoop
<1> DEFINE N == Len(pairs)
           T == {v \in 0..N : /\ Writes(m, f[v], s) /\ EntersAt(m, f[v], s)
                              /\ f[v].ok => f[v].toggles[s].block[b].nr_vars >= v}
<1>3. 0 \in T
  <2>1. Writes(m, m, s) /\ EntersAt(m, m, s)
    BY WritesSelf, EntersSame, SameList
  <2>2. m.toggles[s].block[b].nr_vars >= 0
    BY SlotParts
  <2> QED BY <1>1, <1>2, <2>1, <2>2 DEF ProcessBlockRun
<1>4. ASSUME NEW v \in T, v < N PROVE v + 1 \in T
  <2>1. /\ v \in Nat /\ v + 1 \in 1..N /\ v + 1 \in 0..N /\ (v + 1) - 1 = v /\ Writes(m, f[v], s) /\ Good(f[v])
        /\ s \in 1..Len(f[v].toggles) /\ (f[v].ok => f[v].toggles[s].block[b].nr_vars >= v)
        /\ EntersAt(m, f[v], s) /\ f[v].toggles[s].key = m.toggles[s].key
    BY <1>1, <1>4 DEF Writes, Others
  <2>2. f[v + 1] = IF ~ f[v].ok THEN f[v]
                   ELSE IF v + 1 > MAX_VAR_PER_BLOCK THEN Fail(f[v])
                   ELSE ProcessVar(f[v], s, b, v + 1, pairs[v + 1])
    BY <1>2, <2>1 DEF ProcessBlockRun
  <2>3. CASE ~ f[v].ok
    BY <2>1, <2>2, <2>3
  <2>4. CASE f[v].ok /\ v + 1 > MAX_VAR_PER_BLOCK
    <3>1. /\ Fail(f[v]).ok = FALSE /\ Fail(f[v]).toggles = f[v].toggles /\ Fail(f[v]).list = f[v].list
          /\ Keeps(f[v], Fail(f[v])) /\ Good(Fail(f[v]))
      BY <2>1, FailKeeps DEF Fail, Good, Keeps
    <3>2. Writes(m, f[v + 1], s)
      BY <2>1, <2>2, <2>4, <3>1, KeptIsWritten, WritesOn
    <3>3. EntersAt(m, f[v + 1], s)
      <4>1. EntersAt(f[v], Fail(f[v]), s)
        BY <2>1, <3>1, EntersSame, SameList
      <4> QED BY <2>1, <2>2, <2>4, <3>1, <4>1, EntersOn
    <3> QED BY <2>1, <2>2, <2>4, <3>1, <3>2, <3>3
  <2>5. CASE f[v].ok /\ ~ (v + 1 > MAX_VAR_PER_BLOCK)
    <3>1. v + 1 \in 1..MAX_VAR_PER_BLOCK
      BY <2>1, <2>5, Constants
    <3>2. pairs[v + 1] \in [name : Names, value : Texts] /\ Has(m.toggles[s].key, b, v + 1, pairs[v + 1].name)
      BY <1>1, <2>1
    <3>3. /\ Writes(f[v], f[v + 1], s)
          /\ f[v + 1].ok => f[v + 1].toggles[s].block[b].nr_vars >= v + 1
      <4>1. f[v + 1] = ProcessVar(f[v], s, b, v + 1, pairs[v + 1])
        BY <2>2, <2>5
      <4>2. f[v].toggles[s].block[b].nr_vars >= (v + 1) - 1
        BY <2>1, <2>5
      <4> QED BY <2>1, <2>5, <3>1, <3>2, <4>1, <4>2, ProcessVarWrites
    <3>4. EntersAt(f[v], f[v + 1], s)
      <4>1. Entered(f[v], s)
        BY <2>1 DEF EntersAt
      <4> QED BY <2>1, <2>2, <2>5, <3>1, <3>2, <4>1, ProcessVarEnters
    <3>5. Writes(m, f[v + 1], s)
      BY <2>1, <3>3, WritesOn
    <3>6. EntersAt(m, f[v + 1], s)
      <4>1. Good(f[v + 1])
        BY <3>3 DEF Writes
      <4> QED BY <2>1, <3>4, <4>1, EntersOn
    <3> QED BY <2>1, <3>3, <3>5, <3>6
  <2> QED BY <2>3, <2>4, <2>5
<1>5. N \in T
  <2> HIDE DEF T
  <2>1. T \in SUBSET Nat
    BY DEF T
  <2>2. \A v \in T : v < N => v + 1 \in T
    BY <1>4
  <2>3. \A v \in 0..N : v \in T
    BY <1>1, <1>3, <2>1, <2>2, Induction
  <2> QED BY <1>1, <2>3
<1> QED BY <1>2, <1>5 DEF ProcessBlockRun

\* A slot made empty keeps its variables' names, and shows nothing.
LEMMA ResetParts ==
  ASSUME NEW D, NEW n, NEW slot \in Slots(D, n)
  PROVE  /\ Reset(slot).key = slot.key /\ Reset(slot).nr_blocks = 0
         /\ \A b \in 1..MAX_BLOCKS : Reset(slot).block[b].var = slot.block[b].var
<1> DEFINE B == Blocks(D, n)
           block == [b \in DOMAIN slot.block |-> IF b <= MAX_VAR_PER_BLOCK
                                                THEN [slot.block[b] EXCEPT !.nr_vars = 0] ELSE slot.block[b]]
<1>1. slot \in [key : Keys, current_block : Nat, nr_blocks : 0..MAX_BLOCKS, block : [1..MAX_BLOCKS -> B]]
  BY DEF Slots
<1>2. ASSUME NEW old \in B PROVE [old EXCEPT !.nr_vars = 0].var = old.var
  BY DEF Blocks
<1> HIDE DEF B
<1>3. \A b \in 1..MAX_BLOCKS : block[b].var = slot.block[b].var
  BY <1>1, <1>2
<1>4. Reset(slot) = [slot EXCEPT !.nr_blocks = 0, !.current_block = 0, !.block = block]
  BY DEF Reset
<1> HIDE DEF block
<1> QED BY <1>1, <1>3, <1>4

LEMMA ClearedSound ==
  ASSUME NEW m, Good(m), Sound(m), NEW c, c.key \in Keys
  PROVE  /\ Sound(Cleared(m, c)) /\ Cleared(m, c).list = m.list
         /\ Cleared(m, c).toggles[ToggleSlot(m, c)].nr_blocks = 0
<1> DEFINE s == ToggleSlot(m, c)
           S == Slots(DOMAIN m.text, Len(m.list))
           slots == WithRoomFor(m, c)
           x == Cleared(m, c)
<1>1. Len(m.toggles) \in Nat /\ Slot(m, c.key) \in 0..Len(m.toggles) /\ m.toggles \in Seq(S)
  BY SlotType DEF Good
<1>2. EmptySlot(c.key) \in S
  BY EmptySlotType
<1>3. x.toggles = [slots EXCEPT ![s] = Reset(slots[s])] /\ x.list = m.list
  BY DEF Cleared, Good
<1> HIDE DEF x
<1>4. Leaves(m, x, {c.key})
  BY ClearedLeaves DEF x
<1>5. OneName(x) /\ Unique(x)
  BY <1>3, <1>4 DEF Sound, OneName, Leaves
<1> DEFINE Fine(slot) == \A b \in 1..MAX_BLOCKS, v \in 1..MAX_VAR_PER_BLOCK :
                           LET e == slot.block[b].var[v]
                           IN  e.var # 0 => Has(slot.key, b, v, m.list[e.var].name)
<1>6. Fine(EmptySlot(c.key))
  BY DEF EmptySlot, EmptyBlock
<1>7. \A t \in 1..Len(m.toggles) : Fine(m.toggles[t])
  BY DEF Sound, Entered
<1>8. ASSUME NEW slot \in S, Fine(slot) PROVE Fine(Reset(slot)) /\ Reset(slot).nr_blocks = 0
  <2> DEFINE reset == Reset(slot)
  <2>1. /\ reset.key = slot.key /\ reset.nr_blocks = 0
        /\ \A b \in 1..MAX_BLOCKS : reset.block[b].var = slot.block[b].var
    BY ResetParts
  <2> HIDE DEF reset
  <2>2. Fine(reset)
    <3> SUFFICES ASSUME NEW b \in 1..MAX_BLOCKS, NEW v \in 1..MAX_VAR_PER_BLOCK, reset.block[b].var[v].var # 0
                 PROVE  Has(reset.key, b, v, m.list[reset.block[b].var[v].var].name)
      OBVIOUS
    <3>1. reset.key = slot.key /\ reset.block[b].var = slot.block[b].var
      BY <2>1
    <3>2. slot.block[b].var[v].var # 0 => Has(slot.key, b, v, m.list[slot.block[b].var[v].var].name)
      BY <1>8
    <3> HIDE DEF Fine
    <3> QED BY <3>1, <3>2
  <2> QED BY <2>1, <2>2 DEF reset
<1> HIDE DEF Fine, S
<1>9. /\ slots \in Seq(S) /\ Len(slots) \in Nat /\ s \in 1..Len(slots)
      /\ \A t \in 1..Len(slots) : /\ slots[t] \in S /\ Fine(slots[t])
                                  /\ t # s => t \in 1..Len(m.toggles) /\ slots[t] = m.toggles[t]
  <2>1. CASE Slot(m, c.key) = 0
    <3> DEFINE e == EmptySlot(c.key)
    <3> HIDE DEF e
    <3>1. s = Len(m.toggles) + 1 /\ slots = Append(m.toggles, e)
      BY <2>1 DEF WithRoomFor, ToggleSlot, e
    <3>2. e \in S /\ Fine(e)
      BY <1>2, <1>6 DEF e
    <3> HIDE DEF s, slots
    <3>3. /\ slots \in Seq(S) /\ Len(slots) = Len(m.toggles) + 1 /\ slots[Len(m.toggles) + 1] = e
          /\ \A t \in 1..Len(m.toggles) : slots[t] = m.toggles[t] /\ m.toggles[t] \in S
      BY <1>1, <3>1, <3>2
    <3>4. \A t \in 1..Len(slots) : t = s \/ t \in 1..Len(m.toggles)
      BY <1>1, <3>1, <3>3
    <3> QED BY <1>1, <1>7, <3>1, <3>2, <3>3, <3>4
  <2>2. CASE Slot(m, c.key) # 0
    BY <1>1, <1>7, <2>2 DEF WithRoomFor, ToggleSlot
  <2> QED BY <2>1, <2>2
<1> HIDE DEF s, slots
<1> DEFINE new == Reset(slots[s])
<1>10. Fine(new) /\ new.nr_blocks = 0
  BY <1>8, <1>9
<1> HIDE DEF new
<1>11. /\ Len(x.toggles) = Len(slots) /\ x.toggles[s] = new
       /\ \A t \in 1..Len(slots) : t # s => x.toggles[t] = slots[t]
  <2>1. slots \in Seq(S \cup {new})
    BY <1>9
  <2> QED BY <1>3, <1>9, <2>1 DEF new
<1>12. ASSUME NEW t \in 1..Len(x.toggles) PROVE Entered(x, t) /\ ShownAt(x, t)
  <2>1. CASE t = s
    <3>1. Entered(x, t)
      BY <1>3, <1>10, <1>11, <2>1 DEF Entered, Fine
    <3> QED BY <1>10, <1>11, <2>1, <3>1 DEF ShownAt
  <2>2. CASE t # s
    <3>1. t \in 1..Len(m.toggles) /\ x.toggles[t] = m.toggles[t]
      BY <1>9, <1>11, <2>2
    <3>2. Entered(m, t) /\ ShownAt(m, t) /\ x.list = m.list
      BY <1>3, <3>1 DEF Sound
    <3>3. Entered(x, t)
      BY <3>1, <3>2 DEF Entered
    <3>4. ShownAt(x, t)
      BY <3>1, <3>2 DEF ShownAt, BlockShown
    <3> QED BY <3>3, <3>4
  <2> QED BY <2>1, <2>2
<1> QED BY <1>3, <1>5, <1>10, <1>11, <1>12 DEF Sound, x, s

\* A count of blocks changes no entry.
LEMMA CountedEnters ==
  ASSUME NEW m, Good(m), NEW s \in 1..Len(m.toggles), NEW n \in 0..MAX_BLOCKS, m.toggles[s].current_block = 0
  PROVE  LET x == Counted(m, s, n) IN
         /\ Good(x) /\ Others(m, x, s) /\ x.list = m.list /\ x.ok = m.ok
         /\ x.toggles[s].nr_blocks = n /\ x.toggles[s].current_block = 0
         /\ Entered(m, s) => Entered(x, s)
<1> DEFINE old == m.toggles[s]
           slot == [old EXCEPT !.nr_blocks = n]
           x == Counted(m, s, n)
<1>1. old \in Slots(DOMAIN m.text, Len(m.list)) /\ old.current_block = 0
  BY SlotParts
<1>2. x = SlotPut(m, s, slot)
  BY DEF SlotPut, Counted
<1> HIDE DEF old, x
<1>3. /\ slot \in Slots(DOMAIN m.text, Len(m.list)) /\ slot.key = old.key /\ slot.block = old.block
      /\ slot.nr_blocks = n /\ slot.current_block = 0
  BY <1>1 DEF Slots, AtABlock
<1> HIDE DEF slot
<1>4. /\ Good(x) /\ x.ok = m.ok /\ x.list = m.list /\ Len(x.toggles) = Len(m.toggles) /\ x.toggles[s] = slot
      /\ \A t \in 1..Len(m.toggles) : t # s => x.toggles[t] = m.toggles[t]
  BY <1>2, <1>3, WithSlot
<1>5. Others(m, x, s)
  BY <1>3, <1>4 DEF Others, old
<1>6. Entered(m, s) => Entered(x, s)
  BY <1>3, <1>4 DEF Entered, old
<1> QED BY <1>3, <1>4, <1>5, <1>6 DEF x

\* The blocks of a toggle set one after the other.
ToggleSteps(f, m, c) ==
  \A b \in 0..Len(c.blocks) : /\ Writes(Cleared(m, c), f[b], ToggleSlot(m, c))
                              /\ EntersAt(Cleared(m, c), f[b], ToggleSlot(m, c))
                              /\ f[b].ok => b <= MAX_BLOCKS

LEMMA ToggleRun ==
  ASSUME NEW m, Good(m), NEW c, c.key \in Keys, c.blocks \in Seq(Assignments(Texts)), InPlaces(c),
         NEW f, ToggleSetRun(f, m, c), Entered(Cleared(m, c), ToggleSlot(m, c))
  PROVE  ToggleSteps(f, m, c)
<1> DEFINE N == Len(c.blocks)
           s == ToggleSlot(m, c)
           x == Cleared(m, c)
<1> HIDE DEF N, s, x
<1>1. /\ N \in Nat /\ DOMAIN c.blocks = 1..N
      /\ \A b \in 1..N : /\ c.blocks[b] \in Assignments(Texts)
                         /\ \A v \in DOMAIN c.blocks[b] : Has(c.key, b, v, c.blocks[b][v].name)
  <2> DEFINE A == Assignments(Texts)
  <2> HIDE DEF A
  <2>1. c.blocks \in Seq(A)
    BY DEF A
  <2>2. N \in Nat /\ DOMAIN c.blocks = 1..N /\ \A b \in 1..N : c.blocks[b] \in A
    BY <2>1, Elements DEF N
  <2> QED BY <2>2 DEF A, InPlaces
<1>2. ToggleSetRun(f, m, c)
  OBVIOUS
<1>3. /\ Good(x) /\ s \in 1..Len(x.toggles) /\ x.toggles[s].key = c.key /\ Entered(x, s)
  BY ClearedGood, ClearedLeaves DEF x, s
<1> DEFINE T == {b \in 0..N : Writes(x, f[b], s) /\ EntersAt(x, f[b], s) /\ (f[b].ok => b <= MAX_BLOCKS)}
<1>4. 0 \in T
  <2>1. Writes(x, x, s) /\ f[0] = x /\ EntersAt(x, x, s)
    BY <1>2, <1>3, WritesSelf, EntersSame, SameList DEF ToggleSetRun, x
  <2> QED BY <1>1, <2>1, Constants
<1>5. ASSUME NEW b \in T, b < N PROVE b + 1 \in T
  <2>1. /\ b \in Nat /\ b + 1 \in 1..N /\ b + 1 \in 0..N /\ (b + 1) - 1 = b /\ Writes(x, f[b], s) /\ Good(f[b])
        /\ s \in 1..Len(f[b].toggles) /\ EntersAt(x, f[b], s) /\ f[b].toggles[s].key = x.toggles[s].key
    BY <1>1, <1>3, <1>5 DEF Writes, Others
  <2>2. f[b + 1] = IF ~ f[b].ok THEN f[b]
                   ELSE IF b + 1 > MAX_BLOCKS THEN Fail(f[b])
                   ELSE ProcessBlock(f[b], s, b + 1, c.blocks[b + 1])
    BY <1>2, <2>1 DEF ToggleSetRun, N, s
  <2>3. CASE ~ f[b].ok
    BY <2>1, <2>2, <2>3
  <2>4. CASE f[b].ok /\ b + 1 > MAX_BLOCKS
    <3>1. /\ Fail(f[b]).ok = FALSE /\ Fail(f[b]).toggles = f[b].toggles /\ Fail(f[b]).list = f[b].list
          /\ Keeps(f[b], Fail(f[b])) /\ Good(Fail(f[b]))
      BY <2>1, FailKeeps DEF Fail, Good, Keeps
    <3>2. Writes(x, f[b + 1], s)
      <4>1. Writes(f[b], Fail(f[b]), s) /\ f[b + 1] = Fail(f[b])
        BY <2>2, <2>4, <3>1, KeptIsWritten
      <4> QED BY <1>3, <2>1, <4>1, WritesOn
    <3>3. EntersAt(x, f[b + 1], s)
      <4>1. EntersAt(f[b], Fail(f[b]), s)
        BY <2>1, <3>1, EntersSame, SameList
      <4> QED BY <1>3, <2>1, <2>2, <2>4, <3>1, <4>1, EntersOn
    <3> QED BY <2>1, <2>2, <2>4, <3>1, <3>2, <3>3
  <2>5. CASE f[b].ok /\ ~ (b + 1 > MAX_BLOCKS)
    <3>1. b + 1 \in 1..MAX_BLOCKS
      BY <2>1, <2>5, Constants
    <3>2. /\ c.blocks[b + 1] \in Assignments(Texts)
          /\ \A v \in DOMAIN c.blocks[b + 1] : Has(f[b].toggles[s].key, b + 1, v, c.blocks[b + 1][v].name)
      BY <1>1, <1>3, <2>1
    <3>3. Writes(f[b], f[b + 1], s)
      BY <2>1, <2>2, <2>5, <3>1, <3>2, ProcessBlockWrites
    <3>4. EntersAt(f[b], f[b + 1], s)
      <4>1. Entered(f[b], s)
        BY <1>3, <2>1 DEF EntersAt
      <4> QED BY <2>1, <2>2, <2>5, <3>1, <3>2, <4>1, ProcessBlockEnters
    <3>5. Writes(x, f[b + 1], s)
      BY <1>3, <2>1, <3>3, WritesOn
    <3>6. EntersAt(x, f[b + 1], s)
      <4>1. Good(f[b + 1])
        BY <3>3 DEF Writes
      <4> QED BY <1>3, <2>1, <3>4, <4>1, EntersOn
    <3>7. b + 1 <= MAX_BLOCKS
      BY <3>1, Constants
    <3> QED BY <2>1, <3>5, <3>6, <3>7
  <2> QED BY <2>3, <2>4, <2>5
<1> HIDE DEF T
<1>6. T \in SUBSET Nat
  BY DEF T
<1>7. \A b \in T : b < N => b + 1 \in T
  BY <1>5
<1>8. \A b \in 0..N : b \in T
  BY <1>1, <1>4, <1>6, <1>7, Induction
<1> QED BY <1>8 DEF ToggleSteps, T, N, s, x

LEMMA ToggleSetSound ==
  ASSUME Apart, NEW m, Good(m), Sound(m), NEW c, c.key \in Keys, c.blocks \in Seq(Assignments(Texts)),
         InPlaces(c)
  PROVE  Sound(ToggleSet(m, c))
<1> DEFINE N == Len(c.blocks)
           s == ToggleSlot(m, c)
           x == Cleared(m, c)
<1> HIDE DEF N, s, x
<1>1. /\ N \in Nat /\ DOMAIN c.blocks = 1..N
      /\ \A b \in 1..N : /\ c.blocks[b] \in Assignments(Texts)
                         /\ \A v \in DOMAIN c.blocks[b] : Has(c.key, b, v, c.blocks[b][v].name)
  <2> DEFINE A == Assignments(Texts)
  <2> HIDE DEF A
  <2>1. c.blocks \in Seq(A)
    BY DEF A
  <2>2. N \in Nat /\ DOMAIN c.blocks = 1..N /\ \A b \in 1..N : c.blocks[b] \in A
    BY <2>1, Elements DEF N
  <2> QED BY <2>2 DEF A, InPlaces
<1>2. PICK f : ToggleSetRun(f, m, c)
  BY <1>1, ToggleSetLoop DEF N
<1>3. /\ Good(x) /\ s \in 1..Len(x.toggles) /\ x.toggles[s].current_block = 0
      /\ x.toggles[s].nr_blocks = 0 /\ x.toggles[s].key = c.key /\ Sound(x)
  BY ClearedGood, ClearedLeaves, ClearedSound DEF x, s
<1>6. Writes(x, f[N], s) /\ EntersAt(x, f[N], s) /\ (f[N].ok => N <= MAX_BLOCKS)
  <2>1. Entered(x, s)
    BY <1>3 DEF Sound
  <2>2. N \in 0..N
    BY <1>1
  <2>3. Entered(Cleared(m, c), ToggleSlot(m, c))
    BY <2>1 DEF x, s
  <2>4. ToggleSteps(f, m, c)
    BY <1>2, <2>3, ToggleRun
  <2> QED BY <2>2, <2>4 DEF ToggleSteps, x, s, N
<1> DEFINE last == f[N]
           all == Counted(last, s, N)
           y == DoBlock(all, s, 1)
<1>7. /\ Good(last) /\ s \in 1..Len(last.toggles) /\ last.toggles[s].current_block = 0
      /\ last.ok => N <= MAX_BLOCKS
      /\ Others(x, last, s) /\ EntersAt(x, last, s) /\ last.toggles[s].nr_blocks = 0
  BY <1>3, <1>6 DEF Writes, Others, EntersAt
<1>8. ToggleSet(m, c) = IF Slot(m, c.key) = 0 /\ Len(m.toggles) = TOGGLES THEN Fail(m)
                        ELSE IF ~ last.ok THEN last
                        ELSE IF c.blocks = <<>> THEN all ELSE y
  BY <1>2 DEF ToggleSetRun, N, s
<1> HIDE DEF last
<1>9. Sound(last) /\ Entered(last, s)
  <2>1. Entered(last, s) /\ ShownAt(last, s) /\ Changes(x, last, NamesAt(x.toggles[s].key))
    BY <1>3, <1>7 DEF EntersAt, Sound, ShownAt
  <2> QED BY <1>3, <1>7, <2>1, SoundOn
<1>10. Sound(Fail(m))
  <2>1. Fail(m).list = m.list /\ Fail(m).toggles = m.toggles
    BY DEF Fail, Good
  <2> QED BY <2>1, SoundAlike
<1>11. ASSUME last.ok
       PROVE  /\ Good(all) /\ Others(last, all, s) /\ all.list = last.list /\ all.ok
              /\ all.toggles[s].nr_blocks = N /\ all.toggles[s].current_block = 0
              /\ Entered(all, s) /\ s \in 1..Len(all.toggles)
  <2>1. N \in 0..MAX_BLOCKS
    BY <1>1, <1>7, <1>11, Constants
  <2>2. /\ Good(all) /\ Others(last, all, s) /\ all.list = last.list /\ all.ok = last.ok
        /\ all.toggles[s].nr_blocks = N /\ all.toggles[s].current_block = 0
        /\ Entered(last, s) => Entered(all, s)
    BY <1>7, <2>1, CountedEnters
  <2> HIDE DEF all
  <2> QED BY <1>7, <1>9, <1>11, <2>2 DEF Others
<1> HIDE DEF all
<1>12. CASE last.ok /\ c.blocks = <<>>
  <2>1. N = 0
    BY <1>12 DEF N
  <2>2. ShownAt(all, s) /\ Changes(last, all, NamesAt(last.toggles[s].key))
    BY <1>7, <1>11, <1>12, <2>1, SameList DEF ShownAt
  <2>3. Sound(all)
    BY <1>7, <1>9, <1>11, <1>12, <2>2, SoundOn
  <2> QED BY <1>8, <1>10, <1>12, <2>3
<1>13. CASE last.ok /\ c.blocks # <<>>
  <2>1. 1 \in 1..MAX_BLOCKS
    BY Constants
  <2>2. Keeps(all, y) /\ Good(y) /\ y.toggles = all.toggles
    BY <1>11, <1>13, <2>1, DoBlockKeeps DEF Keeps
  <2>3. OneName(all) /\ all.toggles[s].key = last.toggles[s].key
    BY <1>9, <1>11, <1>13 DEF Sound, OneName, Others
  <2>4. /\ BlockShown(y, s, 1) /\ Changes(all, y, NamesAt(last.toggles[s].key)) /\ Entered(y, s)
    BY <1>11, <1>13, <2>1, <2>3, DoBlockShows
  <2> HIDE DEF y
  <2>5. ShownAt(y, s)
    BY <1>11, <1>13, <2>2, <2>4 DEF ShownAt
  <2>6. Others(last, y, s) /\ Changes(last, y, NamesAt(last.toggles[s].key))
    <3>1. Changes(last, all, NamesAt(last.toggles[s].key))
      BY <1>7, <1>11, <1>13, SameList
    <3> QED BY <1>7, <1>11, <1>13, <2>2, <2>4, <3>1, ChangesOn DEF Others
  <2>7. Sound(y)
    BY <1>7, <1>9, <2>2, <2>4, <2>5, <2>6, SoundOn
  <2> QED BY <1>8, <1>10, <1>13, <2>7
<1>14. CASE ~ last.ok
  BY <1>8, <1>9, <1>10, <1>14
<1> QED BY <1>12, <1>13, <1>14

\* A toggle at a new block that is shown.
LEMMA MovedToSound ==
  ASSUME Apart, NEW x, Good(x), Sound(x), x.ok, NEW s \in 1..Len(x.toggles),
         NEW b \in Nat, b < x.toggles[s].nr_blocks
  PROVE  Sound(MovedTo(x, s, b)) /\ MovedTo(x, s, b).ok
<1> DEFINE y == DoBlock(x, s, b + 1)
           old == y.toggles[s]
           slot == [old EXCEPT !.current_block = b]
           z == MovedTo(x, s, b)
           key == x.toggles[s].key
<1>1. x.toggles[s].nr_blocks \in 0..MAX_BLOCKS
  BY SlotParts DEF Slots
<1>2. b + 1 \in 1..MAX_BLOCKS
  BY <1>1, Constants
<1>3. Good(y) /\ y.toggles = x.toggles /\ s \in 1..Len(y.toggles)
  BY <1>2, DoBlockKeeps DEF Keeps
<1>4. y.ok /\ BlockShown(y, s, b + 1) /\ Changes(x, y, NamesAt(key)) /\ Entered(y, s)
  BY <1>2, DoBlockShows DEF Sound
<1>5. z = SlotPut(y, s, slot)
  BY DEF SlotPut, MovedTo
<1> HIDE DEF y
<1>6. old \in Slots(DOMAIN y.text, Len(y.list)) /\ old = x.toggles[s]
  BY <1>3, SlotParts
<1> HIDE DEF old
<1>7. /\ slot \in Slots(DOMAIN y.text, Len(y.list)) /\ slot.key = old.key /\ slot.block = old.block
      /\ slot.current_block = b
  BY <1>6 DEF Slots, AtABlock
<1> HIDE DEF slot, z
<1>8. /\ Good(z) /\ z.ok = y.ok /\ z.list = y.list /\ Len(z.toggles) = Len(y.toggles) /\ z.toggles[s] = slot
      /\ \A t \in 1..Len(y.toggles) : t # s => z.toggles[t] = y.toggles[t]
  BY <1>3, <1>5, <1>7, WithSlot
<1>9. Others(x, z, s)
  BY <1>3, <1>6, <1>7, <1>8 DEF Others
<1>10. Entered(z, s) /\ ShownAt(z, s)
  <2>1. z.toggles[s].block = y.toggles[s].block /\ z.toggles[s].key = y.toggles[s].key
    BY <1>3, <1>6, <1>7, <1>8
  <2>2. Entered(z, s)
    BY <1>4, <1>8, <2>1 DEF Entered
  <2>3. BlockShown(z, s, b + 1)
    BY <1>4, <1>8, <2>1 DEF BlockShown
  <2> QED BY <1>7, <1>8, <2>2, <2>3 DEF ShownAt
<1>11. Changes(x, z, NamesAt(key))
  BY <1>4, <1>8 DEF Changes, OneName
<1>12. Sound(z)
  BY <1>8, <1>9, <1>10, <1>11, SoundOn
<1> QED BY <1>4, <1>8, <1>12 DEF z

\* The picks of a select one after the other.
SelectSteps(f, m, c) ==
  \A i \in 0..Len(c.picks) : /\ DOMAIN f[i] = {"stop", "m"} /\ Chosen(m, f[i].m, Keys) /\ Sound(f[i].m)
                             /\ f[i].stop \/ f[i].m.ok

LEMMA SelectAll ==
  ASSUME Apart, NEW m, Good(m), Sound(m), m.ok, NEW c, c.picks \in Seq([key : Keys, block : Nat]),
         NEW triggered, NEW f, SelectRun(f, m, c, triggered)
  PROVE  SelectSteps(f, m, c)
<1> DEFINE N == Len(c.picks)
           K == Keys
<1>1. N \in Nat /\ \A i \in 1..N : c.picks[i] \in [key : Keys, block : Nat]
  BY Elements
<1>2. SelectRun(f, m, c, triggered)
  OBVIOUS
<1>3. Len(m.toggles) \in Nat /\ \A s \in 1..Len(m.toggles) : m.toggles[s].key \in K /\ m.toggles[s].nr_blocks \in Nat
  BY SlotType, SlotParts, Constants DEF Slots
<1> HIDE DEF N, K
<1> DEFINE T == {i \in 0..N : /\ DOMAIN f[i] = {"stop", "m"} /\ Chosen(m, f[i].m, K) /\ Sound(f[i].m)
                              /\ f[i].stop \/ f[i].m.ok}
<1>4. 0 \in T
  <2>1. f[0] = [stop |-> FALSE, m |-> m]
    BY <1>2 DEF SelectRun
  <2>2. DOMAIN f[0] = {"stop", "m"} /\ f[0].m = m
    BY <2>1
  <2>3. Leaves(m, m, K)
    BY SameToggles
  <2> QED BY <1>1, <2>2, <2>3 DEF Chosen
<1>5. ASSUME NEW i \in T, i < N PROVE i + 1 \in T
  <2> DEFINE s == Slot(m, c.picks[i + 1].key)
             b == c.picks[i + 1].block
  <2>1. /\ i + 1 \in 1..N /\ i + 1 \in 0..N /\ (i + 1) - 1 = i
        /\ DOMAIN f[i] = {"stop", "m"} /\ Chosen(m, f[i].m, K) /\ Good(f[i].m) /\ Sound(f[i].m)
        /\ f[i].stop \/ f[i].m.ok
    BY <1>1, <1>5 DEF Chosen
  <2>2. b \in Nat /\ s \in 0..Len(m.toggles)
    BY <1>1, <2>1, SlotType
  <2>3. f[i + 1] = SelectStep(m, c, triggered, f[i], i + 1)
    BY <1>2, <2>1 DEF SelectRun, N
  <2>4. CASE f[i + 1] = f[i]
    BY <2>1, <2>4
  <2>5. CASE f[i + 1] = [f[i] EXCEPT !.stop = TRUE]
    <3>1. DOMAIN f[i + 1] = {"stop", "m"} /\ f[i + 1].m = f[i].m /\ f[i + 1].stop
      BY <2>1, <2>5
    <3> QED BY <2>1, <3>1
  <2>6. CASE f[i + 1] = [stop |-> TRUE, m |-> Fail(f[i].m)]
    <3>1. DOMAIN f[i + 1] = {"stop", "m"} /\ f[i + 1].m = Fail(f[i].m) /\ f[i + 1].stop
      BY <2>6
    <3>2. Good(Fail(f[i].m)) /\ Fail(f[i].m).toggles = f[i].m.toggles /\ Fail(f[i].m).list = f[i].m.list
      BY <2>1, FailKeeps DEF Keeps, Fail, Good
    <3>3. Leaves(m, Fail(f[i].m), K)
      BY <2>1, <3>2, SameToggles, LeavesOn DEF Chosen
    <3>4. Chosen(m, Fail(f[i].m), K)
      BY <2>1, <3>2, <3>3 DEF Chosen
    <3>5. Sound(Fail(f[i].m))
      BY <2>1, <3>2, SoundAlike
    <3> QED BY <2>1, <3>1, <3>4, <3>5
  <2>7. CASE /\ f[i + 1] = [stop |-> FALSE, m |-> MovedTo(f[i].m, s, b)] /\ s # 0 /\ ~ (b >= m.toggles[s].nr_blocks)
             /\ ~ f[i].stop
    <3>1. DOMAIN f[i + 1] = {"stop", "m"} /\ f[i + 1].m = MovedTo(f[i].m, s, b)
      BY <2>7
    <3>2. s \in 1..Len(m.toggles)
      BY <1>3, <2>2, <2>7
    <3> HIDE DEF s, b
    <3>3. b < m.toggles[s].nr_blocks /\ m.toggles[s].key \in K
      BY <1>3, <2>2, <2>7, <3>2
    <3>4. Chosen(m, MovedTo(f[i].m, s, b), K)
      BY <2>1, <2>2, <3>2, <3>3, MovedToIsChosen
    <3>5. s \in 1..Len(f[i].m.toggles) /\ f[i].m.toggles[s].nr_blocks = m.toggles[s].nr_blocks
      BY <2>1, <3>2 DEF Chosen
    <3>6. Sound(MovedTo(f[i].m, s, b)) /\ MovedTo(f[i].m, s, b).ok
      BY <2>1, <2>2, <2>7, <3>3, <3>5, MovedToSound
    <3> QED BY <2>1, <3>1, <3>4, <3>6
  <2> HIDE DEF T
  <2> QED BY <2>3, <2>4, <2>5, <2>6, <2>7, Zenon DEF SelectStep
<1> HIDE DEF T
<1>6. T \in SUBSET Nat
  BY DEF T
<1>7. \A i \in T : i < N => i + 1 \in T
  BY <1>5
<1>8. \A i \in 0..N : i \in T
  BY <1>1, <1>4, <1>6, <1>7, Induction
<1> QED BY <1>8 DEF SelectSteps, T, N, K

LEMMA SelectSound ==
  ASSUME Apart, NEW m, Good(m), Sound(m), m.ok, NEW c, c.picks \in Seq([key : Keys, block : Nat]),
         NEW triggered
  PROVE  Sound(Select(m, c, triggered))
<1>1. Len(c.picks) \in Nat
  BY Elements
<1>2. PICK f : SelectRun(f, m, c, triggered)
  BY <1>1, SelectLoop
<1>3. SelectSteps(f, m, c)
  BY <1>2, SelectAll
<1> QED BY <1>1, <1>2, <1>3 DEF SelectRun, SelectSteps

LEMMA PlainSound ==
  ASSUME Apart, NEW m, Good(m), Sound(m), m.ok, NEW c \in CommandsWith(Texts), Allowed(c), NEW triggered
  PROVE  Sound(Plain(m, c, triggered))
<1>1. CASE c.do = "set"
  <2> DEFINE x == SetVar(m, c.name, c.value)
  <2>1. c.name \in Names /\ c.value \in Texts
    BY <1>1
  <2>2. Good(x) /\ x.toggles = m.toggles /\ Changes(m, x, {c.name})
    BY <2>1, SetVarKeeps, SetVarChanges DEF Keeps
  <2> HIDE DEF x
  <2>3. ASSUME NEW key PROVE Foreign({c.name}, key)
    <3> DEFINE name == c.name
    <3>1. \A b, v : ~ Has(key, b, v, name)
      BY <1>1 DEF Allowed
    <3> HIDE DEF name
    <3>2. Foreign({name}, key)
      BY <3>1, ForeignName
    <3> QED BY <3>2 DEF name
  <2>4. Sound(x)
    BY <2>2, <2>3, SoundSame
  <2>5. Plain(m, c, triggered) = m \/ Plain(m, c, triggered) = x
    BY <1>1 DEF Plain, x
  <2> QED BY <2>4, <2>5
<1>2. CASE c.do = "toggle set"
  <2>1. c.key \in Keys /\ c.blocks \in Seq(Assignments(Texts)) /\ InPlaces(c)
    BY <1>2 DEF Allowed
  <2>2. Sound(ToggleSet(m, c))
    BY <2>1, ToggleSetSound
  <2> QED BY <1>2, <2>2 DEF Plain
<1>3. CASE c.do = "select"
  <2>1. c.picks \in Seq([key : Keys, block : Nat])
    BY <1>3
  <2>2. Sound(Select(m, c, triggered))
    BY <2>1, SelectSound
  <2> QED BY <1>3, <2>2 DEF Plain
<1>4. c.do \in {"set", "toggle set", "select"}
  OBVIOUS
<1> QED BY <1>1, <1>2, <1>3, <1>4

LEMMA ResultSound ==
  ASSUME Apart, Good(Memory), Sound(Memory), NEW c \in CommandsWith(Texts), Allowed(c)
  PROVE  Sound(Result(c))
<1> DEFINE d == Substituted(Memory, c)
<1>1. d \in CommandsWith(Texts) /\ Allowed(d)
  BY SubstitutedType, SubstitutedAllowed
<1>2. Result(c) = IF LeftOut(c) THEN Memory
                  ELSE IF d.if = <<>> THEN Plain(Memory, d, FALSE) ELSE Trigger(Memory, d)
  BY DEF Result
<1> HIDE DEF d
<1>3. Memory.ok
  BY DEF Memory
<1>4. ASSUME NEW triggered
      PROVE  Sound(Plain(Memory, d, triggered)) /\ Good(Plain(Memory, d, triggered))
  BY <1>1, <1>3, PlainSound, PlainGood DEF Does
<1>5. ASSUME NEW x, Sound(x), Good(x) PROVE Sound([x EXCEPT !.ok = TRUE])
  <2> DEFINE y == [x EXCEPT !.ok = TRUE]
  <2>1. y.list = x.list /\ y.toggles = x.toggles
    BY <1>5 DEF Good
  <2> HIDE DEF y
  <2> QED BY <1>5, <2>1, SoundAlike DEF y
<1>6. Sound(Fail(Memory))
  <2>1. Fail(Memory).list = Memory.list /\ Fail(Memory).toggles = Memory.toggles
    BY DEF Fail, Good
  <2> QED BY <2>1, SoundAlike
<1>7. Sound(Trigger(Memory, d))
  BY <1>4, <1>5, <1>6, Zenon DEF Trigger
<1> QED BY <1>2, <1>4, <1>7, Zenon

LEMMA AfterKeySound ==
  ASSUME Apart, KeyInv, Sound(Memory), NEW key, Slot(Memory, key) # 0
  PROVE  Sound(AfterKey(key))
<1> DEFINE s == Slot(Memory, key)
           old == toggle_data[s]
           b == NextBlock(old)
           slot == [old EXCEPT !.current_block = b]
           m == [Memory EXCEPT !.toggles[s].current_block = b]
           y == DoBlock(m, s, b + 1)
<1>1. Good(Memory) /\ s \in 1..Len(Memory.toggles) /\ Memory.toggles = toggle_data /\ Memory.ok
  BY SlotType DEF KeyInv, Inv, Memory
<1>2. old \in Slots(DOMAIN Memory.text, Len(Memory.list))
  BY <1>1, SlotParts
<1>3. m = SlotPut(Memory, s, slot)
  BY <1>1 DEF SlotPut, Memory
<1>4. AfterKey(key) = IF b < old.nr_blocks THEN y ELSE m
  BY DEF AfterKey
<1> HIDE DEF s
<1> HIDE DEF old
<1>5. /\ old.nr_blocks \in Nat /\ old.nr_blocks <= MAX_BLOCKS /\ old.current_block \in Nat
      /\ old.nr_blocks > 0 => old.current_block < old.nr_blocks
  BY <1>2, Constants DEF Slots, AtABlock
<1>6. b \in Nat /\ (old.nr_blocks > 0 => b < old.nr_blocks)
  BY <1>5 DEF NextBlock
<1>7. b < old.nr_blocks => b + 1 \in 1..MAX_BLOCKS
  BY <1>5, <1>6, Constants
<1> HIDE DEF b
<1>8. /\ slot \in Slots(DOMAIN Memory.text, Len(Memory.list)) /\ slot.key = old.key /\ slot.block = old.block
      /\ slot.nr_blocks = old.nr_blocks /\ slot.current_block = b
  BY <1>2, <1>6 DEF Slots, AtABlock
<1> HIDE DEF slot, m
<1>9. /\ Good(m) /\ m.ok /\ m.list = Memory.list /\ Len(m.toggles) = Len(Memory.toggles) /\ m.toggles[s] = slot
      /\ \A t \in 1..Len(Memory.toggles) : t # s => m.toggles[t] = Memory.toggles[t]
  BY <1>1, <1>3, <1>8, WithSlot
<1>10. Entered(m, s) /\ OneName(m) /\ m.toggles[s].key = Memory.toggles[s].key
  <2>1. Entered(Memory, s) /\ OneName(Memory)
    BY <1>1 DEF Sound
  <2>2. m.toggles[s].key = Memory.toggles[s].key /\ m.toggles[s].block = Memory.toggles[s].block
    BY <1>1, <1>8, <1>9 DEF old
  <2>3. OneName(m)
    BY <1>9, <2>1 DEF OneName
  <2>4. Entered(m, s)
    BY <1>9, <2>1, <2>2 DEF Entered
  <2> QED BY <2>2, <2>3, <2>4
<1>11. Others(Memory, m, s)
  BY <1>9, <1>10 DEF Others
<1>12. CASE b < old.nr_blocks
  <2>1. b + 1 \in 1..MAX_BLOCKS /\ s \in 1..Len(m.toggles)
    BY <1>1, <1>7, <1>9, <1>12
  <2>2. Good(y) /\ y.toggles = m.toggles
    BY <1>9, <2>1, DoBlockKeeps DEF Keeps
  <2>3. BlockShown(y, s, b + 1) /\ Changes(m, y, NamesAt(m.toggles[s].key)) /\ Entered(y, s)
    BY <1>9, <1>10, <2>1, DoBlockShows
  <2> HIDE DEF y
  <2>4. ShownAt(y, s)
    BY <1>8, <1>9, <2>2, <2>3 DEF ShownAt
  <2>5. Others(Memory, y, s) /\ Changes(Memory, y, NamesAt(Memory.toggles[s].key))
    BY <1>9, <1>10, <1>11, <2>2, <2>3 DEF Others, Changes, OneName
  <2>6. Sound(y)
    BY <1>1, <2>2, <2>3, <2>4, <2>5, SoundOn
  <2> QED BY <1>4, <1>12, <2>6
<1>13. CASE ~ (b < old.nr_blocks)
  <2>1. ShownAt(m, s)
    BY <1>5, <1>6, <1>8, <1>9, <1>13 DEF ShownAt
  <2>2. Changes(Memory, m, NamesAt(Memory.toggles[s].key))
    BY <1>1, <1>9, SameList
  <2>3. Sound(m)
    BY <1>1, <1>9, <1>10, <1>11, <2>1, <2>2, SoundOn
  <2> QED BY <1>4, <1>13, <2>3
<1> QED BY <1>12, <1>13

\* At the menu every variable that a block counts is there.
Tidy == phase = "menu" /\ ~ wild => ~ Strayed
ShowInv == KeyInv /\ Tidy /\ (Apart => Sound(Memory))

LEMMA SameCommands ==
  ASSUME UNCHANGED files
  PROVE  /\ Apart' <=> Apart
         /\ OnePlace' <=> OnePlace
         /\ AllCommands' = AllCommands
BY DEF Apart, OnePlace, AllCommands, Commands, NamesOf

LEMMA StoredSound ==
  ASSUME NEW m, Sound(m), Store(m), UNCHANGED files
  PROVE  Sound(Memory)'
<1>1. Memory'.list = m.list /\ Memory'.toggles = m.toggles
  BY DEF Memory, Store
<1>2. Sound(Memory')
  <2> DEFINE x == Memory'
  <2> HIDE DEF x
  <2>1. x.list = m.list /\ x.toggles = m.toggles
    BY <1>1 DEF x
  <2> QED BY <2>1, SoundAlike DEF x
<1>3. Sound(Memory') <=> Sound(Memory)'
  <2>1. ASSUME NEW key, NEW b, NEW v, NEW name PROVE Has(key, b, v, name)' <=> Has(key, b, v, name)
    BY SameCommands DEF Has
  <2> QED BY <2>1, SameCommands DEF Sound, OneName, Unique, Entered, ShownAt, BlockShown
<1> QED BY <1>2, <1>3

LEMMA SameSound ==
  ASSUME Sound(Memory), UNCHANGED <<mem, files>>
  PROVE  Sound(Memory)'
<1>1. Store(Memory)
  BY DEF Store, Memory, mem
<1> QED BY <1>1, StoredSound

LEMMA EmptySound ==
  ASSUME EmptyStore, UNCHANGED files
  PROVE  Sound(Memory)'
<1>1. Memory'.list = <<>> /\ Memory'.toggles = <<>>
  BY DEF EmptyStore, Memory
<1>2. Len(<<>>) = 0 /\ 1..0 = {}
  OBVIOUS
<1> QED BY <1>1, <1>2 DEF Sound, OneName, Unique

LEMMA ReadSound ==
  ASSUME Sound(Memory), UNCHANGED files, NEW cfg, NEW what, Read(cfg, what)
  PROVE  Sound(Memory)'
<1>1. EmptyStore \/ UNCHANGED mem
  BY DEF Read
<1> QED BY <1>1, EmptySound, SameSound

LEMMA RunSound ==
  ASSUME Apart, KeyInv, Sound(Memory), NEW c \in CommandsWith(Texts), c \in AllCommands, Run(c),
         UNCHANGED files
  PROVE  Sound(Memory)'
<1>1. Allowed(c)
  BY AllAllowed
<1>2. Sound(Result(c))
  BY <1>1, ResultSound DEF KeyInv, Inv
<1> QED BY <1>2, StoredSound DEF Run

LEMMA TidyStep == ASSUME ShowInv, [Next]_vars PROVE Tidy'
<1> USE DEF ShowInv, Tidy
<1> SUFFICES ASSUME phase' = "menu", ~ wild' PROVE ~ Strayed'
  OBVIOUS
<1>1. CASE toggle_data' = toggle_data
  <2>1. Strayed' <=> Strayed
    BY <1>1 DEF Strayed
  <2>2. ~ Strayed
    BY <1>1 DEF Next, Input, Line, ShowMenu, OtherKey, ToggleKey, Configfile, Read, Escape, Leave, Typed,
                Store, Run, mem, vars, reading
  <2> QED BY <2>1, <2>2
<1>2. ASSUME NEW key \in Keys, ToggleKey(key), ~ wild PROVE ~ Strayed'
  <2> DEFINE s == Slot(Memory, key)
  <2>1. s \in DOMAIN toggle_data /\ toggle_data' = [toggle_data EXCEPT ![s].current_block = NextBlock(toggle_data[s])]
    BY <1>2, AfterKeyMoves DEF ToggleKey, Store
  <2>2. ~ Strayed
    BY <1>2 DEF ToggleKey
  <2> HIDE DEF s
  <2>3. /\ DOMAIN toggle_data' = DOMAIN toggle_data
        /\ \A t \in DOMAIN toggle_data : /\ toggle_data'[t].nr_blocks = toggle_data[t].nr_blocks
                                         /\ toggle_data'[t].block = toggle_data[t].block
    BY <2>1
  <2> QED BY <2>2, <2>3 DEF Strayed
<1>3. toggle_data' = toggle_data \/ \E key \in Keys : ToggleKey(key) /\ ~ wild
  BY DEF Next, Input, Line, ShowMenu, OtherKey, Configfile, Read, Escape, Leave, Typed, mem, vars
<1> QED BY <1>1, <1>2, <1>3

LEMMA ShowInit == Init => ShowInv
<1>0. Init => Tidy
  BY DEF Init, Tidy
<1> SUFFICES ASSUME Init PROVE Sound(Memory)
  BY <1>0, KeyInit DEF ShowInv
<1>1. Memory.list = <<>> /\ Memory.toggles = <<>>
  BY DEF Init, Memory
<1>2. Len(<<>>) = 0 /\ 1..0 = {}
  OBVIOUS
<1> QED BY <1>1, <1>2 DEF Sound, OneName, Unique

LEMMA ShowStep == ShowInv /\ [Next]_vars => ShowInv'
<1> SUFFICES ASSUME ShowInv, [Next]_vars, Apart' PROVE Sound(Memory)'
  BY KeyStep, TidyStep DEF ShowInv
<1>0. files' = files
  BY DEF Next, Input, Line, ShowMenu, OtherKey, ToggleKey, Configfile, Leave, Escape, Typed, vars, reading
<1>1. Apart /\ KeyInv /\ Sound(Memory) /\ Inv
  BY <1>0, SameCommands DEF ShowInv, KeyInv
<1>2. CASE Line
  <2>1. position \in Nat \ {0} /\ position <= Len(File) /\ Run(File[position])
    BY <1>1, <1>2 DEF Line, Inv
  <2>2. DOMAIN File = 1..Len(File) /\ Len(File) \in Nat
    BY <1>1, CommandsTyped
  <2>3. position \in DOMAIN File
    BY <2>1, <2>2
  <2>4. File[position] \in CommandsWith(Texts)
    BY <1>1, <2>3, CommandsTyped
  <2>5. File[position] \in AllCommands
    BY <1>1, <2>3 DEF AllCommands, Commands, File, Inv
  <2> QED BY <1>0, <1>1, <2>1, <2>4, <2>5, RunSound
<1>3. CASE ShowMenu
  <2>1. Sound(Drawn)
    BY <1>1, <1>3, ShowMenuStores, SoundAlike
  <2> QED BY <1>0, <1>3, <2>1, ShowMenuStores, StoredSound
<1>4. ASSUME NEW key \in Keys, OtherKey(key) PROVE Sound(Memory)'
  BY <1>0, <1>1, <1>4, SameSound DEF OtherKey
<1>5. ASSUME NEW key \in Keys, ToggleKey(key) PROVE Sound(Memory)'
  BY <1>0, <1>1, <1>5, AfterKeySound, StoredSound DEF ToggleKey
<1>6. ASSUME NEW cfg \in {"root", "other"}, Configfile(cfg) PROVE Sound(Memory)'
  BY <1>0, <1>1, <1>6, ReadSound DEF Configfile
<1>7. CASE Escape
  BY <1>0, <1>1, <1>7, SameSound DEF Escape
<1>8. ASSUME NEW cfg \in {"root", "other"}, Leave(cfg) PROVE Sound(Memory)'
  BY <1>0, <1>1, <1>8, ReadSound DEF Leave
<1>9. ASSUME NEW c \in files.typed, Typed(c) PROVE Sound(Memory)'
  <2>1. c \in CommandsWith(Texts) /\ c \in AllCommands /\ Run(c)
    BY <1>1, <1>9, CommandsTyped DEF Typed, AllCommands
  <2> QED BY <1>0, <1>1, <2>1, RunSound
<1>10. CASE UNCHANGED vars
  BY <1>0, <1>1, <1>10, SameSound DEF vars
<1> QED BY <1>2, <1>3, <1>4, <1>5, <1>6, <1>7, <1>8, <1>9, <1>10 DEF Next, Input

\* The variables that the blocks of the toggles name have those blocks' texts at
\* the menu (toggle_do_block()), whatever was set, selected, triggered, typed and
\* read again, and whatever of it failed, where no two toggles share a variable, no
\* set writes one of a toggle's, and a block has each at one place; but for a menu in
\* which process_var() left an entry without its variable (wild).
THEOREM MenuShowsTheBlocks == Spec => []ShownIsCurrent
<1>1. ShowInv => ShownIsCurrent
  <2> SUFFICES ASSUME ShowInv, phase = "menu", ~ wild, Apart, OnePlace,
                      NEW s \in DOMAIN toggle_data, toggle_data[s].nr_blocks > 0,
                      NEW v \in 1..toggle_data[s].block[toggle_data[s].current_block + 1].nr_vars
               PROVE  LET block == toggle_data[s].block[toggle_data[s].current_block + 1]
                      IN  variable_list[block.var[v].var].value = block.var[v].value
    BY DEF ShownIsCurrent
  <2>1. /\ Good(Memory) /\ Memory.toggles = toggle_data /\ Memory.list = variable_list
        /\ s \in 1..Len(Memory.toggles) /\ ShownAt(Memory, s)
    <3>1. Good(Memory) /\ Memory.toggles = toggle_data /\ DOMAIN toggle_data = 1..Len(toggle_data) /\ Sound(Memory)
      BY ToggleDomain DEF ShowInv, KeyInv, Inv
    <3> QED BY <3>1 DEF Sound, Memory
  <2> DEFINE slot == toggle_data[s]
             b == slot.current_block + 1
  <2>2. slot \in Slots(DOMAIN Memory.text, Len(Memory.list)) /\ slot.nr_blocks > 0
    BY <2>1, SlotParts
  <2>3. BlockShown(Memory, s, b)
    BY <2>1 DEF ShownAt
  <2>4. v \in 1..slot.block[b].nr_vars
    OBVIOUS
  <2> HIDE DEF slot
  <2>5. b \in 1..MAX_BLOCKS
    <3>1. slot.nr_blocks \in 0..MAX_BLOCKS /\ slot.current_block \in Nat /\ slot.current_block < slot.nr_blocks
      BY <2>2 DEF Slots, AtABlock
    <3> QED BY <3>1, Constants
  <2> HIDE DEF b
  <2>6. slot.block[b].nr_vars \in 0..MAX_VAR_PER_BLOCK
    BY <2>1, <2>5, SlotParts DEF slot
  <2>7. v \in 1..MAX_VAR_PER_BLOCK /\ v <= slot.block[b].nr_vars
    BY <2>4, <2>6, Constants
  <2>9. slot.block[b].var[v].var # 0
    <3>1. b \in 1..slot.nr_blocks
      BY <2>2 DEF Slots, AtABlock, b
    <3>2. ~ Strayed
      BY DEF ShowInv, Tidy
    <3> QED BY <2>4, <3>1, <3>2 DEF Strayed, slot
  <2>8. variable_list[slot.block[b].var[v].var].value = slot.block[b].var[v].value
    BY <2>1, <2>3, <2>7, <2>9 DEF BlockShown, slot
  <2> QED BY <2>8 DEF b, slot
<1> QED BY <1>1, ShowInit, ShowStep, PTL DEF Spec

-------------------------------------------------------------------------------
(* What is read again is there already and costs nothing.                      *)

IsAt(m, at, t) == at \in DOMAIN m.text /\ m.text[at] = t

\* What a step adds: texts stay as they are; the names it lists, and those that get
\* other values, are of N.
TextsKept(m, x) == \A a \in DOMAIN m.text : IsAt(x, a, m.text[a])
Lists(m, x, N) == \A j \in 1..Len(x.list) : x.list[j].name \in N \/ Index(m, x.list[j].name) # 0
Adds(m, x, N) == Changes(m, x, N) /\ TextsKept(m, x) /\ Lists(m, x, N)

LEMMA IndexListed ==
  ASSUME NEW m, Good(m), NEW i \in 1..Len(m.list)
  PROVE  /\ Index(m, m.list[i].name) # 0
         /\ OneName(m) => Value(m, m.list[i].name) = m.list[i].value
<1> DEFINE name == m.list[i].name
           j == Index(m, name)
<1>1. DOMAIN m.list = 1..Len(m.list) /\ Len(m.list) \in Nat
  BY ListType
<1>2. j # 0
  BY <1>1, IndexType
<1>3. j \in DOMAIN m.list /\ m.list[j].name = name
  BY <1>1, <1>2 DEF Index
<1>4. OneName(m) => j = i
  BY <1>1, <1>3 DEF OneName
<1> QED BY <1>2, <1>4 DEF Value

LEMMA StaysListed ==
  ASSUME NEW m, NEW x, Good(m), Good(x), NEW N, Changes(m, x, N), NEW name, Index(m, name) # 0
  PROVE  /\ Index(x, name) # 0
         /\ OneName(m) /\ name \notin N => Value(x, name) = Value(m, name)
<1>1. /\ Len(m.list) \in Nat /\ DOMAIN m.list = 1..Len(m.list) /\ Len(x.list) \in Nat
  BY ListType
<1>2. PICK i \in 1..Len(m.list) : m.list[i].name = name
  BY <1>1, IndexType
<1>3. i \in 1..Len(x.list) /\ x.list[i].name = name /\ (name \notin N => x.list[i] = m.list[i])
  BY <1>1, <1>2 DEF Changes
<1>4. OneName(m) => OneName(x)
  BY DEF Changes
<1>5. Index(x, name) # 0 /\ (OneName(x) => Value(x, name) = x.list[i].value)
  BY <1>3, IndexListed
<1>6. OneName(m) => Value(m, name) = m.list[i].value
  BY <1>2, IndexListed
<1> QED BY <1>3, <1>4, <1>5, <1>6

LEMMA AddsMore ==
  ASSUME NEW m, NEW x, NEW N, NEW K, N \subseteq K, Adds(m, x, N) PROVE Adds(m, x, K)
BY ChangesMore DEF Adds, Lists

LEMMA AddsOn ==
  ASSUME NEW m, NEW x, NEW y, NEW N, Good(m), Good(x), Good(y), Adds(m, x, N), Adds(x, y, N)
  PROVE  Adds(m, y, N)
<1>1. Changes(m, y, N)
  BY ChangesOn DEF Adds
<1>2. TextsKept(m, y)
  BY DEF Adds, TextsKept, IsAt
<1>3. ASSUME NEW j \in 1..Len(y.list), y.list[j].name \notin N PROVE Index(m, y.list[j].name) # 0
  <2> DEFINE name == y.list[j].name
  <2>1. Index(x, name) # 0
    BY <1>3 DEF Adds, Lists
  <2>2. PICK i \in DOMAIN x.list : x.list[i].name = name
    BY <2>1, IndexType
  <2>3. i \in 1..Len(x.list)
    BY <2>2, ListType
  <2> QED BY <1>3, <2>2, <2>3 DEF Adds, Lists
<1> QED BY <1>1, <1>2, <1>3 DEF Adds, Lists

LEMMA AddsNothing ==
  ASSUME NEW m, NEW x, Good(m), x.list = m.list, x.text = m.text, NEW N PROVE Adds(m, x, N)
<1>1. Changes(m, x, N)
  BY SameList
<1>2. Lists(m, x, N)
  BY IndexListed DEF Lists
<1> QED BY <1>1, <1>2 DEF Adds, TextsKept, IsAt

LEMMA AllocateAdds ==
  ASSUME NEW m, Good(m), NEW t \in Texts, Room(m, t), NEW N
  PROVE  Adds(m, Allocate(m, t), N) /\ IsAt(Allocate(m, t), m.used, t)
<1> DEFINE x == Allocate(m, t)
<1>1. /\ x.list = m.list
      /\ x.text = [a \in DOMAIN m.text \cup {m.used} |-> IF a = m.used THEN t ELSE m.text[a]]
  BY DEF Allocate, Good
<1> HIDE DEF x
<1>2. \A a \in DOMAIN m.text : a # m.used
  <2>1. \A a \in DOMAIN m.text : /\ a \in Nat /\ Length[m.text[a]] \in Nat /\ m.used \in Nat
                                 /\ a + Length[m.text[a]] + 1 <= m.used
    BY Constants DEF Good, Packed
  <2> QED BY <2>1
<1>3. TextsKept(m, x) /\ IsAt(x, m.used, t)
  BY <1>1, <1>2 DEF TextsKept, IsAt
<1>4. Changes(m, x, N) /\ Lists(m, x, N)
  BY <1>1, SameList, IndexListed DEF Lists
<1> QED BY <1>3, <1>4 DEF Adds, x

LEMMA NamedAdds ==
  ASSUME NEW m, Good(m), NEW name \in Names, Index(m, name) = 0
  PROVE  Adds(m, Named(m, name), {name})
<1>0. Changes(m, Named(m, name), {name})
  BY NamedChanges, ChangesMore
<1>1. CASE Len(m.list) = VARIABLES_MAX \/ ~ Room(m, name)
  <2>1. Named(m, name) = Fail(m)
    BY <1>1 DEF Named
  <2>2. Fail(m).text = m.text /\ Fail(m).list = m.list
    BY DEF Fail, Good
  <2> QED BY <2>1, <2>2, AddsNothing
<1>2. CASE ~ (Len(m.list) = VARIABLES_MAX \/ ~ Room(m, name))
  <2> DEFINE x == Allocate(m, name)
             var == [name |-> name, value |-> None]
             y == Named(m, name)
  <2>1. Good(x) /\ x.list = m.list /\ Adds(m, x, {})
    BY <1>2, AllocateKeeps, AllocateAdds DEF Texts, Keeps
  <2>2. y = [x EXCEPT !.list = Append(@, var)]
    BY <1>2 DEF Named
  <2> HIDE DEF x, y
  <2>3. y.list = Append(m.list, var) /\ var.name = name /\ y.text = x.text
    BY <2>1, <2>2 DEF Good
  <2> HIDE DEF var
  <2>4. m.list \in Seq(Variables(DOMAIN m.text) \cup {var}) /\ Len(m.list) \in Nat
    BY ListType DEF Good
  <2>5. /\ Len(y.list) = Len(m.list) + 1 /\ y.list[Len(m.list) + 1] = var
        /\ \A i \in 1..Len(m.list) : y.list[i] = m.list[i]
    BY <2>3, <2>4
  <2>6. ASSUME NEW j \in 1..Len(y.list), y.list[j].name # name PROVE Index(m, y.list[j].name) # 0
    <3>1. j # Len(m.list) + 1
      BY <2>3, <2>5, <2>6
    <3>2. j \in 1..Len(m.list) /\ y.list[j] = m.list[j]
      BY <2>4, <2>5, <3>1
    <3> QED BY <3>2, IndexListed
  <2>7. TextsKept(m, y)
    BY <2>1, <2>3 DEF Adds, TextsKept, IsAt
  <2> QED BY <1>0, <2>6, <2>7 DEF Adds, Lists, y
<1> QED BY <1>1, <1>2

\* The first half of var_set() and var_set_no_copy() adds the variable alone.
LEMMA ThereAdds ==
  ASSUME NEW m, Good(m), NEW name \in Names,
         NEW n, n = IF Index(m, name) = 0 THEN Named(m, name) ELSE m
  PROVE  Adds(m, n, {name})
<1>1. CASE Index(m, name) = 0
  BY <1>1, NamedAdds
<1>2. CASE Index(m, name) # 0
  BY <1>2, AddsNothing
<1> QED BY <1>1, <1>2

LEMMA PointAtAdds ==
  ASSUME NEW m, Good(m), NEW name, Index(m, name) # 0, NEW at
  PROVE  /\ Adds(m, PointAt(m, name, at), {name})
         /\ PointAt(m, name, at).text = m.text /\ PointAt(m, name, at).used = m.used
         /\ PointAt(m, name, at).toggles = m.toggles
<1> DEFINE x == PointAt(m, name, at)
<1>1. x.text = m.text /\ x.used = m.used /\ x.toggles = m.toggles /\ Len(x.list) = Len(m.list)
  BY ListType DEF PointAt, Good
<1>2. Changes(m, x, {name})
  BY PointAtChanges
<1> HIDE DEF x
<1>3. Lists(m, x, {name})
  BY <1>1, <1>2, IndexListed DEF Lists, Changes
<1>4. TextsKept(m, x)
  BY <1>1 DEF TextsKept, IsAt
<1> QED BY <1>1, <1>2, <1>3, <1>4 DEF Adds, x

LEMMA SetNoCopyAdds ==
  ASSUME NEW m, Good(m), NEW name \in Names, NEW at \in DOMAIN m.text
  PROVE  /\ Adds(m, SetNoCopy(m, name, at), {name})
         /\ Index(m, name) # 0 /\ m.ok => /\ SetNoCopy(m, name, at).text = m.text
                                          /\ SetNoCopy(m, name, at).used = m.used
<1> DEFINE n == IF Index(m, name) = 0 THEN Named(m, name) ELSE m
           x == SetNoCopy(m, name, at)
<1>1. Keeps(m, n) /\ Good(n) /\ (n.ok => Index(n, name) # 0)
  BY IsThere
<1>2. x = IF n.ok THEN PointAt(n, name, at) ELSE n
  BY DEF SetNoCopy
<1>3. Adds(m, n, {name}) /\ (Index(m, name) # 0 => n = m)
  BY ThereAdds
<1>4. Good(x)
  BY SetNoCopyKeeps DEF Keeps
<1> HIDE DEF n, x
<1>5. CASE n.ok
  <2>1. Adds(n, x, {name}) /\ x.text = n.text /\ x.used = n.used
    BY <1>1, <1>2, <1>5, PointAtAdds
  <2>2. Adds(m, x, {name})
    BY <1>1, <1>3, <1>4, <2>1, AddsOn
  <2> QED BY <1>3, <2>1, <2>2 DEF x
<1>6. CASE ~ n.ok
  BY <1>2, <1>3, <1>6 DEF x
<1> QED BY <1>5, <1>6

\* toggle_do_block() needs no memory and lists no variable.
LEMMA DoBlockFree ==
  ASSUME NEW m, Good(m), m.ok, NEW s \in 1..Len(m.toggles), NEW b \in 1..MAX_BLOCKS
  PROVE  /\ DoBlock(m, s, b).text = m.text /\ DoBlock(m, s, b).used = m.used
         /\ Lists(m, DoBlock(m, s, b), {})
<1> DEFINE block == m.toggles[s].block[b]
           N == MAX_VAR_PER_BLOCK
           Name(v) == m.list[block.var[v].var].name
           Free(x) == /\ x.ok /\ Keeps(m, x) /\ Changes(m, x, Names)
                      /\ x.text = m.text /\ x.used = m.used /\ Lists(m, x, {})
<1>0. PICK f : DoBlockRun(f, m, s, b)
  BY DoBlockLoop
<1>1. /\ f[0] = m /\ DoBlock(m, s, b) = f[N]
      /\ \A v \in 1..N : f[v] = IF v > block.nr_vars THEN f[v - 1]
                                ELSE PointsTo(m, f[v - 1], block.var[v])
  BY <1>0 DEF DoBlockRun
<1>2. ASSUME NEW v \in 1..N, v <= block.nr_vars, block.var[v].var # 0
      PROVE  Index(m, Name(v)) # 0 /\ Name(v) \in Names /\ block.var[v].value \in DOMAIN m.text
  <2>1. block.var[v].var \in 1..Len(m.list) /\ block.var[v].value \in DOMAIN m.text
    BY <1>2, EntryListed
  <2> QED BY <2>1, ListType, IndexListed
<1>3. block.nr_vars \in Nat
  BY BlockParts
<1>6. ASSUME NEW v \in 1..N, NEW x
      PROVE  PointsTo(m, x, block.var[v]) = IF block.var[v].var = 0 THEN [x EXCEPT !.wild = TRUE]
                                            ELSE SetNoCopy(x, Name(v), block.var[v].value)
  BY DEF PointsTo
<1> HIDE DEF block, Name
<1> DEFINE T == {v \in 0..N : Free(f[v])}
<1>4. 0 \in T
  <2>1. Keeps(m, m) /\ Adds(m, m, {}) /\ Changes(m, m, Names) /\ 0 \in 0..N
    BY KeepsSelf, AddsNothing, SameList, Constants
  <2> QED BY <1>1, <2>1 DEF Adds
<1>5. ASSUME NEW v \in T, v < N PROVE v + 1 \in T
  <2> DEFINE x == f[v]
             y == f[v + 1]
             name == Name(v + 1)
             at == block.var[v + 1].value
  <2>1. v \in Nat /\ v + 1 \in 1..N /\ v + 1 \in 0..N /\ (v + 1) - 1 = v /\ Free(x) /\ Good(x)
    BY <1>5, Constants DEF Keeps
  <2>2. y = IF v + 1 > block.nr_vars THEN x ELSE PointsTo(m, x, block.var[v + 1])
    BY <1>1, <2>1
  <2>3. CASE v + 1 > block.nr_vars
    BY <2>1, <2>2, <2>3
  <2>5. CASE v + 1 <= block.nr_vars /\ block.var[v + 1].var = 0
    <3>1. y = [x EXCEPT !.wild = TRUE]
      BY <1>3, <1>6, <2>1, <2>2, <2>5
    <3> HIDE DEF x, y
    <3>2. /\ y.list = x.list /\ y.toggles = x.toggles /\ y.ok = x.ok /\ y.text = x.text /\ y.used = x.used
          /\ Keeps(x, y)
      BY <2>1, <3>1, WildKeeps
    <3>3. Free(y)
      BY <2>1, <3>2, KeepsOn DEF Changes, OneName, Lists
    <3> QED BY <2>1, <3>3 DEF y
  <2>4. CASE v + 1 <= block.nr_vars /\ block.var[v + 1].var # 0
    <3>1. y = SetNoCopy(x, name, at) /\ Index(m, name) # 0 /\ name \in Names /\ at \in DOMAIN x.text
      <4>1. ~ (v + 1 > block.nr_vars)
        BY <1>3, <2>1, <2>4
      <4> QED BY <1>2, <1>6, <2>1, <2>2, <2>4, <4>1
    <3> HIDE DEF x, y, name, at
    <3>2. Index(x, name) # 0
      BY <2>1, <3>1, StaysListed
    <3>3. /\ Keeps(x, y) /\ Good(y) /\ Changes(x, y, {name}) /\ y.ok
          /\ Adds(x, y, {name}) /\ y.text = x.text /\ y.used = x.used
      BY <2>1, <3>1, <3>2, SetNoCopyKeeps, SetNoCopyChanges, SetNoCopyAdds DEF Keeps
    <3>4. Keeps(m, y)
      BY <2>1, <3>3, KeepsOn
    <3>5. Changes(m, y, Names)
      <4>1. Changes(x, y, Names)
        BY <3>1, <3>3, ChangesMore
      <4> QED BY <2>1, <3>3, <4>1, ChangesOn
    <3>6. ASSUME NEW j \in 1..Len(y.list) PROVE Index(m, y.list[j].name) # 0
      <4> DEFINE other == y.list[j].name
      <4>1. other = name \/ Index(x, other) # 0
        BY <3>3 DEF Adds, Lists
      <4>2. CASE Index(x, other) # 0
        <5>1. PICK i \in DOMAIN x.list : x.list[i].name = other
          BY <2>1, <4>2, IndexType
        <5>2. i \in 1..Len(x.list)
          BY <2>1, <5>1, ListType
        <5> QED BY <2>1, <5>1, <5>2 DEF Lists
      <4> QED BY <3>1, <4>1, <4>2
    <3>7. Free(y)
      BY <2>1, <3>3, <3>4, <3>5, <3>6 DEF Lists
    <3> QED BY <2>1, <3>7 DEF y
  <2> QED BY <1>3, <2>1, <2>3, <2>4, <2>5
<1>7. N \in T
  <2> HIDE DEF T
  <2>1. T \in SUBSET Nat
    BY DEF T
  <2>2. N \in Nat /\ \A v \in T : v < N => v + 1 \in T
    BY <1>5, Constants
  <2>3. \A v \in 0..N : v \in T
    BY <1>4, <2>1, <2>2, Induction
  <2> QED BY <2>2, <2>3
<1> QED BY <1>1, <1>7

-------------------------------------------------------------------------------
(* The texts of a toggle's blocks.                                             *)

Entry(m, s, b, v) == m.toggles[s].block[b].var[v]

\* An entry has the text of the pair, a block those of its pairs, a toggle those of
\* the command that sets it.
EntryIs(m, s, b, v, pair) == IsAt(m, Entry(m, s, b, v).value, pair.value) /\ Index(m, pair.name) # 0
BlockIs(m, s, b, pairs) ==
  Len(pairs) <= MAX_VAR_PER_BLOCK /\ \A v \in 1..Len(pairs) : EntryIs(m, s, b, v, pairs[v])
ToggleIs(m, s, c) ==
  Len(c.blocks) <= MAX_BLOCKS /\ \A b \in 1..Len(c.blocks) : BlockIs(m, s, b, c.blocks[b])

\* All entries of the toggle but those of block b in V are as they were.
EntriesKept(m, x, s, b, V) ==
  \A a \in 1..MAX_BLOCKS, w \in 1..MAX_VAR_PER_BLOCK :
    (a = b /\ w \in V) \/ Entry(x, s, a, w) = Entry(m, s, a, w)

LEMMA EntryStays ==
  ASSUME NEW m, NEW x, Good(m), Good(x), NEW N, Adds(m, x, N), NEW s, NEW b, NEW v, NEW pair,
         Entry(x, s, b, v) = Entry(m, s, b, v), EntryIs(m, s, b, v, pair)
  PROVE  EntryIs(x, s, b, v, pair)
<1>1. Index(x, pair.name) # 0
  BY StaysListed DEF EntryIs, Adds
<1> QED BY <1>1 DEF EntryIs, Adds, TextsKept, IsAt

LEMMA VarPutEntries ==
  ASSUME NEW m, Good(m), NEW s \in 1..Len(m.toggles), NEW b \in 1..MAX_BLOCKS, NEW v \in 1..MAX_VAR_PER_BLOCK,
         NEW e
  PROVE  LET x == VarPut(m, s, b, v, e) IN
         /\ x.list = m.list /\ x.text = m.text /\ x.used = m.used /\ x.ok = m.ok
         /\ Entry(x, s, b, v) = e /\ EntriesKept(m, x, s, b, {v})
<1> DEFINE x == VarPut(m, s, b, v, e)
           slot == m.toggles[s]
           block == slot.block[b]
           newblock == [block EXCEPT !.var = [block.var EXCEPT ![v] = e]]
           newslot == [slot EXCEPT !.block = [slot.block EXCEPT ![b] = newblock]]
<1>1. slot \in Slots(DOMAIN m.text, Len(m.list)) /\ block \in Blocks(DOMAIN m.text, Len(m.list))
  BY SlotParts
<1>2. /\ x.list = m.list /\ x.text = m.text /\ x.used = m.used /\ x.ok = m.ok
      /\ x.toggles = [m.toggles EXCEPT ![s] = newslot]
  BY DEF VarPut, Good
<1>3. DOMAIN m.toggles = 1..Len(m.toggles)
  BY DEF Good
<1>4. x.toggles[s] = newslot
  BY <1>2, <1>3
<1> HIDE DEF x
<1>5. /\ newblock.var[v] = e
      /\ \A w \in 1..MAX_VAR_PER_BLOCK : w # v => newblock.var[w] = block.var[w]
  <2> HIDE DEF block
  <2> QED BY <1>1 DEF Blocks
<1> HIDE DEF newblock
<1>6. \A a \in 1..MAX_BLOCKS : newslot.block[a] = IF a = b THEN newblock ELSE slot.block[a]
  <2> DEFINE B == Blocks(DOMAIN m.text, Len(m.list))
  <2>1. slot \in [key : Keys, current_block : Nat, nr_blocks : 0..MAX_BLOCKS, block : [1..MAX_BLOCKS -> B]]
    BY <1>1 DEF Slots
  <2> HIDE DEF B
  <2> QED BY <2>1
<1> HIDE DEF newslot
<1>7. Entry(x, s, b, v) = e
  BY <1>4, <1>5, <1>6 DEF Entry
<1>8. ASSUME NEW a \in 1..MAX_BLOCKS, NEW w \in 1..MAX_VAR_PER_BLOCK, a # b \/ w # v
      PROVE  Entry(x, s, a, w) = Entry(m, s, a, w)
  BY <1>4, <1>5, <1>6, <1>8 DEF Entry
<1> QED BY <1>2, <1>7, <1>8 DEF EntriesKept, x

LEMMA CountPutEntries ==
  ASSUME NEW m, Good(m), NEW s \in 1..Len(m.toggles), NEW b \in 1..MAX_BLOCKS, NEW v
  PROVE  LET x == CountPut(m, s, b, v) IN
         /\ x.list = m.list /\ x.text = m.text /\ x.used = m.used /\ x.ok = m.ok
         /\ EntriesKept(m, x, s, b, {})
<1> DEFINE x == CountPut(m, s, b, v)
           slot == m.toggles[s]
           block == slot.block[b]
           newblock == [block EXCEPT !.nr_vars = IF v > @ THEN v ELSE @]
           newslot == [slot EXCEPT !.block = [slot.block EXCEPT ![b] = newblock]]
<1>1. slot \in Slots(DOMAIN m.text, Len(m.list)) /\ block \in Blocks(DOMAIN m.text, Len(m.list))
  BY SlotParts
<1>2. /\ x.list = m.list /\ x.text = m.text /\ x.used = m.used /\ x.ok = m.ok
      /\ x.toggles = [m.toggles EXCEPT ![s] = newslot]
  BY DEF CountPut, Good
<1>3. DOMAIN m.toggles = 1..Len(m.toggles)
  BY DEF Good
<1>4. x.toggles[s] = newslot
  BY <1>2, <1>3
<1> HIDE DEF x
<1>5. newblock.var = block.var
  <2> HIDE DEF block
  <2> QED BY <1>1 DEF Blocks
<1> HIDE DEF newblock
<1>6. \A a \in 1..MAX_BLOCKS : newslot.block[a] = IF a = b THEN newblock ELSE slot.block[a]
  <2> DEFINE B == Blocks(DOMAIN m.text, Len(m.list))
  <2>1. slot \in [key : Keys, current_block : Nat, nr_blocks : 0..MAX_BLOCKS, block : [1..MAX_BLOCKS -> B]]
    BY <1>1 DEF Slots
  <2> HIDE DEF B
  <2> QED BY <2>1
<1> HIDE DEF newslot
<1>7. \A a \in 1..MAX_BLOCKS, w \in 1..MAX_VAR_PER_BLOCK : Entry(x, s, a, w) = Entry(m, s, a, w)
  BY <1>4, <1>5, <1>6 DEF Entry
<1> QED BY <1>2, <1>7 DEF EntriesKept, x

\* process_var() leaves the text in the entry, and needs no memory if it was there.
Fills(m, x, s, b, v, pair) ==
  /\ Adds(m, x, {pair.name}) /\ EntriesKept(m, x, s, b, {v}) /\ EntryIs(x, s, b, v, pair)
  /\ EntryIs(m, s, b, v, pair) => x.used = m.used

LEMMA ProcessVarFills ==
  ASSUME NEW m, Good(m), NEW s \in 1..Len(m.toggles), NEW b \in 1..MAX_BLOCKS, NEW v \in 1..MAX_VAR_PER_BLOCK,
         NEW pair \in [name : Names, value : Texts], m.toggles[s].block[b].nr_vars >= v - 1,
         ProcessVar(m, s, b, v, pair).ok
  PROVE  Fills(m, ProcessVar(m, s, b, v, pair), s, b, v, pair)
<1> DEFINE a == Allocate(m, pair.value)
           set == SetNoCopy(a, pair.name, m.used)
           e == [var |-> Index(set, pair.name),
                 value |-> IF set.ok THEN m.used ELSE set.toggles[s].block[b].var[v].value]
           new == VarPut(set, s, b, v, e)
           n == IF SameText(m, s, b, v, pair) THEN m ELSE IF ~ Room(m, pair.value) THEN Fail(m) ELSE new
           x == ProcessVar(m, s, b, v, pair)
<1>1. x = IF n.ok THEN CountPut(n, s, b, v) ELSE n
  BY DEF ProcessVar, VarPut, CountPut
<1>2. pair.name \in Names /\ pair.value \in Texts
  OBVIOUS
<1>3. Good(x)
  BY ProcessVarWrites DEF Writes
<1>4. ASSUME Good(n), s \in 1..Len(n.toggles), Fills(m, n, s, b, v, pair) PROVE Fills(m, x, s, b, v, pair)
  <2> HIDE DEF n
  <2>1. CASE n.ok
    <3>1. x = CountPut(n, s, b, v)
      BY <1>1, <2>1
    <3> HIDE DEF x
    <3>2. /\ x.list = n.list /\ x.text = n.text /\ x.used = n.used
          /\ EntriesKept(n, x, s, b, {})
      BY <1>4, <3>1, CountPutEntries
    <3>3. Adds(n, x, {pair.name})
      BY <1>4, <3>2, AddsNothing
    <3>4. Adds(m, x, {pair.name})
      BY <1>3, <1>4, <3>3, AddsOn DEF Fills, x
    <3>5. Entry(x, s, b, v) = Entry(n, s, b, v) /\ EntriesKept(m, x, s, b, {v})
      BY <1>4, <3>2 DEF Fills, EntriesKept
    <3>6. EntryIs(x, s, b, v, pair)
      BY <1>3, <1>4, <3>3, <3>5, EntryStays DEF Fills, x
    <3> QED BY <1>4, <3>2, <3>4, <3>5, <3>6 DEF Fills, x
  <2>2. CASE ~ n.ok
    BY <1>1, <1>4, <2>2
  <2> QED BY <2>1, <2>2
<1>5. CASE SameText(m, s, b, v, pair)
  <2>1. n = m
    BY <1>5
  <2>2. Entry(m, s, b, v) \in Entries(DOMAIN m.text, Len(m.list))
    BY SlotParts DEF Entry
  <2>3. Entry(m, s, b, v).value \in DOMAIN m.text
    <3> DEFINE entry == Entry(m, s, b, v)
    <3>1. entry.value # None
      BY <1>5 DEF SameText, Entry
    <3> HIDE DEF entry
    <3>2. entry \in Used(DOMAIN m.text, Len(m.list))
      BY <2>2, <3>1 DEF Entries, Used, entry
    <3> QED BY <3>2 DEF Used, entry
  <2>4. EntryIs(m, s, b, v, pair)
    BY <1>5, <2>3 DEF SameText, EntryIs, IsAt, Entry
  <2>5. Fills(m, m, s, b, v, pair)
    BY <2>4, AddsNothing DEF Fills, EntriesKept
  <2> HIDE DEF n
  <2> QED BY <1>4, <2>1, <2>5
<1>6. CASE ~ SameText(m, s, b, v, pair) /\ ~ Room(m, pair.value)
  <2>1. n = Fail(m) /\ ~ n.ok
    BY <1>6 DEF Fail, Good
  <2> HIDE DEF n
  <2> QED BY <1>1, <2>1
<1>7. CASE ~ SameText(m, s, b, v, pair) /\ Room(m, pair.value)
  <2>1. n = new
    BY <1>7
  <2>2. /\ Keeps(m, a) /\ Good(a) /\ m.used \in DOMAIN a.text /\ a.list = m.list
        /\ Adds(m, a, {pair.name}) /\ IsAt(a, m.used, pair.value)
    BY <1>2, <1>7, AllocateKeeps, AllocateAdds DEF Keeps
  <2> HIDE DEF a, n
  <2>3. /\ Keeps(a, set) /\ Good(set) /\ (set.ok => Index(set, pair.name) # 0)
        /\ Adds(a, set, {pair.name})
    BY <1>2, <2>2, SetNoCopyKeeps, SetNoCopyAdds DEF Keeps
  <2> HIDE DEF set
  <2>4. set.toggles = m.toggles /\ s \in 1..Len(set.toggles) /\ Adds(m, set, {pair.name})
    BY <2>2, <2>3, AddsOn DEF Keeps
  <2>5. IsAt(set, m.used, pair.value)
    BY <2>2, <2>3 DEF Adds, TextsKept, IsAt
  <2>6. /\ new.list = set.list /\ new.text = set.text /\ new.used = set.used /\ new.ok = set.ok
        /\ Entry(new, s, b, v) = e /\ EntriesKept(set, new, s, b, {v})
    <3> HIDE DEF e
    <3> QED BY <2>3, <2>4, VarPutEntries
  <2>7. set.ok
    BY <1>1, <2>1, <2>6
  <2>8. e = [var |-> Index(set, pair.name), value |-> m.used] /\ Index(set, pair.name) # 0
    BY <2>3, <2>7
  <2> HIDE DEF e
  <2>9. e \in Used(DOMAIN set.text, Len(set.list))
    <3>1. Index(set, pair.name) \in 1..Len(set.list) /\ m.used \in DOMAIN set.text
      BY <2>3, <2>5, <2>8, IndexType, ListType DEF IsAt
    <3> QED BY <2>8, <3>1 DEF Used
  <2>10. Good(new) /\ s \in 1..Len(new.toggles)
    <3>1. e \in Entries(DOMAIN set.text, Len(set.list))
      BY <2>9 DEF Entries, Used
    <3>2. VarWritten(set, new, s, b, v, e)
      BY <2>3, <2>4, <2>9, <3>1, WithVar
    <3> HIDE DEF new
    <3> QED BY <2>4, <3>2 DEF VarWritten, Writes, Others
  <2> HIDE DEF new
  <2>11. Adds(m, new, {pair.name})
    <3>1. Adds(set, new, {pair.name})
      BY <2>3, <2>6, AddsNothing
    <3> QED BY <2>3, <2>4, <2>10, <3>1, AddsOn
  <2>12. EntriesKept(m, new, s, b, {v})
    BY <2>4, <2>6 DEF EntriesKept, Entry
  <2>13. EntryIs(new, s, b, v, pair)
    <3>1. Index(new, pair.name) = Index(set, pair.name)
      BY <2>6 DEF Index
    <3> QED BY <2>5, <2>6, <2>8, <3>1 DEF EntryIs, IsAt
  <2>14. ~ EntryIs(m, s, b, v, pair)
    <3>1. DOMAIN m.text \subseteq Nat
      BY DEF Good, Packed
    <3> QED BY <1>7, <3>1, NoneAssumption DEF EntryIs, IsAt, SameText, Entry
  <2>15. Fills(m, new, s, b, v, pair)
    BY <2>11, <2>12, <2>13, <2>14 DEF Fills
  <2> HIDE DEF x
  <2> QED BY <1>4, <2>1, <2>10, <2>15 DEF x
<1> QED BY <1>5, <1>6, <1>7

\* process_block() leaves the texts in the block.
LEMMA ProcessBlockFills ==
  ASSUME NEW m, Good(m), NEW s \in 1..Len(m.toggles), NEW b \in 1..MAX_BLOCKS,
         NEW pairs \in Assignments(Texts), NEW K, \A v \in 1..Len(pairs) : pairs[v].name \in K,
         ProcessBlock(m, s, b, pairs).ok
  PROVE  LET x == ProcessBlock(m, s, b, pairs) IN
         /\ Adds(m, x, K) /\ EntriesKept(m, x, s, b, Nat) /\ BlockIs(x, s, b, pairs)
         /\ BlockIs(m, s, b, pairs) => x.used = m.used
<1>1. /\ Len(pairs) \in Nat /\ DOMAIN pairs = 1..Len(pairs)
      /\ \A v \in 1..Len(pairs) : pairs[v] \in [name : Names, value : Texts]
  <2> DEFINE P == [name : Names, value : Texts]
  <2>1. pairs \in Seq(P)
    OBVIOUS
  <2> HIDE DEF P
  <2>2. Len(pairs) \in Nat /\ DOMAIN pairs = 1..Len(pairs) /\ \A v \in 1..Len(pairs) : pairs[v] \in P
    BY <2>1, Elements
  <2> QED BY <2>2 DEF P
<1>2. PICK f : ProcessBlockRun(f, m, s, b, pairs)
  BY <1>1, ProcessBlockLoop
<1> DEFINE N == Len(pairs)
           Filled(x, v) == /\ v <= MAX_VAR_PER_BLOCK /\ x.toggles[s].block[b].nr_vars >= v
                           /\ Adds(m, x, K) /\ EntriesKept(m, x, s, b, 1..v)
                           /\ \A w \in 1..v : EntryIs(x, s, b, w, pairs[w])
                           /\ BlockIs(m, s, b, pairs) => x.used = m.used
           T == {v \in 0..N : Writes(m, f[v], s) /\ (f[v].ok => Filled(f[v], v))}
<1>3. 0 \in T
  <2>1. Writes(m, m, s) /\ Adds(m, m, K) /\ EntriesKept(m, m, s, b, 1..0) /\ 0 <= MAX_VAR_PER_BLOCK
    BY WritesSelf, AddsNothing, Constants DEF EntriesKept
  <2>2. m.toggles[s].block[b].nr_vars >= 0
    BY SlotParts
  <2> QED BY <1>1, <1>2, <2>1, <2>2 DEF ProcessBlockRun
<1>4. ASSUME NEW v \in T, v < N PROVE v + 1 \in T
  <2> DEFINE x == f[v]
             y == f[v + 1]
  <2>1. /\ v \in Nat /\ v + 1 \in 1..N /\ v + 1 \in 0..N /\ (v + 1) - 1 = v /\ Writes(m, x, s) /\ Good(x)
        /\ s \in 1..Len(x.toggles) /\ (x.ok => Filled(x, v))
    <3> HIDE DEF Filled
    <3> QED BY <1>1, <1>4 DEF Writes, Others
  <2>2. y = IF ~ x.ok THEN x
            ELSE IF v + 1 > MAX_VAR_PER_BLOCK THEN Fail(x)
            ELSE ProcessVar(x, s, b, v + 1, pairs[v + 1])
    BY <1>2, <2>1 DEF ProcessBlockRun
  <2> HIDE DEF x, y
  <2>3. CASE ~ x.ok
    BY <2>1, <2>2, <2>3 DEF y
  <2>4. CASE x.ok /\ v + 1 > MAX_VAR_PER_BLOCK
    <3>1. Fail(x).ok = FALSE /\ Keeps(x, Fail(x))
      BY <2>1, FailKeeps DEF Fail, Good
    <3>2. Writes(m, y, s)
      BY <2>1, <2>2, <2>4, <3>1, KeptIsWritten, WritesOn
    <3> QED BY <2>1, <2>2, <2>4, <3>1, <3>2 DEF y
  <2>5. CASE x.ok /\ ~ (v + 1 > MAX_VAR_PER_BLOCK)
    <3> DEFINE pair == pairs[v + 1]
    <3>1. v + 1 \in 1..MAX_VAR_PER_BLOCK
      BY <2>1, <2>5, Constants
    <3>2. pair \in [name : Names, value : Texts] /\ pair.name \in K /\ Filled(x, v)
      BY <1>1, <2>1, <2>5
    <3>3. y = ProcessVar(x, s, b, v + 1, pair) /\ x.toggles[s].block[b].nr_vars >= (v + 1) - 1
      BY <2>1, <2>2, <2>5
    <3> HIDE DEF pair
    <3>4. /\ Writes(x, y, s) /\ Good(y)
          /\ y.ok => y.toggles[s].block[b].nr_vars >= v + 1
      BY <2>1, <3>1, <3>2, <3>3, ProcessVarWrites DEF Writes
    <3>5. Writes(m, y, s)
      BY <2>1, <3>4, WritesOn
    <3>6. ASSUME y.ok PROVE Filled(y, v + 1)
      <4>1. Fills(x, y, s, b, v + 1, pair)
        BY <2>1, <3>1, <3>2, <3>3, <3>6, ProcessVarFills
      <4>2. Adds(m, y, K)
        <5>1. Adds(x, y, K)
          BY <3>2, <4>1, AddsMore DEF Fills
        <5> QED BY <2>1, <3>2, <3>4, <5>1, AddsOn
      <4>3. EntriesKept(m, y, s, b, 1..(v + 1))
        <5> SUFFICES ASSUME NEW a \in 1..MAX_BLOCKS, NEW w \in 1..MAX_VAR_PER_BLOCK,
                            ~ (a = b /\ w \in 1..(v + 1))
                     PROVE  Entry(y, s, a, w) = Entry(m, s, a, w)
          BY DEF EntriesKept
        <5>1. ~ (a = b /\ w \in 1..v) /\ ~ (a = b /\ w \in {v + 1})
          BY <2>1
        <5> QED BY <3>2, <4>1, <5>1 DEF EntriesKept, Fills
      <4>4. ASSUME NEW w \in 1..(v + 1) PROVE EntryIs(y, s, b, w, pairs[w])
        <5>1. CASE w = v + 1
          BY <4>1, <5>1 DEF Fills, pair
        <5>2. CASE w # v + 1
          <6>1. w \in 1..v /\ w \in 1..MAX_VAR_PER_BLOCK /\ w \notin {v + 1} /\ b \in 1..MAX_BLOCKS
            BY <2>1, <3>1, <5>2, Constants
          <6>2. Entry(y, s, b, w) = Entry(x, s, b, w)
            BY <4>1, <6>1 DEF Fills, EntriesKept
          <6>3. EntryIs(x, s, b, w, pairs[w]) /\ Adds(x, y, {pair.name})
            BY <3>2, <4>1, <6>1 DEF Fills
          <6> QED BY <2>1, <3>4, <6>2, <6>3, EntryStays
        <5> QED BY <5>1, <5>2
      <4>5. ASSUME BlockIs(m, s, b, pairs) PROVE y.used = m.used
        <5>1. v + 1 \notin 1..v
          BY <2>1
        <5>2. Entry(x, s, b, v + 1) = Entry(m, s, b, v + 1)
          BY <3>1, <3>2, <5>1 DEF EntriesKept
        <5>3. EntryIs(m, s, b, v + 1, pair)
          BY <2>1, <4>5 DEF BlockIs, pair
        <5>4. EntryIs(x, s, b, v + 1, pair)
          BY <2>1, <3>2, <5>2, <5>3, EntryStays
        <5> QED BY <3>2, <4>1, <4>5, <5>4 DEF Fills
      <4> QED BY <3>1, <3>4, <3>6, <4>2, <4>3, <4>4, <4>5, Constants
    <3> QED BY <2>1, <3>5, <3>6 DEF y
  <2> QED BY <2>3, <2>4, <2>5
<1>5. N \in T
  <2> HIDE DEF T
  <2>1. T \in SUBSET Nat
    BY DEF T
  <2>2. \A v \in T : v < N => v + 1 \in T
    BY <1>4
  <2>3. \A v \in 0..N : v \in T
    BY <1>1, <1>3, <2>1, <2>2, Induction
  <2> QED BY <1>1, <2>3
<1> DEFINE x == ProcessBlock(m, s, b, pairs)
<1>6. Filled(x, N)
  BY <1>2, <1>5 DEF ProcessBlockRun
<1> HIDE DEF x
<1>7. EntriesKept(m, x, s, b, Nat)
  BY <1>1, <1>6 DEF EntriesKept
<1> QED BY <1>6, <1>7 DEF BlockIs, x

BlocksKept(m, x, s) ==
  \A b \in 1..MAX_BLOCKS, v \in 1..MAX_VAR_PER_BLOCK : Entry(x, s, b, v) = Entry(m, s, b, v)

LEMMA BlockStays ==
  ASSUME NEW m, NEW x, Good(m), Good(x), NEW N, Adds(m, x, N), NEW s, NEW b, NEW pairs, Len(pairs) \in Nat,
         \A v \in 1..MAX_VAR_PER_BLOCK : Entry(x, s, b, v) = Entry(m, s, b, v), BlockIs(m, s, b, pairs)
  PROVE  BlockIs(x, s, b, pairs)
<1> SUFFICES ASSUME NEW v \in 1..Len(pairs) PROVE EntryIs(x, s, b, v, pairs[v])
  BY DEF BlockIs
<1>1. v \in 1..MAX_VAR_PER_BLOCK /\ EntryIs(m, s, b, v, pairs[v])
  BY Constants DEF BlockIs
<1> QED BY <1>1, EntryStays

LEMMA ToggleStays ==
  ASSUME NEW m, NEW x, Good(m), Good(x), NEW N, Adds(m, x, N), NEW s, NEW c, c.blocks \in Seq(Assignments(Texts)),
         BlocksKept(m, x, s), ToggleIs(m, s, c)
  PROVE  ToggleIs(x, s, c)
<1> DEFINE A == Assignments(Texts)
<1>1. /\ Len(c.blocks) \in Nat /\ \A b \in 1..Len(c.blocks) : Len(c.blocks[b]) \in Nat
  <2>1. c.blocks \in Seq(A) /\ \A q \in A : Len(q) \in Nat
    OBVIOUS
  <2> HIDE DEF A
  <2> QED BY <2>1, Elements
<1> SUFFICES ASSUME NEW b \in 1..Len(c.blocks) PROVE BlockIs(x, s, b, c.blocks[b])
  BY DEF ToggleIs
<1>2. b \in 1..MAX_BLOCKS /\ BlockIs(m, s, b, c.blocks[b])
  BY <1>1, Constants DEF ToggleIs
<1> QED BY <1>1, <1>2, BlockStays DEF BlocksKept

LEMMA ClearedEntries ==
  ASSUME NEW m, Good(m), NEW c, c.key \in Keys
  PROVE  LET x == Cleared(m, c) IN
         /\ x.list = m.list /\ x.text = m.text /\ x.used = m.used
         /\ Slot(m, c.key) # 0 => BlocksKept(m, x, Slot(m, c.key))
<1> DEFINE x == Cleared(m, c)
           s == Slot(m, c.key)
           S == Slots(DOMAIN m.text, Len(m.list))
<1>1. /\ x.list = m.list /\ x.text = m.text /\ x.used = m.used
      /\ s # 0 => x.toggles = [m.toggles EXCEPT ![s] = Reset(m.toggles[s])]
  BY DEF Cleared, WithRoomFor, ToggleSlot, Good
<1> HIDE DEF x
<1>2. ASSUME s # 0 PROVE BlocksKept(m, x, s)
  <2>1. s \in 1..Len(m.toggles) /\ DOMAIN m.toggles = 1..Len(m.toggles) /\ m.toggles[s] \in S
    BY <1>2, SlotType, SlotParts DEF Good
  <2> DEFINE slot == m.toggles[s]
             reset == Reset(slot)
  <2> HIDE DEF s
  <2>2. \A b \in 1..MAX_BLOCKS : reset.block[b].var = slot.block[b].var
    BY <2>1, ResetParts
  <2> HIDE DEF reset
  <2>3. x.toggles[s] = reset
    BY <1>1, <1>2, <2>1 DEF reset
  <2> QED BY <2>2, <2>3 DEF BlocksKept, Entry, s
<1> QED BY <1>1, <1>2 DEF x

LEMMA CountedEntries ==
  ASSUME NEW m, Good(m), NEW s \in 1..Len(m.toggles), NEW n
  PROVE  LET x == Counted(m, s, n) IN
         x.list = m.list /\ x.text = m.text /\ x.used = m.used /\ BlocksKept(m, x, s)
<1> DEFINE x == Counted(m, s, n)
           slot == [m.toggles[s] EXCEPT !.nr_blocks = n]
<1>1. /\ x.list = m.list /\ x.text = m.text /\ x.used = m.used
      /\ x.toggles = [m.toggles EXCEPT ![s] = slot] /\ DOMAIN m.toggles = 1..Len(m.toggles)
  BY DEF Counted, Good
<1> HIDE DEF x
<1>2. x.toggles[s] = slot
  BY <1>1
<1>3. slot.block = m.toggles[s].block
  BY SlotParts DEF Slots
<1> HIDE DEF slot
<1> QED BY <1>1, <1>2, <1>3 DEF BlocksKept, Entry, x

\* toggle set leaves the toggle with the texts of the command.
LEMMA ToggleSetFills ==
  ASSUME NEW m, Good(m), Sound(m), NEW c, c.key \in Keys, c.blocks \in Seq(Assignments(Texts)), InPlaces(c),
         ToggleSet(m, c).ok
  PROVE  LET x == ToggleSet(m, c)
             s == ToggleSlot(m, c)
         IN  /\ Adds(m, x, NamesAt(c.key)) /\ ToggleIs(x, s, c) /\ Others(Cleared(m, c), x, s)
             /\ Slot(m, c.key) # 0 /\ ToggleIs(m, s, c) => x.used = m.used
<1> DEFINE N == Len(c.blocks)
           s == ToggleSlot(m, c)
           x == Cleared(m, c)
           K == NamesAt(c.key)
<1> HIDE DEF N, s, x
<1>1. /\ N \in Nat
      /\ \A b \in 1..N : /\ c.blocks[b] \in Assignments(Texts) /\ Len(c.blocks[b]) \in Nat
                         /\ \A v \in 1..Len(c.blocks[b]) : c.blocks[b][v].name \in K
  <2> DEFINE A == Assignments(Texts)
  <2>1. c.blocks \in Seq(A)
    OBVIOUS
  <2>2. ASSUME NEW q \in A
        PROVE  Len(q) \in Nat /\ DOMAIN q = 1..Len(q) /\ \A v \in 1..Len(q) : q[v].name \in Names
    <3> DEFINE P == [name : Names, value : Texts]
    <3>1. q \in Seq(P) /\ \A pair \in P : pair.name \in Names
      OBVIOUS
    <3> HIDE DEF P
    <3> QED BY <3>1, Elements
  <2> HIDE DEF A
  <2>3. N \in Nat /\ DOMAIN c.blocks = 1..N /\ \A b \in 1..N : c.blocks[b] \in A
    BY <2>1, Elements DEF N
  <2>4. ASSUME NEW b \in 1..N, NEW v \in 1..Len(c.blocks[b]) PROVE c.blocks[b][v].name \in K
    <3>1. c.blocks[b][v].name \in Names /\ Has(c.key, b, v, c.blocks[b][v].name)
      BY <2>2, <2>3 DEF InPlaces
    <3> QED BY <3>1 DEF NamesAt
  <2> QED BY <2>2, <2>3, <2>4 DEF A
<1> HIDE DEF K
<1>2. PICK f : ToggleSetRun(f, m, c)
  BY <1>1, ToggleSetLoop DEF N
<1>3. /\ Good(x) /\ s \in 1..Len(x.toggles) /\ x.toggles[s].key = c.key /\ x.toggles[s].current_block = 0
      /\ x.list = m.list /\ x.text = m.text /\ x.used = m.used
      /\ Slot(m, c.key) # 0 => BlocksKept(m, x, s)
      /\ Entered(x, s) /\ OneName(x)
  <2>1. Slot(m, c.key) # 0 => s = Slot(m, c.key)
    BY DEF ToggleSlot, s
  <2>2. /\ Good(x) /\ s \in 1..Len(x.toggles) /\ x.toggles[s].current_block = 0 /\ x.toggles[s].key = c.key
    BY ClearedGood, ClearedLeaves DEF x, s
  <2>3. Sound(x)
    BY ClearedSound DEF x
  <2>4. /\ x.list = m.list /\ x.text = m.text /\ x.used = m.used
        /\ Slot(m, c.key) # 0 => BlocksKept(m, x, s)
    BY <2>1, ClearedEntries DEF x
  <2> QED BY <2>2, <2>3, <2>4 DEF Sound
<1>4. \A b \in 0..N : Writes(x, f[b], s) /\ EntersAt(x, f[b], s) /\ (f[b].ok => b <= MAX_BLOCKS)
  <2>1. Entered(Cleared(m, c), ToggleSlot(m, c))
    BY <1>3 DEF x, s
  <2>2. ToggleSteps(f, m, c)
    BY <1>2, <2>1, ToggleRun
  <2> QED BY <2>2 DEF ToggleSteps, x, s, N
<1> DEFINE Filled(y, b) == /\ Adds(x, y, K)
                           /\ \A a \in 1..MAX_BLOCKS, w \in 1..MAX_VAR_PER_BLOCK :
                                a > b => Entry(y, s, a, w) = Entry(x, s, a, w)
                           /\ \A a \in 1..b : BlockIs(y, s, a, c.blocks[a])
                           /\ ToggleIs(x, s, c) => y.used = x.used
           T == {b \in 0..N : f[b].ok => Filled(f[b], b)}
<1>5. 0 \in T
  <2>1. f[0] = x /\ Adds(x, x, K) /\ 1..0 = {}
    BY <1>2, <1>3, AddsNothing DEF ToggleSetRun, x
  <2> QED BY <1>1, <2>1
<1>6. ASSUME NEW b \in T, b < N PROVE b + 1 \in T
  <2> DEFINE y == f[b]
             z == f[b + 1]
             pairs == c.blocks[b + 1]
  <2>1. /\ b \in Nat /\ b + 1 \in 1..N /\ b + 1 \in 0..N /\ (b + 1) - 1 = b
        /\ Good(y) /\ Good(z) /\ s \in 1..Len(y.toggles) /\ (y.ok => Filled(y, b))
    <3> HIDE DEF Filled
    <3> QED BY <1>1, <1>3, <1>4, <1>6 DEF Writes, Others
  <2>2. z = IF ~ y.ok THEN y ELSE IF b + 1 > MAX_BLOCKS THEN Fail(y) ELSE ProcessBlock(y, s, b + 1, pairs)
    BY <1>2, <2>1 DEF ToggleSetRun, N, s
  <2>3. /\ pairs \in Assignments(Texts) /\ Len(pairs) \in Nat
        /\ \A v \in 1..Len(pairs) : pairs[v].name \in K
    BY <1>1, <2>1
  <2> HIDE DEF y, z, pairs
  <2> SUFFICES ASSUME z.ok PROVE Filled(z, b + 1)
    BY <2>1 DEF z
  <2>4. y.ok /\ ~ (b + 1 > MAX_BLOCKS) /\ z = ProcessBlock(y, s, b + 1, pairs)
    <3>1. ~ Fail(y).ok
      BY <2>1 DEF Fail, Good
    <3> QED BY <2>2, <3>1
  <2>5. b + 1 \in 1..MAX_BLOCKS
    BY <2>1, <2>4, Constants
  <2>6. /\ Adds(y, z, K) /\ EntriesKept(y, z, s, b + 1, Nat) /\ BlockIs(z, s, b + 1, pairs)
        /\ BlockIs(y, s, b + 1, pairs) => z.used = y.used
    BY <2>1, <2>3, <2>4, <2>5, ProcessBlockFills
  <2>7. Adds(x, z, K)
    BY <1>3, <2>1, <2>4, <2>6, AddsOn
  <2>8. \A a \in 1..MAX_BLOCKS, w \in 1..MAX_VAR_PER_BLOCK : a # b + 1 => Entry(z, s, a, w) = Entry(y, s, a, w)
    BY <2>6 DEF EntriesKept
  <2>9. \A a \in 1..MAX_BLOCKS, w \in 1..MAX_VAR_PER_BLOCK : a > b + 1 => Entry(z, s, a, w) = Entry(x, s, a, w)
    BY <2>1, <2>4, <2>8, Constants
  <2>10. ASSUME NEW a \in 1..(b + 1) PROVE BlockIs(z, s, a, c.blocks[a])
    <3>1. CASE a = b + 1
      BY <2>6, <3>1 DEF pairs
    <3>2. CASE a # b + 1
      <4>1. a \in 1..b /\ a \in 1..MAX_BLOCKS /\ a \in 1..N
        BY <1>1, <2>1, <2>5, <3>2, Constants
      <4>2. Len(c.blocks[a]) \in Nat /\ BlockIs(y, s, a, c.blocks[a])
        BY <1>1, <2>1, <2>4, <4>1
      <4>3. \A w \in 1..MAX_VAR_PER_BLOCK : Entry(z, s, a, w) = Entry(y, s, a, w)
        BY <2>8, <3>2, <4>1
      <4> QED BY <2>1, <2>6, <4>2, <4>3, BlockStays
    <3> QED BY <3>1, <3>2
  <2>11. ASSUME ToggleIs(x, s, c) PROVE z.used = x.used
    <3>1. BlockIs(x, s, b + 1, pairs)
      BY <2>1, <2>11 DEF ToggleIs, N, pairs
    <3>2. \A w \in 1..MAX_VAR_PER_BLOCK : Entry(y, s, b + 1, w) = Entry(x, s, b + 1, w)
      BY <2>1, <2>4, <2>5
    <3>3. BlockIs(y, s, b + 1, pairs)
      BY <1>3, <2>1, <2>3, <2>4, <3>1, <3>2, BlockStays
    <3> QED BY <2>1, <2>4, <2>6, <2>11, <3>3
  <2> QED BY <2>7, <2>9, <2>10, <2>11
<1>7. N \in T
  <2> HIDE DEF T
  <2>1. T \in SUBSET Nat
    BY DEF T
  <2>2. \A b \in T : b < N => b + 1 \in T
    BY <1>6
  <2>3. \A b \in 0..N : b \in T
    BY <1>1, <1>5, <2>1, <2>2, Induction
  <2> QED BY <1>1, <2>3
<1> DEFINE last == f[N]
           all == Counted(last, s, N)
           y == DoBlock(all, s, 1)
           z == ToggleSet(m, c)
<1>8. /\ Good(last) /\ s \in 1..Len(last.toggles) /\ last.toggles[s].current_block = 0
      /\ last.toggles[s].key = c.key
      /\ last.ok => N \in 0..MAX_BLOCKS
      /\ Entered(last, s) /\ Changes(x, last, K) /\ OneName(last) /\ Others(x, last, s)
  <2>1. N \in 0..N
    BY <1>1
  <2>2. Changes(x, last, K)
    BY <1>3, <1>4, <2>1 DEF EntersAt, K
  <2> QED BY <1>1, <1>3, <1>4, <2>1, <2>2, Constants DEF Writes, Others, EntersAt, Changes
<1>9. z = IF Slot(m, c.key) = 0 /\ Len(m.toggles) = TOGGLES THEN Fail(m)
          ELSE IF ~ last.ok THEN last
          ELSE IF c.blocks = <<>> THEN all ELSE y
  BY <1>2 DEF ToggleSetRun, N, s
<1>10. last.ok => Filled(last, N)
  BY <1>7
<1> HIDE DEF last
<1>11. last.ok /\ (z = all \/ z = y)
  <2>1. ~ Fail(m).ok
    BY DEF Fail, Good
  <2> QED BY <1>9, <2>1
<1>12. /\ Adds(x, last, K) /\ ToggleIs(last, s, c) /\ (ToggleIs(x, s, c) => last.used = x.used)
  BY <1>8, <1>10, <1>11, Constants DEF ToggleIs, N
<1> HIDE DEF Filled
<1>13. /\ Good(all) /\ s \in 1..Len(all.toggles) /\ all.ok /\ all.list = last.list /\ all.text = last.text
       /\ all.used = last.used /\ BlocksKept(last, all, s) /\ Entered(all, s) /\ OneName(all)
       /\ all.toggles[s].key = c.key /\ Others(last, all, s)
  <2>1. OneName(all)
    BY <1>8, <1>11, CountedEnters DEF OneName
  <2> QED BY <1>8, <1>11, <2>1, CountedEnters, CountedEntries DEF Others
<1> HIDE DEF all
<1>14. Adds(last, all, K) /\ ToggleIs(all, s, c)
  <2>1. Adds(last, all, K)
    BY <1>8, <1>13, AddsNothing
  <2> QED BY <1>8, <1>12, <1>13, <2>1, ToggleStays
<1>15. /\ Good(y) /\ Adds(all, y, K) /\ y.used = all.used /\ BlocksKept(all, y, s) /\ y.toggles = all.toggles
  <2>1. 1 \in 1..MAX_BLOCKS
    BY Constants
  <2>2. Good(y) /\ y.toggles = all.toggles
    BY <1>13, <2>1, DoBlockKeeps DEF Keeps
  <2>3. Changes(all, y, K)
    BY <1>13, <2>1, DoBlockShows DEF K
  <2>4. y.text = all.text /\ y.used = all.used /\ Lists(all, y, {})
    BY <1>13, <2>1, DoBlockFree
  <2> HIDE DEF y
  <2> QED BY <2>2, <2>3, <2>4 DEF Adds, Lists, TextsKept, IsAt, BlocksKept, Entry
<1> HIDE DEF y
<1>16. Good(z) /\ Adds(all, z, K) /\ z.used = all.used /\ BlocksKept(all, z, s) /\ z.toggles = all.toggles
  <2>1. Adds(all, all, K) /\ BlocksKept(all, all, s)
    BY <1>13, AddsNothing DEF BlocksKept
  <2> QED BY <1>11, <1>13, <1>15, <2>1
<1> HIDE DEF z
<1>17. ToggleIs(z, s, c)
  BY <1>13, <1>14, <1>16, ToggleStays
<1>18. Adds(m, z, K)
  <2>1. Adds(m, x, K)
    BY <1>3, AddsNothing
  <2>2. Adds(x, all, K)
    BY <1>3, <1>8, <1>12, <1>13, <1>14, AddsOn
  <2>3. Adds(x, z, K)
    BY <1>3, <1>13, <1>16, <2>2, AddsOn
  <2> QED BY <1>3, <1>16, <2>1, <2>3, AddsOn
<1>19. ASSUME Slot(m, c.key) # 0, ToggleIs(m, s, c) PROVE z.used = m.used
  <2>1. Adds(m, x, K)
    BY <1>3, AddsNothing
  <2>2. ToggleIs(x, s, c)
    BY <1>3, <1>19, <2>1, ToggleStays
  <2> QED BY <1>3, <1>12, <1>13, <1>16, <2>2
<1>20. Others(x, z, s)
  BY <1>8, <1>13, <1>16 DEF Others
<1> QED BY <1>17, <1>18, <1>19, <1>20 DEF K, s, x, z

-------------------------------------------------------------------------------
(* What a command read again finds.                                            *)

\* The variable of a set has its value if there is one.
SetDone(m, c) == Index(m, c.name) # 0 => IsAt(m, Value(m, c.name), c.value)

LEMMA AllAreValue ==
  ASSUME NEW m, Good(m), NEW name, Index(m, name) # 0, NEW at, AllAre(m, name, at)
  PROVE  Value(m, name) = at
<1> DEFINE i == Index(m, name)
<1>1. i \in DOMAIN m.list /\ m.list[i].name = name /\ i \in 1..Len(m.list)
  <2>1. PICK j \in DOMAIN m.list : m.list[j].name = name
    BY IndexType
  <2>2. i \in DOMAIN m.list /\ m.list[i].name = name
    BY <2>1 DEF Index
  <2> QED BY <2>2, ListType
<1>2. m.list[i].value = at
  BY <1>1 DEF AllAre
<1> QED BY <1>2 DEF Value

LEMMA SetVarAgain ==
  ASSUME NEW m, Good(m), m.ok, NEW name \in Names, NEW v \in Texts, Index(m, name) # 0,
         IsAt(m, Value(m, name), v)
  PROVE  LET x == SetVar(m, name, v) IN
         /\ Adds(m, x, {name}) /\ x.used = m.used /\ Index(x, name) # 0 /\ IsAt(x, Value(x, name), v)
<1> DEFINE at == Value(m, name)
           x == SetVar(m, name, v)
<1>1. at \in DOMAIN m.text /\ m.text[at] = v
  BY DEF IsAt
<1>2. at # None
  BY <1>1, NoneAssumption DEF Good, Packed
<1>3. Fits(m.text[at], v)
  BY <1>1, Constants DEF Fits
<1>4. x = [m EXCEPT !.text[at] = v]
  BY <1>2, <1>3 DEF SetVar
<1> HIDE DEF at, x
<1>5. x.list = m.list /\ x.used = m.used /\ x.text = [m.text EXCEPT ![at] = v]
  BY <1>4 DEF Good
<1>6. TextsKept(m, x) /\ IsAt(x, at, v)
  BY <1>1, <1>5 DEF TextsKept, IsAt
<1>7. Changes(m, x, {name}) /\ Lists(m, x, {name})
  BY <1>5, SameList, IndexListed DEF Lists
<1>8. Index(x, name) = Index(m, name) /\ Value(x, name) = at
  BY <1>5 DEF Index, Value, at
<1> QED BY <1>5, <1>6, <1>7, <1>8 DEF Adds, x

LEMMA SetVarFirst ==
  ASSUME NEW m, Good(m), OneName(m), NEW name \in Names, NEW v \in Texts, Index(m, name) = 0
  PROVE  LET x == SetVar(m, name, v) IN
         /\ Adds(m, x, {name})
         /\ x.ok => Index(x, name) # 0 /\ IsAt(x, Value(x, name), v)
<1> DEFINE n == Named(m, name)
           x == SetVar(m, name, v)
<1>1. Good(n) /\ (n.ok => Index(n, name) # 0) /\ Adds(m, n, {name})
  BY IsThere, ThereAdds
<1>2. x = IF ~ n.ok THEN n ELSE SetAnew(n, name, v)
  BY DEF SetVar
<1> HIDE DEF n, x
<1>3. CASE ~ n.ok
  BY <1>1, <1>2, <1>3 DEF x
<1>4. CASE n.ok /\ ~ Room(n, v)
  <2>1. x = Fail(n) /\ Fail(n).list = n.list /\ Fail(n).text = n.text /\ ~ Fail(n).ok
    BY <1>1, <1>2, <1>4 DEF SetAnew, Fail, Good
  <2>2. Good(x)
    BY <1>1, <2>1, FailKeeps DEF Keeps
  <2>3. Adds(n, x, {name})
    BY <1>1, <2>1, AddsNothing
  <2> QED BY <1>1, <2>1, <2>2, <2>3, AddsOn DEF x
<1>5. CASE n.ok /\ Room(n, v)
  <2> DEFINE y == Allocate(n, v)
  <2>1. Good(y) /\ y.list = n.list /\ Adds(n, y, {name}) /\ IsAt(y, n.used, v)
    BY <1>1, <1>5, AllocateKeeps, AllocateAdds DEF Keeps
  <2>2. x = PointAt(y, name, n.used)
    BY <1>2, <1>5 DEF SetAnew
  <2> HIDE DEF y
  <2>3. Index(y, name) # 0 /\ OneName(y)
    BY <1>1, <1>5, <2>1 DEF Index, Adds, Changes, OneName
  <2>4. n.used \in DOMAIN y.text
    BY <2>1 DEF IsAt
  <2>5. Good(x) /\ Adds(y, x, {name}) /\ x.text = y.text /\ AllAre(x, name, n.used)
    <3>1. Good(x)
      BY <2>1, <2>2, <2>3, <2>4, PointAtKeeps DEF Keeps
    <3>2. Adds(y, x, {name}) /\ x.text = y.text
      BY <2>1, <2>2, <2>3, PointAtAdds
    <3>3. AllAre(x, name, n.used)
      BY <2>1, <2>2, <2>3, PointAtChanges
    <3> QED BY <3>1, <3>2, <3>3
  <2>6. Index(x, name) # 0
    BY <2>1, <2>3, <2>5, StaysListed DEF Adds
  <2>7. Value(x, name) = n.used
    BY <2>5, <2>6, AllAreValue
  <2>8. Adds(m, x, {name})
    <3>1. Adds(m, y, {name})
      BY <1>1, <2>1, AddsOn
    <3> QED BY <2>1, <2>5, <3>1, AddsOn
  <2> QED BY <2>1, <2>5, <2>6, <2>7, <2>8 DEF IsAt, x
<1> QED BY <1>3, <1>4, <1>5

\* What selects and keys do: the variables of toggles get other texts, that are there.
ToggleNames == {name \in Names : \E key, b, v : Has(key, b, v, name)}
SlotsKept(m, x) ==
  /\ Len(x.toggles) = Len(m.toggles)
  /\ \A s \in 1..Len(m.toggles) : x.toggles[s].key = m.toggles[s].key /\ BlocksKept(m, x, s)
Free(m, x) == Adds(m, x, ToggleNames) /\ x.text = m.text /\ x.used = m.used /\ SlotsKept(m, x)

LEMMA FreeOn ==
  ASSUME NEW m, NEW x, NEW y, Good(m), Good(x), Good(y), Free(m, x), Free(x, y)
  PROVE  Free(m, y)
<1>1. Adds(m, y, ToggleNames)
  BY AddsOn DEF Free
<1>2. SlotsKept(m, y)
  BY DEF Free, SlotsKept, BlocksKept
<1> QED BY <1>1, <1>2 DEF Free

LEMMA FreeAlike ==
  ASSUME NEW m, NEW x, Good(m), x.list = m.list, x.text = m.text, x.used = m.used, x.toggles = m.toggles
  PROVE  Free(m, x)
BY AddsNothing DEF Free, SlotsKept, BlocksKept, Entry

AtBlock(m, s, b) == SlotPut(m, s, [m.toggles[s] EXCEPT !.current_block = b])

LEMMA AtBlockFree ==
  ASSUME NEW m, Good(m), NEW s \in 1..Len(m.toggles), NEW b \in Nat,
         m.toggles[s].nr_blocks > 0 => b < m.toggles[s].nr_blocks
  PROVE  LET x == AtBlock(m, s, b) IN
         Good(x) /\ x.ok = m.ok /\ x.list = m.list /\ Free(m, x)
<1> DEFINE old == m.toggles[s]
           slot == [old EXCEPT !.current_block = b]
           x == AtBlock(m, s, b)
<1>1. old \in Slots(DOMAIN m.text, Len(m.list)) /\ (old.nr_blocks > 0 => b < old.nr_blocks)
  BY SlotParts
<1>2. x = SlotPut(m, s, slot) /\ x.used = m.used
  BY DEF AtBlock, SlotPut, Good
<1> HIDE DEF x, old
<1>3. /\ slot \in Slots(DOMAIN m.text, Len(m.list)) /\ slot.key = old.key /\ slot.block = old.block
  BY <1>1 DEF Slots, AtABlock
<1> HIDE DEF slot
<1>4. /\ Good(x) /\ x.ok = m.ok /\ x.list = m.list /\ x.text = m.text /\ Len(x.toggles) = Len(m.toggles)
      /\ x.toggles[s] = slot /\ \A t \in 1..Len(m.toggles) : t # s => x.toggles[t] = m.toggles[t]
  BY <1>2, <1>3, WithSlot
<1>5. SlotsKept(m, x)
  BY <1>3, <1>4 DEF SlotsKept, BlocksKept, Entry, old
<1>6. Adds(m, x, ToggleNames)
  BY <1>4, AddsNothing
<1> QED BY <1>2, <1>4, <1>5, <1>6 DEF Free, x

LEMMA ShowingIsFree ==
  ASSUME NEW m, Good(m), m.ok, OneName(m), NEW s \in 1..Len(m.toggles), NEW b \in 1..MAX_BLOCKS,
         Entered(m, s)
  PROVE  Good(DoBlock(m, s, b)) /\ DoBlock(m, s, b).ok /\ Free(m, DoBlock(m, s, b))
<1> DEFINE x == DoBlock(m, s, b)
           key == m.toggles[s].key
<1>1. Good(x) /\ x.toggles = m.toggles
  BY DoBlockKeeps DEF Keeps
<1>2. x.ok /\ Changes(m, x, NamesAt(key))
  BY DoBlockShows
<1>3. x.text = m.text /\ x.used = m.used /\ Lists(m, x, {})
  BY DoBlockFree
<1> HIDE DEF x, key
<1>4. NamesAt(key) \subseteq ToggleNames
  BY DEF NamesAt, ToggleNames
<1>5. Changes(m, x, ToggleNames)
  BY <1>2, <1>4, ChangesMore
<1>6. SlotsKept(m, x)
  BY <1>1 DEF SlotsKept, BlocksKept, Entry
<1> QED BY <1>1, <1>2, <1>3, <1>5, <1>6 DEF Free, Adds, Lists, TextsKept, IsAt, x

LEMMA MovedToFree ==
  ASSUME NEW m, Good(m), m.ok, Sound(m), NEW s \in 1..Len(m.toggles), NEW b \in Nat, b < m.toggles[s].nr_blocks
  PROVE  Good(MovedTo(m, s, b)) /\ Free(m, MovedTo(m, s, b))
<1> DEFINE x == DoBlock(m, s, b + 1)
           y == MovedTo(m, s, b)
<1>1. b + 1 \in 1..MAX_BLOCKS
  <2>1. m.toggles[s].nr_blocks \in 0..MAX_BLOCKS
    BY SlotParts DEF Slots
  <2> QED BY <2>1, Constants
<1>2. Good(x) /\ Free(m, x) /\ x.toggles = m.toggles
  <2>1. OneName(m) /\ Entered(m, s)
    BY DEF Sound
  <2>2. x.toggles = m.toggles
    BY <1>1, DoBlockKeeps DEF Keeps
  <2>3. Good(x) /\ Free(m, x)
    BY <1>1, <2>1, ShowingIsFree
  <2> QED BY <2>2, <2>3
<1>3. y = AtBlock(x, s, b)
  BY DEF MovedTo, AtBlock, SlotPut
<1> HIDE DEF x, y
<1>4. Good(y) /\ Free(x, y)
  BY <1>2, <1>3, AtBlockFree
<1> QED BY <1>2, <1>4, FreeOn DEF y

LEMMA SelectFree ==
  ASSUME Apart, NEW m, Good(m), Sound(m), m.ok, NEW c, c.picks \in Seq([key : Keys, block : Nat]),
         NEW triggered
  PROVE  Good(Select(m, c, triggered)) /\ Free(m, Select(m, c, triggered))
<1> DEFINE N == Len(c.picks)
<1>1. N \in Nat /\ \A i \in 1..N : c.picks[i] \in [key : Keys, block : Nat]
  BY Elements
<1>2. PICK f : SelectRun(f, m, c, triggered)
  BY <1>1, SelectLoop
<1>3. SelectSteps(f, m, c)
  BY <1>2, SelectAll
<1>4. \A i \in 0..N : /\ DOMAIN f[i] = {"stop", "m"} /\ Chosen(m, f[i].m, Keys) /\ Sound(f[i].m)
                      /\ f[i].stop \/ f[i].m.ok
  BY <1>3 DEF SelectSteps
<1> HIDE DEF N
<1> DEFINE T == {i \in 0..N : Free(m, f[i].m)}
<1>5. 0 \in T
  <2>1. f[0].m = m
    BY <1>2 DEF SelectRun
  <2> QED BY <1>1, <2>1, FreeAlike
<1>6. ASSUME NEW i \in T, i < N PROVE i + 1 \in T
  <2> DEFINE s == Slot(m, c.picks[i + 1].key)
             b == c.picks[i + 1].block
             x == f[i].m
             y == f[i + 1].m
  <2>1. /\ i + 1 \in 1..N /\ i + 1 \in 0..N /\ (i + 1) - 1 = i /\ i \in 0..N
        /\ DOMAIN f[i] = {"stop", "m"} /\ Chosen(m, x, Keys) /\ Good(x) /\ Sound(x) /\ (f[i].stop \/ x.ok)
        /\ Free(m, x) /\ Good(y)
    BY <1>1, <1>4, <1>6 DEF Chosen
  <2>2. b \in Nat /\ s \in 0..Len(m.toggles) /\ Len(m.toggles) \in Nat
    BY <1>1, <2>1, SlotType
  <2>3. f[i + 1] = SelectStep(m, c, triggered, f[i], i + 1)
    BY <1>2, <2>1 DEF SelectRun, N
  <2>4. CASE f[i + 1] = f[i] \/ f[i + 1] = [f[i] EXCEPT !.stop = TRUE]
    <3>1. y = x
      BY <2>1, <2>4
    <3> QED BY <2>1, <3>1
  <2>5. CASE f[i + 1] = [stop |-> TRUE, m |-> Fail(f[i].m)]
    <3>1. y = Fail(x)
      BY <2>5
    <3> HIDE DEF x, y
    <3>2. y.list = x.list /\ y.text = x.text /\ y.used = x.used /\ y.toggles = x.toggles
      BY <2>1, <3>1 DEF Fail, Good
    <3>3. Free(x, y)
      BY <2>1, <3>2, FreeAlike
    <3>4. Free(m, y)
      BY <2>1, <3>3, FreeOn
    <3> QED BY <2>1, <3>4 DEF y
  <2>6. CASE /\ f[i + 1] = [stop |-> FALSE, m |-> MovedTo(f[i].m, s, b)] /\ s # 0 /\ ~ (b >= m.toggles[s].nr_blocks)
             /\ ~ f[i].stop
    <3>1. y = MovedTo(x, s, b)
      BY <2>6
    <3>2. s \in 1..Len(m.toggles)
      BY <2>2, <2>6
    <3> HIDE DEF x, y, s, b
    <3>3. s \in 1..Len(x.toggles) /\ x.toggles[s].nr_blocks = m.toggles[s].nr_blocks
      BY <2>1, <3>2 DEF Chosen
    <3>4. m.toggles[s].nr_blocks \in Nat
      BY <3>2, SlotParts, Constants DEF Slots
    <3>5. b < x.toggles[s].nr_blocks /\ x.ok
      BY <2>1, <2>2, <2>6, <3>3, <3>4
    <3>6. Free(x, y)
      BY <2>1, <2>2, <3>1, <3>3, <3>5, MovedToFree
    <3>7. Free(m, y)
      BY <2>1, <3>6, FreeOn
    <3> QED BY <2>1, <3>7 DEF y
  <2> HIDE DEF T
  <2> QED BY <2>3, <2>4, <2>5, <2>6, Zenon DEF SelectStep
<1>7. N \in T
  <2> HIDE DEF T
  <2>1. T \in SUBSET Nat
    BY DEF T
  <2>2. \A i \in T : i < N => i + 1 \in T
    BY <1>6
  <2>3. \A i \in 0..N : i \in T
    BY <1>1, <1>5, <2>1, <2>2, Induction
  <2> QED BY <1>1, <2>3
<1>8. N \in 0..N
  BY <1>1
<1> QED BY <1>2, <1>4, <1>7, <1>8 DEF SelectRun, Chosen, N

LEMMA ClearedSlots ==
  ASSUME NEW m, Good(m), NEW c, c.key \in Keys
  PROVE  \A t \in 1..Len(Cleared(m, c).toggles) :
           t # ToggleSlot(m, c) => t \in 1..Len(m.toggles) /\ Cleared(m, c).toggles[t] = m.toggles[t]
<1> DEFINE s == ToggleSlot(m, c)
           S == Slots(DOMAIN m.text, Len(m.list))
           slots == WithRoomFor(m, c)
           new == Reset(slots[s])
           x == Cleared(m, c)
<1>1. Len(m.toggles) \in Nat /\ Slot(m, c.key) \in 0..Len(m.toggles) /\ m.toggles \in Seq(S)
  BY SlotType DEF Good
<1>2. EmptySlot(c.key) \in S
  BY EmptySlotType
<1>3. x.toggles = [slots EXCEPT ![s] = new]
  BY DEF Cleared, Good
<1> HIDE DEF S, x
<1>4. /\ slots \in Seq(S) /\ Len(slots) \in Nat /\ s \in 1..Len(slots)
      /\ \A t \in 1..Len(slots) : t # s => t \in 1..Len(m.toggles) /\ slots[t] = m.toggles[t]
  <2>1. CASE Slot(m, c.key) = 0
    <3> DEFINE e == EmptySlot(c.key)
    <3>1. s = Len(m.toggles) + 1 /\ slots = Append(m.toggles, e) /\ e \in S
      BY <1>2, <2>1 DEF WithRoomFor, ToggleSlot
    <3> HIDE DEF e, s, slots
    <3>2. /\ slots \in Seq(S) /\ Len(slots) = Len(m.toggles) + 1
          /\ \A t \in 1..Len(m.toggles) : slots[t] = m.toggles[t]
      BY <1>1, <3>1
    <3>3. \A t \in 1..Len(slots) : t = s \/ t \in 1..Len(m.toggles)
      BY <1>1, <3>1, <3>2
    <3> QED BY <1>1, <3>1, <3>2, <3>3
  <2>2. CASE Slot(m, c.key) # 0
    BY <1>1, <2>2 DEF WithRoomFor, ToggleSlot
  <2> QED BY <2>1, <2>2
<1> HIDE DEF s, slots, new
<1>5. slots \in Seq(S \cup {new})
  BY <1>4
<1>6. Len(x.toggles) = Len(slots) /\ \A t \in 1..Len(slots) : t # s => x.toggles[t] = slots[t]
  BY <1>3, <1>4, <1>5
<1> QED BY <1>4, <1>6 DEF s, x

LEMMA SlotAt ==
  ASSUME NEW m, Good(m), Unique(m), NEW t \in 1..Len(m.toggles)
  PROVE  Slot(m, m.toggles[t].key) = t
<1> DEFINE s == Slot(m, m.toggles[t].key)
<1>1. s # 0
  BY SlotIs
<1>2. s \in 1..Len(m.toggles) /\ m.toggles[s].key = m.toggles[t].key
  BY <1>1, SlotType, SlotIs
<1> HIDE DEF s
<1> QED BY <1>2, Zenon DEF Unique, s

\* toggle set finds the other toggles and leaves them where they are.
LEMMA ToggleSetOthers ==
  ASSUME NEW m, Good(m), Sound(m), NEW c, c.key \in Keys, c.blocks \in Seq(Assignments(Texts)), InPlaces(c),
         ToggleSet(m, c).ok
  PROVE  LET x == ToggleSet(m, c) IN
         /\ Slot(x, c.key) = ToggleSlot(m, c) /\ Slot(x, c.key) # 0
         /\ \A key : LET s == Slot(x, key) IN
              key # c.key /\ s # 0 => Slot(m, key) = s /\ BlocksKept(m, x, s)
<1> DEFINE x == ToggleSet(m, c)
           y == Cleared(m, c)
           s == ToggleSlot(m, c)
<1>1. Good(x) /\ Unique(m) /\ Unique(x)
  BY ToggleSetGood DEF Leaves, Sound
<1>2. Others(y, x, s)
  BY ToggleSetFills
<1>3. s \in 1..Len(y.toggles) /\ y.toggles[s].key = c.key
  BY ClearedGood, ClearedLeaves
<1>4. \A t \in 1..Len(y.toggles) : t # s => t \in 1..Len(m.toggles) /\ y.toggles[t] = m.toggles[t]
  BY ClearedSlots
<1> HIDE DEF x, y, s
<1>5. s \in 1..Len(x.toggles) /\ x.toggles[s].key = c.key
  BY <1>2, <1>3 DEF Others
<1>6. Slot(x, c.key) = s
  BY <1>1, <1>5, SlotAt
<1>7. s # 0
  <2>1. Len(x.toggles) \in Nat
    BY <1>1, SlotType
  <2> QED BY <1>5, <2>1
<1>8. ASSUME NEW key, key # c.key, Slot(x, key) # 0
      PROVE  Slot(m, key) = Slot(x, key) /\ BlocksKept(m, x, Slot(x, key))
  <2> DEFINE t == Slot(x, key)
  <2>1. t \in 1..Len(x.toggles) /\ x.toggles[t].key = key
    BY <1>1, <1>8, SlotType, SlotIs
  <2> HIDE DEF t
  <2>2. t # s /\ t \in 1..Len(y.toggles)
    BY <1>2, <1>5, <1>8, <2>1 DEF Others
  <2>3. t \in 1..Len(m.toggles) /\ x.toggles[t] = m.toggles[t]
    BY <1>2, <1>4, <2>2 DEF Others
  <2>4. Slot(m, key) = t
    BY <1>1, <2>1, <2>3, SlotAt
  <2> QED BY <2>3, <2>4 DEF BlocksKept, Entry, t
<1> QED BY <1>6, <1>7, <1>8 DEF x, s

-------------------------------------------------------------------------------
(* Commands that write everything once.                                        *)

LEMMA SequenceIsFunction == ASSUME NEW S, NEW q \in Seq(S) PROVE q \in [DOMAIN q -> S]
OBVIOUS

LEMMA FixedOnce ==
  ASSUME Fixed
  PROVE  /\ Apart
         /\ \A c \in AllCommands : c.do # "select" => c.if = <<>>
         /\ \A c, d \in AllCommands : c.do = "set" /\ d.do = "set" /\ c.name = d.name => c = d
         /\ \A c, d \in AllCommands : c.do = "toggle set" /\ d.do = "toggle set" /\ c.key = d.key => c = d
         /\ \A c \in AllCommands : c.do = "set" => c.value \notin DOMAIN Refers
         /\ \A c \in AllCommands : c.do = "toggle set" =>
              \A b \in DOMAIN c.blocks : \A v \in DOMAIN c.blocks[b] : c.blocks[b][v].value \notin DOMAIN Refers
<1>1. ASSUME NEW c \in AllCommands, NEW d \in AllCommands, c.do = "set", d.do = "set", c.name = d.name
      PROVE  c = d
  <2>1. NamesOf(c) \cap NamesOf(d) # {}
    BY <1>1 DEF NamesOf
  <2> QED BY <1>1, <2>1 DEF Fixed
<1>2. ASSUME NEW c \in AllCommands, NEW d \in AllCommands, c.do = "toggle set", d.do = "toggle set", c.key = d.key
      PROVE  c = d
  <2>1. KeysOf(c) \cap KeysOf(d) # {}
    BY <1>2 DEF KeysOf
  <2> QED BY <1>2, <2>1 DEF Fixed
<1> QED BY <1>1, <1>2 DEF Fixed

LEMMA SprintedLiteral ==
  ASSUME NEW m, NEW v, v \notin DOMAIN Refers
  PROVE  Sprinted(m, v) = v
<1>1. PICK f : SprintedRun(f, m, v)
  BY SprintedLoop
<1> DEFINE T == {n \in 0..10 : f[n] = v}
<1>2. 0 \in T
  BY <1>1 DEF SprintedRun
<1>3. ASSUME NEW n \in T, n < 10 PROVE n + 1 \in T
  <2>1. n + 1 \in 1..10 /\ (n + 1) - 1 = n
    BY <1>3
  <2>2. f[n + 1] = Replaced(m, f[n])
    BY <1>1, <2>1 DEF SprintedRun
  <2> QED BY <2>1, <2>2 DEF Replaced
<1>4. 10 \in T
  <2> HIDE DEF T
  <2>1. T \in SUBSET Nat
    BY DEF T
  <2>2. \A n \in T : n < 10 => n + 1 \in T
    BY <1>3
  <2>3. \A n \in 0..10 : n \in T
    BY <1>2, <2>1, <2>2, Induction
  <2> QED BY <2>3
<1> QED BY <1>1, <1>4 DEF SprintedRun

LEMMA SubstitutesLiterals ==
  ASSUME NEW m, NEW pairs \in Assignments(Texts), \A v \in DOMAIN pairs : pairs[v].value \notin DOMAIN Refers
  PROVE  Substitutes(m, pairs) = pairs
<1> DEFINE P == [name : Names, value : Texts]
<1>1. ASSUME NEW p \in P, p.value \notin DOMAIN Refers PROVE [p EXCEPT !.value = Sprinted(m, @)] = p
  <2>1. Sprinted(m, p.value) = p.value
    BY <1>1, SprintedLiteral
  <2> QED BY <2>1
<1> HIDE DEF P
<1>2. DOMAIN pairs = 1..Len(pairs) /\ pairs \in [1..Len(pairs) -> P]
  <2>1. pairs \in Seq(P)
    BY DEF P
  <2> QED BY <2>1
<1>3. \A v \in DOMAIN pairs : [pairs[v] EXCEPT !.value = Sprinted(m, @)] = pairs[v]
  BY <1>1, <1>2
<1>4. Substitutes(m, pairs) = [v \in DOMAIN pairs |-> pairs[v]]
  BY <1>3 DEF Substitutes
<1> QED BY <1>2, <1>4

\* exec_line() replaces nothing in them.
LEMMA SubstitutedFixed ==
  ASSUME Fixed, NEW m, NEW c \in AllCommands, c \in CommandsWith(Texts), c.do # "select"
  PROVE  Substituted(m, c) = c
<1> DEFINE A == Assignments(Texts)
           d == Substituted(m, c)
           new == Substitutes(m, c.if)
<1>1. \A pairs \in A : (\A v \in DOMAIN pairs : pairs[v].value \notin DOMAIN Refers) => Substitutes(m, pairs) = pairs
  BY SubstitutesLiterals
<1>2. new = c.if
  <2>1. c.if = <<>>
    BY FixedOnce
  <2>2. c.if \in A
    OBVIOUS
  <2>3. DOMAIN c.if = {}
    <3> DEFINE P == [name : Names, value : Texts]
    <3>1. c.if \in Seq(P)
      OBVIOUS
    <3> HIDE DEF P
    <3> QED BY <2>1, <3>1, NoElements
  <2> HIDE DEF A, new
  <2> QED BY <1>1, <2>2, <2>3 DEF new
<1> HIDE DEF A
<1>3. CASE c.do = "set"
  <2>1. d = [[c EXCEPT !.if = new] EXCEPT !.value = Sprinted(m, @)]
    BY <1>3 DEF Substituted, Substitutes
  <2>2. Sprinted(m, c.value) = c.value
    BY <1>3, FixedOnce, SprintedLiteral
  <2>3. c \in [do : {"set"}, name : Names, value : Texts, unset : BOOLEAN, if : A]
    BY <1>3 DEF A
  <2> HIDE DEF new, d
  <2>4. [c EXCEPT !.if = c.if] = c /\ [c EXCEPT !.value = c.value] = c
    BY <2>3
  <2> QED BY <1>2, <2>1, <2>2, <2>4 DEF d
<1>4. CASE c.do = "toggle set"
  <2> DEFINE blocks == [b \in DOMAIN c.blocks |-> Substitutes(m, c.blocks[b])]
  <2>1. d = [[c EXCEPT !.if = new] EXCEPT !.blocks = blocks]
    BY <1>4 DEF Substituted, Substitutes
  <2>2. c \in [do : {"toggle set"}, key : Keys, blocks : Seq(A), if : A]
    BY <1>4 DEF A
  <2>3. c.blocks \in [DOMAIN c.blocks -> A]
    BY <2>2, SequenceIsFunction
  <2>4. \A b \in DOMAIN c.blocks : \A v \in DOMAIN c.blocks[b] : c.blocks[b][v].value \notin DOMAIN Refers
    BY <1>4, FixedOnce
  <2>5. \A b \in DOMAIN c.blocks : Substitutes(m, c.blocks[b]) = c.blocks[b]
    BY <1>1, <2>3, <2>4
  <2>6. blocks = c.blocks
    BY <2>3, <2>5
  <2> HIDE DEF new, d, blocks
  <2>7. [c EXCEPT !.if = c.if] = c /\ [c EXCEPT !.blocks = c.blocks] = c
    BY <2>2
  <2> QED BY <1>2, <2>1, <2>6, <2>7 DEF d
<1>5. c.do \in {"set", "toggle set", "select"}
  OBVIOUS
<1> QED BY <1>3, <1>4, <1>5

-------------------------------------------------------------------------------
(* What commands leave that write everything once.                             *)

ToggleDone(m, c) == Slot(m, c.key) # 0 => ToggleIs(m, Slot(m, c.key), c)
\* Every command whose variable or toggle is there has left its texts.
Settled(m) ==
  \A c \in AllCommands : /\ c.do = "set" => SetDone(m, c)
                         /\ c.do = "toggle set" => ToggleDone(m, c)
\* The command has been run.
Present(m, c) ==
  /\ c.do = "set" => Index(m, c.name) # 0
  /\ c.do = "toggle set" => Slot(m, c.key) # 0

LEMMA SlotFound ==
  ASSUME NEW m, Good(m), NEW key, Slot(m, key) # 0
  PROVE  Slot(m, key) \in 1..Len(m.toggles) /\ m.toggles[Slot(m, key)].key = key
BY SlotType, SlotIs

LEMMA SetDoneStays ==
  ASSUME NEW m, NEW x, Good(m), Good(x), OneName(m), NEW N, Adds(m, x, N), NEW c, c.name \notin N, SetDone(m, c)
  PROVE  SetDone(x, c)
<1> SUFFICES ASSUME Index(x, c.name) # 0 PROVE IsAt(x, Value(x, c.name), c.value)
  BY DEF SetDone
<1> DEFINE name == c.name
<1>1. PICK j \in DOMAIN x.list : x.list[j].name = name
  BY IndexType
<1>2. j \in 1..Len(x.list)
  BY <1>1, ListType
<1>3. Index(m, name) # 0
  BY <1>1, <1>2 DEF Adds, Lists
<1>4. Value(x, name) = Value(m, name)
  BY <1>3, StaysListed DEF Adds
<1>5. IsAt(m, Value(m, name), c.value)
  BY <1>3 DEF SetDone
<1> HIDE DEF name
<1>6. IsAt(x, Value(m, name), c.value)
  BY <1>5 DEF Adds, TextsKept, IsAt
<1> QED BY <1>4, <1>6 DEF name

LEMMA ToggleDoneStays ==
  ASSUME NEW m, NEW x, Good(m), Good(x), NEW N, Adds(m, x, N), NEW c, c.blocks \in Seq(Assignments(Texts)),
         Slot(x, c.key) # 0 => Slot(m, c.key) = Slot(x, c.key) /\ BlocksKept(m, x, Slot(x, c.key)),
         ToggleDone(m, c)
  PROVE  ToggleDone(x, c)
<1> SUFFICES ASSUME Slot(x, c.key) # 0 PROVE ToggleIs(x, Slot(x, c.key), c)
  BY DEF ToggleDone
<1> DEFINE s == Slot(x, c.key)
<1>1. ToggleIs(m, s, c) /\ BlocksKept(m, x, s)
  BY DEF ToggleDone
<1> HIDE DEF s
<1>2. ToggleIs(x, s, c)
  BY <1>1, ToggleStays
<1> QED BY <1>2 DEF s

\* A step that shows texts that are there leaves all settled.
LEMMA FreeSettles ==
  ASSUME AllCommands \subseteq CommandsWith(Texts), Apart, NEW m, NEW x, Good(m), Good(x), Sound(m),
         Free(m, x), Settled(m)
  PROVE  Settled(x)
<1> SUFFICES ASSUME NEW c \in AllCommands
             PROVE  /\ c.do = "set" => SetDone(x, c)
                    /\ c.do = "toggle set" => ToggleDone(x, c)
  BY DEF Settled
<1>1. OneName(m) /\ Unique(m) /\ Adds(m, x, ToggleNames) /\ SlotsKept(m, x)
  BY DEF Sound, Free
<1>2. CASE c.do = "set"
  <2>1. c.name \notin ToggleNames
    <3>1. \A key, b, v : ~ Has(key, b, v, c.name)
      BY <1>2, AllAllowed DEF Allowed
    <3> QED BY <3>1 DEF ToggleNames
  <2>2. SetDone(m, c)
    BY <1>2 DEF Settled
  <2> QED BY <1>1, <1>2, <2>1, <2>2, SetDoneStays
<1>3. CASE c.do = "toggle set"
  <2>1. c.blocks \in Seq(Assignments(Texts)) /\ ToggleDone(m, c)
    BY <1>3 DEF Settled
  <2>2. ASSUME Slot(x, c.key) # 0 PROVE Slot(m, c.key) = Slot(x, c.key) /\ BlocksKept(m, x, Slot(x, c.key))
    <3> DEFINE key == c.key
               s == Slot(x, key)
    <3> HIDE DEF key
    <3>1. s \in 1..Len(x.toggles) /\ x.toggles[s].key = key
      BY <2>2, SlotFound DEF key
    <3> HIDE DEF s
    <3>2. s \in 1..Len(m.toggles) /\ m.toggles[s].key = key /\ BlocksKept(m, x, s)
      BY <1>1, <3>1 DEF SlotsKept
    <3>3. Slot(m, key) = s
      BY <1>1, <3>2, SlotAt
    <3> QED BY <3>2, <3>3 DEF s, key
  <2>3. ToggleDone(x, c)
    BY <1>1, <2>1, <2>2, ToggleDoneStays
  <2> QED BY <1>3, <2>3
<1> QED BY <1>2, <1>3

\* A set leaves all settled.
LEMMA SetSettles ==
  ASSUME AllCommands \subseteq CommandsWith(Texts), Fixed, NEW m, Good(m), Sound(m), m.ok, Settled(m),
         NEW c \in AllCommands, c.do = "set", NEW x, x = SetVar(m, c.name, c.value), x.ok
  PROVE  Settled(x) /\ Index(x, c.name) # 0 /\ (Index(m, c.name) # 0 => x.used = m.used)
<1> DEFINE name == c.name
           value == c.value
<1>1. name \in Names /\ value \in Texts
  OBVIOUS
<1>2. Good(x) /\ x.toggles = m.toggles
  BY <1>1, SetVarKeeps DEF Keeps
<1>3. OneName(m) /\ SetDone(m, c)
  BY DEF Sound, Settled
<1>4. /\ Adds(m, x, {name}) /\ Index(x, name) # 0 /\ IsAt(x, Value(x, name), value)
      /\ Index(m, name) # 0 => x.used = m.used
  <2>1. CASE Index(m, name) = 0
    BY <1>1, <1>3, <2>1, SetVarFirst
  <2>2. CASE Index(m, name) # 0
    <3>1. IsAt(m, Value(m, name), value)
      BY <1>3, <2>2 DEF SetDone
    <3> HIDE DEF name, value
    <3>2. x = SetVar(m, name, value)
      BY DEF name, value
    <3> DEFINE y == SetVar(m, name, value)
    <3>3. /\ Adds(m, y, {name}) /\ y.used = m.used
          /\ Index(y, name) # 0 /\ IsAt(y, Value(y, name), value)
      BY <1>1, <2>2, <3>1, SetVarAgain
    <3> QED BY <3>2, <3>3
  <2> QED BY <2>1, <2>2
<1>5. ASSUME NEW d \in AllCommands, d.do = "set" PROVE SetDone(x, d)
  <2>1. CASE d = c
    BY <1>4, <2>1 DEF SetDone
  <2>2. CASE d # c
    <3>1. d.name \notin {name}
      BY <1>5, <2>2, FixedOnce
    <3>2. SetDone(m, d)
      BY <1>5 DEF Settled
    <3> QED BY <1>2, <1>3, <1>4, <3>1, <3>2, SetDoneStays
  <2> QED BY <2>1, <2>2
<1>6. ASSUME NEW d \in AllCommands, d.do = "toggle set" PROVE ToggleDone(x, d)
  <2>1. d.blocks \in Seq(Assignments(Texts)) /\ ToggleDone(m, d)
    BY <1>6 DEF Settled
  <2>2. Slot(x, d.key) = Slot(m, d.key)
    BY <1>2 DEF Slot
  <2>3. BlocksKept(m, x, Slot(x, d.key))
    BY <1>2 DEF BlocksKept, Entry
  <2> QED BY <1>2, <1>4, <2>1, <2>2, <2>3, ToggleDoneStays
<1> QED BY <1>4, <1>5, <1>6 DEF Settled

\* A toggle set leaves all settled.
LEMMA ToggleSetSettles ==
  ASSUME AllCommands \subseteq CommandsWith(Texts), Fixed, NEW m, Good(m), Sound(m), Settled(m),
         NEW c \in AllCommands, c.do = "toggle set", NEW x, x = ToggleSet(m, c), x.ok
  PROVE  Settled(x) /\ Slot(x, c.key) # 0 /\ (Slot(m, c.key) # 0 => x.used = m.used)
<1> DEFINE s == ToggleSlot(m, c)
           K == NamesAt(c.key)
<1>1. c.key \in Keys /\ c.blocks \in Seq(Assignments(Texts))
  OBVIOUS
<1>2. InPlaces(c)
  BY FixedOnce, AllAllowed DEF Allowed
<1>3. /\ Adds(m, x, K) /\ ToggleIs(x, s, c)
      /\ Slot(m, c.key) # 0 /\ ToggleIs(m, s, c) => x.used = m.used
  BY <1>1, <1>2, ToggleSetFills
<1>4. /\ Slot(x, c.key) = s /\ Slot(x, c.key) # 0
      /\ \A key : key # c.key /\ Slot(x, key) # 0 =>
           Slot(m, key) = Slot(x, key) /\ BlocksKept(m, x, Slot(x, key))
  <2> DEFINE y == ToggleSet(m, c)
  <2>1. /\ Slot(y, c.key) = s /\ Slot(y, c.key) # 0
        /\ \A key : key # c.key /\ Slot(y, key) # 0 =>
             Slot(m, key) = Slot(y, key) /\ BlocksKept(m, y, Slot(y, key))
    BY <1>1, <1>2, ToggleSetOthers
  <2> QED BY <2>1
<1>5. Good(x) /\ OneName(m)
  BY <1>1, ToggleSetGood DEF Sound
<1> HIDE DEF K
<1>6. ASSUME NEW d \in AllCommands, d.do = "set" PROVE SetDone(x, d)
  <2>1. d.name \notin K
    <3>1. \A key, b, v : ~ Has(key, b, v, d.name)
      BY <1>6, FixedOnce, AllAllowed DEF Allowed
    <3> QED BY <3>1 DEF K, NamesAt
  <2>2. SetDone(m, d)
    BY <1>6 DEF Settled
  <2> QED BY <1>3, <1>5, <2>1, <2>2, SetDoneStays
<1>7. ASSUME NEW d \in AllCommands, d.do = "toggle set" PROVE ToggleDone(x, d)
  <2>1. CASE d = c
    BY <1>3, <1>4, <2>1 DEF ToggleDone
  <2>2. CASE d # c
    <3>1. d.key # c.key
      BY <1>7, <2>2, FixedOnce
    <3>2. d.blocks \in Seq(Assignments(Texts)) /\ ToggleDone(m, d)
      BY <1>7 DEF Settled
    <3>3. Slot(x, d.key) # 0 => Slot(m, d.key) = Slot(x, d.key) /\ BlocksKept(m, x, Slot(x, d.key))
      BY <1>4, <3>1
    <3> QED BY <1>3, <1>5, <3>2, <3>3, ToggleDoneStays
  <2> QED BY <2>1, <2>2
<1>8. ASSUME Slot(m, c.key) # 0 PROVE x.used = m.used
  <2>1. s = Slot(m, c.key)
    BY <1>8 DEF ToggleSlot
  <2>2. ToggleDone(m, c)
    BY DEF Settled
  <2> QED BY <1>3, <1>8, <2>1, <2>2 DEF ToggleDone
<1> QED BY <1>4, <1>6, <1>7, <1>8 DEF Settled

LEMMA PresentStays ==
  ASSUME NEW m, NEW x, Good(m), Good(x), NEW N, Changes(m, x, N),
         Len(m.toggles) <= Len(x.toggles), \A t \in 1..Len(m.toggles) : x.toggles[t].key = m.toggles[t].key,
         NEW c, Present(m, c)
  PROVE  Present(x, c)
<1>1. ASSUME c.do = "set" PROVE Index(x, c.name) # 0
  <2> DEFINE name == c.name
  <2>1. Index(m, name) # 0
    BY <1>1 DEF Present
  <2> HIDE DEF name
  <2>2. Index(x, name) # 0
    BY <2>1, StaysListed
  <2> QED BY <2>2 DEF name
<1>2. ASSUME c.do = "toggle set" PROVE Slot(x, c.key) # 0
  <2> DEFINE key == c.key
             s == Slot(m, key)
  <2>1. s # 0
    BY <1>2 DEF Present
  <2> HIDE DEF key
  <2>2. s \in 1..Len(m.toggles) /\ m.toggles[s].key = key /\ Len(x.toggles) \in Nat /\ Len(m.toggles) \in Nat
    BY <2>1, SlotFound, SlotType
  <2> HIDE DEF s
  <2>3. s \in 1..Len(x.toggles) /\ x.toggles[s].key = key
    BY <2>2
  <2>4. Slot(x, key) # 0
    BY <2>3, SlotIs
  <2> QED BY <2>4 DEF key
<1> QED BY <1>1, <1>2 DEF Present

\* A select never needs memory and lists no variable, with its triggers or without.
LEMMA SelectResult ==
  ASSUME Good(Memory), Sound(Memory), Apart, NEW c \in CommandsWith(Texts), c.do = "select"
  PROVE  Free(Memory, Result(c))
<1> DEFINE d == Substituted(Memory, c)
<1>1. d \in CommandsWith(Texts) /\ d.do = "select"
  BY SubstitutedType, SubstitutedTouches
<1>2. Result(c) = IF LeftOut(c) THEN Memory
                  ELSE IF d.if = <<>> THEN Plain(Memory, d, FALSE) ELSE Trigger(Memory, d)
  BY DEF Result
<1> HIDE DEF d
<1>3. d.picks \in Seq([key : Keys, block : Nat]) /\ Memory.ok
  BY <1>1 DEF Memory
<1>4. ASSUME NEW triggered
      PROVE  Good(Plain(Memory, d, triggered)) /\ Free(Memory, Plain(Memory, d, triggered))
  <2>1. Plain(Memory, d, triggered) = Select(Memory, d, triggered)
    BY <1>1 DEF Plain
  <2>2. Good(Select(Memory, d, triggered)) /\ Free(Memory, Select(Memory, d, triggered))
    BY <1>3, SelectFree
  <2> QED BY <2>1, <2>2
<1>5. ASSUME NEW x, Good(x), Free(Memory, x) PROVE Free(Memory, [x EXCEPT !.ok = TRUE])
  <2> DEFINE y == [x EXCEPT !.ok = TRUE]
  <2>1. /\ y.list = x.list /\ y.text = x.text /\ y.used = x.used /\ y.toggles = x.toggles
        /\ Good(y)
    BY <1>5 DEF Good
  <2> HIDE DEF y
  <2>2. Free(x, y)
    BY <1>5, <2>1, FreeAlike
  <2> QED BY <1>5, <2>1, <2>2, FreeOn DEF y
<1>6. Free(Memory, Fail(Memory))
  <2>1. /\ Fail(Memory).list = Memory.list /\ Fail(Memory).text = Memory.text
        /\ Fail(Memory).used = Memory.used /\ Fail(Memory).toggles = Memory.toggles
    BY DEF Fail, Good
  <2> QED BY <2>1, FreeAlike
<1>7. Free(Memory, Memory)
  BY FreeAlike
<1>8. Free(Memory, Trigger(Memory, d))
  BY <1>4, <1>5, <1>6, <1>7, Zenon DEF Trigger
<1> QED BY <1>2, <1>4, <1>7, <1>8, Zenon

\* What a command leaves of which no part failed: all is settled, nothing is gone, it
\* is there, and it took no memory if it was there before.
Leftover(x, c) ==
  /\ Good(x) /\ Settled(x)
  /\ \A d \in AllCommands : Present(Memory, d) => Present(x, d)
  /\ ~ LeftOut(c) => Present(x, c)
  /\ Present(Memory, c) => x.used = Memory.used

LEMMA ResultAgain ==
  ASSUME Good(Memory), Sound(Memory), Fixed, AllCommands \subseteq CommandsWith(Texts), Settled(Memory),
         NEW c \in AllCommands, Result(c).ok
  PROVE  Leftover(Result(c), c)
<1> DEFINE x == Result(c)
<1>1. c \in CommandsWith(Texts) /\ Apart /\ Memory.ok
  BY FixedOnce DEF Memory
<1>2. Good(x) /\ Leaves(Memory, x, Touched(c))
  BY <1>1, ResultGood DEF Does
<1>3. ASSUME NEW N, Changes(Memory, x, N), NEW d, Present(Memory, d) PROVE Present(x, d)
  <2> HIDE DEF x
  <2>1. Len(Memory.toggles) <= Len(x.toggles) /\ \A t \in 1..Len(Memory.toggles) : x.toggles[t].key = Memory.toggles[t].key
    BY <1>2 DEF Leaves
  <2> QED BY <1>2, <1>3, <2>1, PresentStays
<1>4. CASE x = Memory /\ (LeftOut(c) \/ Present(Memory, c))
  BY <1>2, <1>4 DEF Leftover
<1>5. CASE c.do = "select"
  <2>1. Free(Memory, x)
    BY <1>1, <1>5, SelectResult
  <2> HIDE DEF x
  <2>2. Settled(x)
    BY <1>1, <1>2, <2>1, FreeSettles
  <2>3. Changes(Memory, x, ToggleNames) /\ x.used = Memory.used
    BY <2>1 DEF Free, Adds
  <2>4. Present(x, c)
    BY <1>5 DEF Present
  <2> QED BY <1>2, <1>3, <2>2, <2>3, <2>4 DEF Leftover, x
<1>6. CASE c.do = "set"
  <2>1. x = IF c.unset /\ Index(Memory, c.name) # 0 THEN Memory ELSE SetVar(Memory, c.name, c.value)
    <3>1. Substituted(Memory, c) = c /\ c.if = <<>> /\ ~ LeftOut(c)
      BY <1>1, <1>6, SubstitutedFixed, FixedOnce DEF LeftOut
    <3> QED BY <1>6, <3>1 DEF Result, Plain
  <2>2. CASE x = Memory /\ Index(Memory, c.name) # 0
    BY <1>4, <1>6, <2>2 DEF Present
  <2>3. CASE x = SetVar(Memory, c.name, c.value)
    <3>1. c.name \in Names /\ c.value \in Texts
      BY <1>1, <1>6
    <3>2. Settled(x) /\ Index(x, c.name) # 0 /\ (Index(Memory, c.name) # 0 => x.used = Memory.used)
      BY <1>1, <1>6, <2>3, SetSettles
    <3>3. Changes(Memory, x, {c.name})
      <4>1. Changes(Memory, SetVar(Memory, c.name, c.value), {c.name})
        BY <1>1, <3>1, SetVarChanges
      <4> QED BY <2>3, <4>1
    <3> HIDE DEF x
    <3> QED BY <1>2, <1>3, <1>6, <3>2, <3>3 DEF Leftover, Present, x
  <2> QED BY <2>1, <2>2, <2>3
<1>7. CASE c.do = "toggle set"
  <2>1. (x = Memory /\ LeftOut(c)) \/ x = ToggleSet(Memory, c)
    <3>1. Substituted(Memory, c) = c /\ c.if = <<>>
      BY <1>1, <1>7, SubstitutedFixed, FixedOnce
    <3> QED BY <1>7, <3>1 DEF Result, Plain
  <2>2. CASE x = ToggleSet(Memory, c)
    <3>1. Settled(x) /\ Slot(x, c.key) # 0 /\ (Slot(Memory, c.key) # 0 => x.used = Memory.used)
      BY <1>1, <1>7, <2>2, ToggleSetSettles
    <3>2. Changes(Memory, x, NamesAt(c.key))
      <4>1. c.key \in Keys /\ c.blocks \in Seq(Assignments(Texts)) /\ InPlaces(c)
        BY <1>1, <1>7, AllAllowed DEF Allowed
      <4>2. ToggleSet(Memory, c).ok
        BY <2>2
      <4>3. Adds(Memory, ToggleSet(Memory, c), NamesAt(c.key))
        BY <4>1, <4>2, ToggleSetFills
      <4> QED BY <2>2, <4>3 DEF Adds
    <3> HIDE DEF x
    <3> QED BY <1>2, <1>3, <1>7, <3>1, <3>2 DEF Leftover, Present, x
  <2> QED BY <1>4, <2>1, <2>2
<1>8. c.do \in {"set", "toggle set", "select"}
  BY <1>1
<1> QED BY <1>5, <1>6, <1>7, <1>8

\* The key of a toggle takes no memory either.
LEMMA AfterKeyFree ==
  ASSUME KeyInv, Sound(Memory), NEW key, Slot(Memory, key) # 0
  PROVE  Good(AfterKey(key)) /\ Free(Memory, AfterKey(key))
<1> DEFINE s == Slot(Memory, key)
           old == toggle_data[s]
           b == NextBlock(old)
           m == AtBlock(Memory, s, b)
           y == DoBlock(m, s, b + 1)
<1>1. Good(Memory) /\ s \in 1..Len(Memory.toggles) /\ Memory.toggles = toggle_data /\ Memory.ok
  BY SlotFound DEF KeyInv, Inv, Memory
<1>2. old \in Slots(DOMAIN Memory.text, Len(Memory.list))
  BY <1>1, SlotParts
<1>3. m = [Memory EXCEPT !.toggles[s].current_block = b]
  BY <1>1 DEF AtBlock, SlotPut, Memory
<1>4. AfterKey(key) = IF b < old.nr_blocks THEN y ELSE m
  BY <1>3 DEF AfterKey
<1> HIDE DEF s
<1> HIDE DEF old
<1>5. /\ old.nr_blocks \in Nat /\ old.nr_blocks <= MAX_BLOCKS /\ old.current_block \in Nat
      /\ old.nr_blocks > 0 => old.current_block < old.nr_blocks
  BY <1>2, Constants DEF Slots, AtABlock
<1>6. b \in Nat /\ (old.nr_blocks > 0 => b < old.nr_blocks)
  BY <1>5 DEF NextBlock
<1>7. b < old.nr_blocks => b + 1 \in 1..MAX_BLOCKS
  BY <1>5, <1>6, Constants
<1> HIDE DEF b
<1>8. Good(m) /\ m.ok /\ m.list = Memory.list /\ Free(Memory, m)
  <2>1. Memory.toggles[s].nr_blocks > 0 => b < Memory.toggles[s].nr_blocks
    BY <1>1, <1>6 DEF old
  <2> QED BY <1>1, <1>6, <2>1, AtBlockFree
<1> HIDE DEF m
<1>9. s \in 1..Len(m.toggles) /\ Entered(m, s) /\ OneName(m)
  <2>1. Entered(Memory, s) /\ OneName(Memory)
    BY <1>1 DEF Sound
  <2>2. /\ Len(m.toggles) = Len(Memory.toggles) /\ m.toggles[s].key = Memory.toggles[s].key
        /\ BlocksKept(Memory, m, s)
    BY <1>1, <1>8 DEF Free, SlotsKept
  <2>3. Entered(m, s)
    BY <1>8, <2>1, <2>2 DEF Entered, BlocksKept, Entry
  <2> QED BY <1>1, <1>8, <2>1, <2>2, <2>3 DEF OneName
<1>10. CASE b < old.nr_blocks
  <2>1. Good(y) /\ Free(m, y)
    BY <1>7, <1>8, <1>9, <1>10, ShowingIsFree
  <2> QED BY <1>1, <1>4, <1>8, <1>10, <2>1, FreeOn
<1>11. CASE ~ (b < old.nr_blocks)
  BY <1>4, <1>8, <1>11
<1> QED BY <1>10, <1>11

\* A file that was read is settled: all its commands are there, and what they need.
Left ==
  /\ Settled(Memory)
  /\ \A cfg \in known : \A c \in Commands(files[cfg]) : Present(Memory, c)
  /\ phase = "reading" /\ process_what = "all" => \A i \in 1..(position - 1) : Present(Memory, File[i])
  /\ process_what = "triggers" => phase = "reading" /\ curr_cfg \in known
  /\ phase = "menu" => curr_cfg \in known
  /\ phase = "reading" /\ curr_cfg \in known => actpos = begun
AgainInv ==
  /\ ShowInv
  /\ known \subseteq {"root", "other"} /\ process_what \in {"all", "triggers"}
  /\ Fixed /\ ~ failed => Left

LEMMA AllTyped ==
  ASSUME Inv
  PROVE  /\ AllCommands \subseteq CommandsWith(Texts)
         /\ \A cfg \in {"root", "other"} : Commands(files[cfg]) \subseteq AllCommands
         /\ files.typed \subseteq AllCommands
<1> DEFINE V == CommandsWith(Values)
<1>1. V \subseteq CommandsWith(Texts)
  BY CommandsOfTexts
<1> HIDE DEF V
<1>2. files \in [root : Seq(V), other : Seq(V), typed : SUBSET V]
  BY ConfigurationsAssumption DEF Inv, V
<1>3. ASSUME NEW f \in Seq(V) PROVE Commands(f) \subseteq V
  BY <1>3 DEF Commands
<1>4. Commands(files.root) \subseteq V /\ Commands(files.other) \subseteq V /\ files.typed \subseteq V
  BY <1>2, <1>3
<1>5. AllCommands \subseteq CommandsWith(Texts)
  BY <1>1, <1>4 DEF AllCommands
<1> QED BY <1>5 DEF AllCommands

LEMMA SameFixed == ASSUME UNCHANGED files PROVE Fixed' <=> Fixed
BY SameCommands DEF Fixed, NamesOf, KeysOf

LEMMA StoredSettled ==
  ASSUME NEW m, Store(m), UNCHANGED files
  PROVE  /\ Settled(m) => Settled(Memory)'
         /\ \A c : Present(m, c) => Present(Memory, c)'
<1> DEFINE x == Memory'
<1>1. x.list = m.list /\ x.toggles = m.toggles /\ x.text = m.text
  BY DEF Memory, Store
<1>2. ASSUME NEW c, Present(m, c) PROVE Present(Memory, c)'
  <2> HIDE DEF x
  <2>1. Present(x, c)
    BY <1>1, <1>2 DEF Present, Index, Slot
  <2> QED BY <2>1 DEF x, Present, Index, Slot
<1>3. ASSUME Settled(m) PROVE Settled(Memory)'
  <2> HIDE DEF x
  <2>1. Settled(x)
    <3>1. /\ \A name : Index(x, name) = Index(m, name) /\ Value(x, name) = Value(m, name)
          /\ \A key : Slot(x, key) = Slot(m, key)
      BY <1>1 DEF Index, Value, Slot
    <3>2. \A a, t : IsAt(m, a, t) => IsAt(x, a, t)
      BY <1>1 DEF IsAt
    <3>3. \A s, c : ToggleIs(m, s, c) => ToggleIs(x, s, c)
      BY <1>1, <3>1, <3>2 DEF ToggleIs, BlockIs, EntryIs, Entry
    <3> QED BY <1>3, <3>1, <3>2, <3>3 DEF Settled, SetDone, ToggleDone
  <2> QED BY <2>1, SameCommands DEF x, Settled, SetDone, ToggleDone, ToggleIs, BlockIs, EntryIs, Entry,
                                    IsAt, Value, Index, Slot
<1> QED BY <1>2, <1>3

LEMMA EmptySettled == ASSUME NEW m, m.list = <<>>, m.toggles = <<>> PROVE Settled(m)
<1>1. \A name : Index(m, name) = 0
  BY DEF Index
<1>2. \A key : Slot(m, key) = 0
  BY DEF Slot
<1> QED BY <1>1, <1>2 DEF Settled, SetDone, ToggleDone

LEMMA AgainInit == Init => AgainInv
<1> SUFFICES ASSUME Init PROVE AgainInv
  OBVIOUS
<1>1. Settled(Memory)
  <2>1. Memory.list = <<>> /\ Memory.toggles = <<>>
    BY DEF Init, Memory
  <2> QED BY <2>1, EmptySettled
<1>2. 1..(position - 1) = {}
  BY DEF Init
<1>3. Left
  BY <1>1, <1>2 DEF Init, Left
<1> QED BY <1>3, ShowInit DEF Init, AgainInv

\* A command is run: what was there is there.
LEMMA RunAgain ==
  ASSUME ShowInv, Fixed, ~ failed, ~ failed', Settled(Memory), NEW c \in AllCommands, Run(c), UNCHANGED files
  PROVE  /\ Settled(Memory)'
         /\ \A d \in AllCommands : Present(Memory, d) => Present(Memory, d)'
         /\ ~ LeftOut(c) => Present(Memory, c)'
         /\ Present(Memory, c) => actpos' = actpos
<1> DEFINE r == Result(c)
<1>1. r.ok /\ Store(r)
  <2>1. failed' = (failed \/ ~ r.ok)
    BY DEF Run
  <2>2. r.ok
    BY <2>1, Zenon
  <2> QED BY <2>2 DEF Run
<1>2. Good(Memory) /\ Sound(Memory) /\ AllCommands \subseteq CommandsWith(Texts)
  BY AllTyped, FixedOnce DEF ShowInv, KeyInv, Inv
<1>3. Leftover(r, c)
  BY <1>1, <1>2, ResultAgain
<1> HIDE DEF r
<1>4. /\ Settled(r) /\ (~ LeftOut(c) => Present(r, c)) /\ (Present(Memory, c) => r.used = Memory.used)
      /\ \A d \in AllCommands : Present(Memory, d) => Present(r, d)
  BY <1>3 DEF Leftover
<1>5. Settled(Memory)' /\ \A d : Present(r, d) => Present(Memory, d)'
  BY <1>1, <1>4, StoredSettled
<1>6. actpos' = r.used /\ Memory.used = actpos
  BY <1>1 DEF Store, Memory
<1> QED BY <1>4, <1>5, <1>6

\* Nothing is done to the memory, or nothing that counts here.
LEMMA StoredAgain ==
  ASSUME Settled(Memory), UNCHANGED files, NEW m, Store(m),
         m.list = Memory.list, m.text = Memory.text, m.toggles = Memory.toggles
  PROVE  Settled(Memory)' /\ \A d : Present(Memory, d) => Present(Memory, d)'
<1>1. ASSUME NEW x, x.list = m.list, x.text = m.text, x.toggles = m.toggles
      PROVE  (Settled(x) => Settled(m)) /\ \A d : Present(x, d) => Present(m, d)
  <2>1. /\ \A name : Index(x, name) = Index(m, name) /\ Value(x, name) = Value(m, name)
        /\ \A key : Slot(x, key) = Slot(m, key)
    BY <1>1 DEF Index, Value, Slot
  <2>2. \A a, t : IsAt(x, a, t) => IsAt(m, a, t)
    BY <1>1 DEF IsAt
  <2>3. \A s, c : ToggleIs(x, s, c) => ToggleIs(m, s, c)
    BY <1>1, <2>1, <2>2 DEF ToggleIs, BlockIs, EntryIs, Entry
  <2> QED BY <2>1, <2>2, <2>3 DEF Settled, SetDone, ToggleDone, Present
<1>2. Settled(m) /\ \A d : Present(Memory, d) => Present(m, d)
  BY <1>1
<1> QED BY <1>2, StoredSettled

LEMMA SameAgain ==
  ASSUME Settled(Memory), UNCHANGED <<mem, files>>
  PROVE  Settled(Memory)' /\ \A d : Present(Memory, d) => Present(Memory, d)'
<1>1. Store(Memory)
  BY DEF Store, Memory, mem
<1> QED BY <1>1, StoredAgain

LEMMA AgainLine == ASSUME AgainInv, Fixed, ~ failed, ~ failed', Line PROVE Left'
<1>1. ShowInv /\ Inv /\ Left /\ curr_cfg \in {"root", "other"} /\ position \in Nat \ {0}
  BY DEF AgainInv, ShowInv, KeyInv, Inv
<1>2. UNCHANGED <<files, curr_cfg, process_what, known, begun>> /\ position' = position + 1
  BY DEF Line
<1>3. position \in DOMAIN File /\ DOMAIN File = 1..Len(File)
  <2>1. DOMAIN File = 1..Len(File) /\ Len(File) \in Nat
    BY <1>1, CommandsTyped
  <2> QED BY <1>1, <2>1 DEF Line
<1>4. Commands(files[curr_cfg]) \subseteq AllCommands /\ \A i \in DOMAIN File : File[i] \in Commands(files[curr_cfg])
  BY <1>1, AllTyped DEF Commands, File
<1>5. PICK c \in AllCommands : c = File[position]
  BY <1>3, <1>4
<1>6. Left /\ curr_cfg \in known => Present(Memory, c)
  BY <1>3, <1>4, <1>5 DEF Left
<1>7. phase = "reading" /\ Run(c)
  BY <1>5 DEF Line
<1>8. /\ Settled(Memory)'
      /\ \A d \in AllCommands : Present(Memory, d) => Present(Memory, d)'
      /\ ~ LeftOut(c) => Present(Memory, c)'
      /\ Present(Memory, c) => actpos' = actpos
  BY <1>1, <1>2, <1>7, RunAgain DEF Left
<1>9. (\A cfg \in known : \A d \in Commands(files[cfg]) : Present(Memory, d))'
  <2>1. \A cfg \in known : \A d \in Commands(files[cfg]) : d \in AllCommands /\ Present(Memory, d)
    BY <1>1, AllTyped DEF Left, AgainInv
  <2> QED BY <1>2, <1>8, <2>1 DEF Commands
<1>10. (phase = "reading" /\ process_what = "all" => \A i \in 1..(position - 1) : Present(Memory, File[i]))'
  <2> SUFFICES ASSUME process_what = "all", NEW i \in 1..position PROVE Present(Memory, File[i])'
    BY <1>1, <1>2
  <2>1. File' = File
    BY <1>2 DEF File
  <2>2. CASE i = position
    <3>1. ~ LeftOut(c)
      BY DEF LeftOut
    <3>2. Present(Memory, c)'
      BY <1>8, <3>1
    <3> QED BY <1>5, <2>1, <2>2, <3>2 DEF Present
  <2>3. CASE i # position
    <3>1. i \in 1..(position - 1) /\ i \in DOMAIN File
      BY <1>1, <1>3, <2>3
    <3>2. Present(Memory, File[i])
      BY <1>1, <1>7, <3>1 DEF Left
    <3>3. File[i] \in AllCommands
      BY <1>4, <3>1
    <3>4. PICK d \in AllCommands : d = File[i]
      BY <3>3
    <3>5. Present(Memory, d)'
      BY <1>8, <3>2, <3>4
    <3>6. d = File'[i]
      BY <2>1, <3>4
    <3> QED BY <3>5, <3>6 DEF Present
  <2> QED BY <2>2, <2>3
<1>11. (process_what = "triggers" => phase = "reading" /\ curr_cfg \in known)'
  <2>1. failed' = (failed \/ ~ Result(c).ok)
    BY <1>7 DEF Run
  <2>2. phase' = "reading"
    BY <1>5, <2>1, Zenon DEF Line
  <2> QED BY <1>1, <1>2, <2>2 DEF Left
<1>12. (phase = "menu" => curr_cfg \in known)'
  BY DEF Line
<1>13. (phase = "reading" /\ curr_cfg \in known => actpos = begun)'
  BY <1>1, <1>2, <1>6, <1>7, <1>8 DEF Left
<1> QED BY <1>8, <1>9, <1>10, <1>11, <1>12, <1>13 DEF Left

LEMMA AgainTyped ==
  ASSUME AgainInv, Fixed, ~ failed, ~ failed', NEW c \in files.typed, Typed(c)
  PROVE  Left'
<1>1. ShowInv /\ Inv /\ Left
  BY DEF AgainInv, ShowInv, KeyInv
<1>2. UNCHANGED <<files, curr_cfg, process_what, phase, known, begun>> /\ phase = "cmdline" /\ Run(c)
  BY DEF Typed
<1>3. c \in AllCommands
  BY <1>1, AllTyped
<1>4. Settled(Memory)' /\ \A d \in AllCommands : Present(Memory, d) => Present(Memory, d)'
  BY <1>1, <1>2, <1>3, RunAgain DEF Left
<1>5. (\A cfg \in known : \A d \in Commands(files[cfg]) : Present(Memory, d))'
  <2>1. \A cfg \in known : \A d \in Commands(files[cfg]) : d \in AllCommands /\ Present(Memory, d)
    BY <1>1, AllTyped DEF Left, AgainInv
  <2> QED BY <1>2, <1>4, <2>1 DEF Commands
<1> QED BY <1>1, <1>2, <1>4, <1>5 DEF Left

LEMMA AgainShowMenu == ASSUME AgainInv, Fixed, ~ failed, ShowMenu PROVE Left'
<1>1. ShowInv /\ Inv /\ Left /\ curr_cfg \in {"root", "other"} /\ position \in Nat \ {0}
  BY DEF AgainInv, ShowInv, KeyInv, Inv
<1>2. /\ UNCHANGED <<variable_list, store, actpos, toggle_data, files, curr_cfg, begun>>
      /\ phase = "reading" /\ phase' = "menu" /\ process_what' = "all" /\ known' = known \cup {curr_cfg}
      /\ position > Len(File)
  BY DEF ShowMenu
<1>3. Settled(Memory)' /\ \A d : Present(Memory, d) => Present(Memory, d)'
  <2>1. Settled(Memory)
    BY <1>1 DEF Left
  <2> QED BY <1>2, <2>1, ShowMenuStores, StoredAgain
<1>4. \A d \in Commands(files[curr_cfg]) : Present(Memory, d)
  <2>1. CASE process_what = "all"
    <3>1. DOMAIN File = 1..Len(File) /\ Len(File) \in Nat
      BY <1>1, CommandsTyped
    <3>2. \A i \in DOMAIN File : i \in 1..(position - 1)
      BY <1>1, <1>2, <3>1
    <3>3. \A i \in DOMAIN File : Present(Memory, File[i])
      BY <1>1, <1>2, <2>1, <3>2 DEF Left
    <3> QED BY <3>3 DEF Commands, File
  <2>2. CASE process_what = "triggers"
    BY <1>1, <2>2 DEF Left
  <2> QED BY <2>1, <2>2 DEF AgainInv
<1>5. (\A cfg \in known : \A d \in Commands(files[cfg]) : Present(Memory, d))'
  <2>1. \A cfg \in known \cup {curr_cfg} : \A d \in Commands(files[cfg]) : Present(Memory, d)
    BY <1>1, <1>4 DEF Left
  <2> QED BY <1>2, <1>3, <2>1 DEF Commands
<1> QED BY <1>2, <1>3, <1>5 DEF Left

LEMMA AgainToggleKey ==
  ASSUME AgainInv, Fixed, ~ failed, NEW key \in Keys, ToggleKey(key) PROVE Left'
<1> DEFINE x == AfterKey(key)
<1>1. ShowInv /\ KeyInv /\ Inv /\ Left /\ Good(Memory) /\ Sound(Memory) /\ AllCommands \subseteq CommandsWith(Texts)
  BY AllTyped, FixedOnce DEF AgainInv, ShowInv, KeyInv, Inv
<1>2. /\ phase = "menu" /\ Slot(Memory, key) # 0 /\ Store(x)
      /\ UNCHANGED <<files, curr_cfg, known>>
      /\ \/ /\ phase' = "reading" /\ process_what' = "triggers" /\ begun' = actpos
         \/ UNCHANGED <<phase, process_what>>
  BY DEF ToggleKey
<1>3. Good(x) /\ Free(Memory, x)
  BY <1>1, <1>2, AfterKeyFree
<1> HIDE DEF x
<1>4. Settled(x)
  BY <1>1, <1>3, FixedOnce, FreeSettles DEF Left
<1>5. \A d : Present(Memory, d) => Present(x, d)
  <2>1. Changes(Memory, x, ToggleNames) /\ SlotsKept(Memory, x)
    BY <1>3 DEF Free, Adds
  <2>2. Len(x.toggles) = Len(Memory.toggles) /\ Len(Memory.toggles) \in Nat
    BY <1>1, <2>1, ToggleDomain DEF SlotsKept
  <2>3. \A t \in 1..Len(Memory.toggles) : x.toggles[t].key = Memory.toggles[t].key
    BY <2>1 DEF SlotsKept
  <2>4. Len(Memory.toggles) <= Len(x.toggles)
    BY <2>2
  <2> SUFFICES ASSUME NEW d, Present(Memory, d) PROVE Present(x, d)
    OBVIOUS
  <2> QED BY <1>1, <1>3, <2>1, <2>3, <2>4, PresentStays
<1>6. Settled(Memory)' /\ \A d : Present(x, d) => Present(Memory, d)'
  BY <1>2, <1>4, StoredSettled
<1>7. actpos' = actpos
  BY <1>2, <1>3 DEF Store, Free, Memory
<1>8. (\A cfg \in known : \A d \in Commands(files[cfg]) : Present(Memory, d))'
  <2>1. \A cfg \in known : \A d \in Commands(files[cfg]) : Present(Memory, d)
    BY <1>1 DEF Left
  <2> QED BY <1>2, <1>5, <1>6, <2>1 DEF Commands
<1> QED BY <1>1, <1>2, <1>6, <1>7, <1>8 DEF Left

\* A file is read for all it says.
LEMMA AgainRead ==
  ASSUME AgainInv, Fixed, ~ failed', NEW cfg \in {"root", "other"}, NEW what, Read(cfg, what),
         ~ failed => what # "triggers", UNCHANGED files
  PROVE  Left'
<1>1. position' = 1 /\ phase' = "reading" /\ process_what' = what /\ begun' = actpos' /\ curr_cfg' = cfg
  BY DEF Read
<1>2. 1..(position' - 1) = {}
  BY <1>1
<1>3. CASE Emptied(cfg, what)
  <2>1. known' = {} /\ variable_list' = <<>> /\ toggle_data' = <<>> /\ what = "all"
    BY <1>3 DEF Read, EmptyStore, Emptied
  <2>2. Settled(Memory)'
    <3> DEFINE m == [list |-> <<>>, toggles |-> <<>>, text |-> store', used |-> actpos', vector |-> vector',
                     wild |-> wild']
    <3>1. m.list = <<>> /\ m.toggles = <<>> /\ Store(m)
      BY <2>1 DEF Store
    <3> HIDE DEF m
    <3>2. Settled(m)
      BY <3>1, EmptySettled
    <3> QED BY <3>1, <3>2, StoredSettled
  <2> QED BY <1>1, <1>2, <2>1, <2>2 DEF Left
<1>4. CASE ~ Emptied(cfg, what)
  <2>1. UNCHANGED <<mem, failed, known>>
    BY <1>4 DEF Read
  <2>2. Left /\ what # "triggers"
    BY <2>1 DEF AgainInv
  <2>3. Settled(Memory)' /\ \A d : Present(Memory, d) => Present(Memory, d)'
    BY <2>1, <2>2, SameAgain DEF Left
  <2>4. (\A k \in known : \A d \in Commands(files[k]) : Present(Memory, d))'
    <3>1. \A k \in known : \A d \in Commands(files[k]) : Present(Memory, d)
      BY <2>2 DEF Left
    <3> QED BY <2>1, <2>3, <3>1 DEF Commands
  <2> QED BY <1>1, <1>2, <2>2, <2>3, <2>4 DEF Left
<1> QED BY <1>3, <1>4

\* The phase is another at most.
LEMMA AgainSame ==
  ASSUME AgainInv, Fixed, ~ failed,
         UNCHANGED <<mem, files, curr_cfg, position, process_what, known, begun>>,
         phase' = phase \/ (phase = "menu" /\ phase' = "cmdline")
  PROVE  Left'
<1>1. Left
  BY DEF AgainInv
<1>2. Settled(Memory)' /\ \A d : Present(Memory, d) => Present(Memory, d)'
  BY <1>1, SameAgain DEF Left
<1>3. (\A cfg \in known : \A d \in Commands(files[cfg]) : Present(Memory, d))'
  <2>1. \A cfg \in known : \A d \in Commands(files[cfg]) : Present(Memory, d)
    BY <1>1 DEF Left
  <2> QED BY <1>2, <2>1 DEF Commands
<1>4. (phase = "reading" /\ process_what = "all" => \A i \in 1..(position - 1) : Present(Memory, File[i]))'
  <2> SUFFICES ASSUME phase = "reading", process_what = "all", NEW i \in 1..(position - 1)
               PROVE  Present(Memory, File[i])'
    BY Zenon
  <2>1. Present(Memory, File[i]) /\ File' = File
    BY <1>1 DEF Left, File
  <2>2. PICK d : d = File[i]
    OBVIOUS
  <2>3. Present(Memory, d)' /\ d = File'[i]
    BY <1>2, <2>1, <2>2
  <2> QED BY <2>3 DEF Present
<1>5. actpos' = actpos
  BY DEF mem
<1> QED BY <1>1, <1>2, <1>3, <1>4, <1>5 DEF Left

LEMMA AgainStep == AgainInv /\ [Next]_vars => AgainInv'
<1> SUFFICES ASSUME AgainInv, [Next]_vars PROVE AgainInv'
  OBVIOUS
<1>1. ShowInv' /\ ShowInv /\ curr_cfg \in {"root", "other"}
  BY ShowStep DEF AgainInv, ShowInv, KeyInv, Inv
<1>2. files' = files
  BY DEF Next, Input, Line, ShowMenu, OtherKey, ToggleKey, Configfile, Leave, Escape, Typed, vars, reading
<1>3. (known \subseteq {"root", "other"} /\ process_what \in {"all", "triggers"})'
  BY <1>1 DEF AgainInv, Next, Input, Line, ShowMenu, OtherKey, ToggleKey, Configfile, Leave, Escape,
              Typed, Read, vars, reading, ghosts
<1> SUFFICES ASSUME Fixed, ~ failed' PROVE Left'
  BY <1>1, <1>2, <1>3, SameFixed DEF AgainInv
<1>4. CASE Line
  <2>1. failed' = (failed \/ ~ Result(File[position]).ok)
    BY <1>4 DEF Line, Run
  <2>2. ~ failed
    BY <2>1, Zenon
  <2> QED BY <1>4, <2>2, AgainLine
<1>5. CASE ShowMenu
  <2>1. ~ failed
    BY <1>5 DEF ShowMenu
  <2> QED BY <1>5, <2>1, AgainShowMenu
<1>6. ASSUME NEW key \in Keys, OtherKey(key) PROVE Left'
  BY <1>6, AgainSame DEF OtherKey
<1>7. ASSUME NEW key \in Keys, ToggleKey(key) PROVE Left'
  <2>1. ~ failed
    BY <1>7 DEF ToggleKey
  <2> QED BY <1>7, <2>1, AgainToggleKey
<1>8. ASSUME NEW cfg \in {"root", "other"}, Configfile(cfg) PROVE Left'
  BY <1>2, <1>8, AgainRead DEF Configfile
<1>9. CASE Escape
  BY <1>9, AgainSame DEF Escape
<1>10. ASSUME NEW cfg \in {"root", "other"}, Leave(cfg) PROVE Left'
  <2>1. ~ failed => process_what # "triggers"
    BY <1>10 DEF AgainInv, Left, Leave
  <2> QED BY <1>2, <1>10, <2>1, AgainRead DEF Leave
<1>11. ASSUME NEW c \in files.typed, Typed(c) PROVE Left'
  <2>1. failed' = (failed \/ ~ Result(c).ok)
    BY <1>11 DEF Typed, Run
  <2>2. ~ failed
    BY <2>1, Zenon
  <2> QED BY <1>11, <2>2, AgainTyped
<1>12. CASE UNCHANGED vars
  BY <1>12, AgainSame DEF vars, reading, ghosts
<1> QED BY <1>4, <1>5, <1>6, <1>7, <1>8, <1>9, <1>10, <1>11, <1>12 DEF Next, Input

\* A file that was read to its end costs nothing when it is read again
\* (process_var() and var_set() find what is there), for its triggers after a key or
\* because its menu is entered again, whatever was pressed, selected and typed
\* between, where no command failed and none writes what another writes.
THEOREM AgainIsFree == Spec => []AgainCostsNothing
<1>1. AgainInv => AgainCostsNothing
  BY DEF AgainInv, Left, AgainCostsNothing
<1> QED BY <1>1, AgainInit, AgainStep, PTL DEF Spec

===============================================================================
