------------------------------ MODULE MenuProofs ------------------------------
(***************************************************************************)
(* Proofs about Menu: the items of the menu are the file's, the keys stay  *)
(* among them, and backspace leads back, for all files, keys, edits and    *)
(* sizes of the nodes.                                                     *)
(***************************************************************************)
EXTENDS Menu, TLAPS, WellFoundedInduction

ScriptFields == {"kind", "size", "num", "scr", "next"}
StringFields == {"kind", "size", "cmd", "next"}
IsScriptNode(x) == DOMAIN x = ScriptFields /\ x.kind = "script" /\ x.size \in Nat /\ x.size >= ScriptSize
IsStringNode(x) == DOMAIN x = StringFields /\ x.kind = "string"

\* The arena ends at menu_len.
Arena ==
  /\ menu_len \in Nat
  /\ \A a \in DOMAIN arena : a \in Nat /\ a < menu_len /\ (IsScriptNode(arena[a]) \/ IsStringNode(arena[a]))

\* The scripts are at the addresses sa, their commands at ca.
ScriptAt(sa, ca, n) ==
  /\ sa[n] \in DOMAIN arena /\ IsScriptNode(arena[sa[n]])
  /\ arena[sa[n]].num = Len(scripts[n])
  /\ arena[sa[n]].next = IF n = Len(scripts) THEN None ELSE sa[n + 1]
  /\ Len(scripts[n]) > 0 => arena[sa[n]].scr = ca[n][1]
StringAt(ca, n, k) ==
  /\ ca[n][k] \in DOMAIN arena /\ IsStringNode(arena[ca[n][k]])
  /\ arena[ca[n][k]].cmd = scripts[n][k]
  /\ k < Len(scripts[n]) => arena[ca[n][k]].next = ca[n][k + 1]
Chains(sa, ca) ==
  /\ \A n \in 1..Len(scripts) : ScriptAt(sa, ca, n)
  /\ \A n \in 1..Len(scripts) : \A k \in 1..Len(scripts[n]) : StringAt(ca, n, k)
  /\ \A n, m \in 1..Len(scripts) : sa[n] = sa[m] => n = m
  /\ \A n, m \in 1..Len(scripts) : \A k \in 1..Len(scripts[n]), j \in 1..Len(scripts[m]) :
       ca[n][k] = ca[m][j] => n = m /\ k = j

\* While the file is read: where the last script is, and that the command linked next
\* is the last of its script or none of this file's.
Ends(sa, ca) ==
  /\ num_items = Len(scripts)
  /\ sc_prev = IF Len(scripts) = 0 THEN None ELSE sa[Len(scripts)]
  /\ \A n \in 1..Len(scripts) : \A k \in 1..Len(scripts[n]) : st_prev = ca[n][k] => k = Len(scripts[n])
  /\ Len(scripts) > 0 /\ Len(scripts[Len(scripts)]) > 0 => st_prev = ca[Len(scripts)][Len(scripts[Len(scripts)])]
First(sa) == menu_first = IF Len(scripts) = 0 THEN None ELSE sa[1]

Lists ==
  /\ Arena
  /\ \E sa, ca : Chains(sa, ca) /\ First(sa) /\ (where = "reading" => Ends(sa, ca))

\* What is configured.
Scripts == scripts \in Seq(ToSet(scripts)) /\ \A n \in 1..Len(scripts) : IsScript(scripts[n], DOMAIN files)
Config ==
  /\ files \in Machines
  /\ curr_cfg \in DOMAIN files /\ (prev_cfg \in DOMAIN files \/ prev_cfg = None) /\ shown \in DOMAIN files
  /\ menu_nest_lvl \in Nat /\ default_item \in Int /\ line \in Nat \ {0}
  /\ Scripts

Item ==
  /\ item \in Int
  /\ where = "menu" =>
       /\ num_items + 1 = Len(scripts) /\ num_items \in Nat /\ screen_items \in Nat \ {0}
       /\ ~ astray => item \in 0..num_items
  /\ where = "crashed" => astray

Return == where # "booted" /\ parent # None => prev_cfg = parent /\ menu_nest_lvl > 0

Inv == Config /\ Item /\ Return /\ (~ struck => Lists)

-------------------------------------------------------------------------------
(* Numbers and lists.                                                          *)

\* Of some natural numbers, one is the lowest.
LEMMA Least == ASSUME NEW S \in SUBSET Nat, S # {} PROVE \E i \in S : \A j \in S : i <= j
<1>1. PICK i \in S : \A j \in S : ~ (<<j, i>> \in OpToRel(<, Nat))
  BY NatLessThanWellFounded, WFMin
<1>2. \A j \in S : ~ (j < i)
  BY <1>1, Zenon DEF OpToRel
<1>3. \A j \in S : i <= j
  BY <1>2
<1> QED BY <1>3

LEMMA Induction ==
  ASSUME NEW N \in Nat, NEW T \in SUBSET Nat, 0 \in T, \A n \in T : n < N => n + 1 \in T
  PROVE  \A n \in 0..N : n \in T
<1> DEFINE out == {n \in Nat : n <= N /\ n \notin T}
<1> SUFFICES ASSUME out # {} PROVE FALSE
  OBVIOUS
<1>1. PICK x \in out : \A y \in out : x <= y
  <2>1. out \in SUBSET Nat
    OBVIOUS
  <2> HIDE DEF out
  <2> QED BY <2>1, Least
<1>2. x # 0 /\ x - 1 \in Nat /\ x - 1 <= N /\ ~ (x <= x - 1)
  OBVIOUS
<1>3. x - 1 \notin out
  BY <1>1, <1>2
<1> QED BY <1>2, <1>3

LEMMA ListIs == ASSUME NEW q, q \in Seq(ToSet(q)) PROVE Len(q) \in Nat /\ DOMAIN q = 1..Len(q) /\ q = [i \in 1..Len(q) |-> q[i]]
OBVIOUS

LEMMA ListOfFunction ==
  ASSUME NEW n \in Nat, NEW q, q = [i \in 1..n |-> q[i]]
  PROVE  q \in Seq(ToSet(q)) /\ Len(q) = n
<1>1. q \in [1..n -> ToSet(q)]
  BY DEF ToSet
<1> QED BY <1>1

\* A list all of whose members have a property.
LEMMA AppendIs ==
  ASSUME NEW q, q \in Seq(ToSet(q)), NEW x
  PROVE  /\ Append(q, x) \in Seq(ToSet(Append(q, x))) /\ Len(Append(q, x)) = Len(q) + 1 /\ Len(q) \in Nat
         /\ \A i \in 1..(Len(q) + 1) : Append(q, x)[i] = IF i = Len(q) + 1 THEN x ELSE q[i]
<1>1. q \in Seq(ToSet(q) \cup {x})
  OBVIOUS
<1> DEFINE r == Append(q, x)
<1>2. /\ r \in Seq(ToSet(q) \cup {x}) /\ Len(r) = Len(q) + 1 /\ Len(q) \in Nat
      /\ \A i \in 1..(Len(q) + 1) : r[i] = IF i = Len(q) + 1 THEN x ELSE q[i]
  BY <1>1
<1> HIDE DEF r
<1> DEFINE n == Len(q) + 1
<1>3. n \in Nat /\ r = [i \in 1..n |-> r[i]]
  BY <1>2
<1> HIDE DEF n
<1>4. r \in Seq(ToSet(r))
  BY <1>3, ListOfFunction
<1> QED BY <1>2, <1>4 DEF r

LEMMA ConcatIs ==
  ASSUME NEW a, a \in Seq(ToSet(a)), NEW b, b \in Seq(ToSet(b))
  PROVE  /\ a \o b \in Seq(ToSet(a \o b)) /\ Len(a \o b) = Len(a) + Len(b)
         /\ \A i \in 1..Len(a) : (a \o b)[i] = a[i]
         /\ \A i \in (Len(a) + 1)..(Len(a) + Len(b)) : (a \o b)[i] = b[i - Len(a)]
<1>1. a \in Seq(ToSet(a) \cup ToSet(b)) /\ b \in Seq(ToSet(a) \cup ToSet(b))
  OBVIOUS
<1> DEFINE r == a \o b
<1>2. /\ r \in Seq(ToSet(a) \cup ToSet(b)) /\ Len(r) = Len(a) + Len(b) /\ Len(a) \in Nat /\ Len(b) \in Nat
      /\ \A i \in 1..Len(a) : r[i] = a[i]
      /\ \A i \in (Len(a) + 1)..(Len(a) + Len(b)) : r[i] = b[i - Len(a)]
  BY <1>1
<1> HIDE DEF r
<1> DEFINE n == Len(a) + Len(b)
<1>3. n \in Nat /\ r = [i \in 1..n |-> r[i]]
  BY <1>2
<1> HIDE DEF n
<1>4. r \in Seq(ToSet(r))
  BY <1>3, ListOfFunction
<1> QED BY <1>2, <1>4 DEF r

LEMMA ScriptIs ==
  ASSUME NEW cmds, NEW names, IsScript(cmds, names)
  PROVE  /\ Len(cmds) \in Nat /\ DOMAIN cmds = 1..Len(cmds) /\ cmds = [i \in 1..Len(cmds) |-> cmds[i]]
         /\ \A i \in 1..Len(cmds) : IsCommand(cmds[i], names)
<1>1. Len(cmds) \in Nat /\ DOMAIN cmds = 1..Len(cmds) /\ cmds = [i \in 1..Len(cmds) |-> cmds[i]]
  BY ListIs DEF IsScript
<1>2. \A i \in 1..Len(cmds) : cmds[i] \in ToSet(cmds)
  BY <1>1 DEF ToSet
<1> QED BY <1>1, <1>2 DEF IsScript

LEMMA IsScriptIf ==
  ASSUME NEW n \in Nat, NEW cmds, cmds = [i \in 1..n |-> cmds[i]], NEW names, \A i \in 1..n : IsCommand(cmds[i], names)
  PROVE  IsScript(cmds, names)
<1>1. cmds \in Seq(ToSet(cmds)) /\ DOMAIN cmds = 1..n
  BY ListOfFunction
<1>2. \A c \in ToSet(cmds) : IsCommand(c, names)
  BY <1>1 DEF ToSet
<1> QED BY <1>1, <1>2 DEF IsScript

-------------------------------------------------------------------------------
(* Following pointers.                                                         *)

LEMMA Constants ==
  /\ ScriptSize \in Nat \ {0} /\ StringSize \in Nat \ {0} /\ menu_height \in Nat \ {0}
  /\ NextAt \in Nat /\ NextAt < ScriptSize /\ NextAt < StringSize /\ None \notin Int
BY ConstantsAssumption

LEMMA NoneIsNoNode == Arena => None \notin DOMAIN arena
BY Constants DEF Arena

LEMMA NthLoop ==
  ASSUME NEW n \in Nat
  PROVE  \E f : /\ f[0] = menu_first /\ Nth(n) = f[n]
                /\ \A k \in 1..n : f[k] = IF f[k - 1] = None THEN None ELSE arena[f[k - 1]].next
<1> DEFINE step(x) == IF x = None THEN None ELSE arena[x].next
           Is(f, i) == f = [k \in 0..i |-> IF k = 0 THEN menu_first ELSE step(f[k - 1])]
           T == {i \in Nat : \E f : Is(f, i)}
<1> HIDE DEF step
<1>1. 0 \in T
  <2>1. Is([k \in 0..0 |-> menu_first], 0)
    OBVIOUS
  <2> QED BY <2>1
<1>2. ASSUME NEW i \in T PROVE i + 1 \in T
  <2>1. PICK f : Is(f, i)
    OBVIOUS
  <2> DEFINE g == [k \in 0..(i + 1) |-> IF k = i + 1 THEN step(f[i]) ELSE f[k]]
  <2>2. ASSUME NEW k \in 0..(i + 1) PROVE g[k] = IF k = 0 THEN menu_first ELSE step(g[k - 1])
    BY <2>1
  <2>3. Is(g, i + 1)
    BY <2>2, Zenon
  <2>4. i + 1 \in Nat
    OBVIOUS
  <2> HIDE DEF Is, g
  <2> QED BY <2>3, <2>4
<1>3. n \in T
  <2> HIDE DEF T
  <2>1. T \in SUBSET Nat
    BY DEF T
  <2>2. \A i \in 0..n : i \in T
    BY <1>1, <1>2, <2>1, Induction
  <2> QED BY <2>2
<1> DEFINE f == CHOOSE f : Is(f, n)
<1>4. Is(f, n)
  BY <1>3, Zenon
<1>5. Nth(n) = f[n]
  BY Zenon DEF Nth, step
<1> HIDE DEF f
<1>6. f[0] = menu_first /\ \A k \in 1..n : f[k] = step(f[k - 1])
  BY <1>4
<1> QED BY <1>5, <1>6 DEF step

\* The n-th script is where the chain says, and there is none behind the last.
LEMMA NthIs ==
  ASSUME Arena, NEW sa, NEW ca, Chains(sa, ca), First(sa), Len(scripts) \in Nat, NEW n \in Nat
  PROVE  Nth(n) = IF n < Len(scripts) THEN sa[n + 1] ELSE None
<1> DEFINE N == Len(scripts)
           at(k) == IF k < N THEN sa[k + 1] ELSE None
<1>1. PICK f : /\ f[0] = menu_first /\ Nth(n) = f[n]
               /\ \A k \in 1..n : f[k] = IF f[k - 1] = None THEN None ELSE arena[f[k - 1]].next
  BY NthLoop
<1> DEFINE T == {k \in Nat : f[k] = at(k)}
<1>2. 0 \in T
  BY <1>1 DEF First
<1>3. ASSUME NEW k \in T, k < n PROVE k + 1 \in T
  <2>1. k + 1 \in 1..n /\ (k + 1) - 1 = k /\ f[k] = at(k)
    BY <1>3
  <2>2. f[k + 1] = IF f[k] = None THEN None ELSE arena[f[k]].next
    BY <1>1, <2>1
  <2>3. CASE k < N
    <3>1. k + 1 \in 1..N
      BY <2>1, <2>3
    <3>2. ScriptAt(sa, ca, k + 1)
      BY <3>1 DEF Chains
    <3>3. sa[k + 1] # None /\ arena[sa[k + 1]].next = IF k + 1 = N THEN None ELSE sa[(k + 1) + 1]
      BY <3>2, NoneIsNoNode DEF ScriptAt
    <3>4. f[k + 1] = at(k + 1)
      BY <2>1, <2>2, <2>3, <3>3
    <3> QED BY <3>4
  <2>4. CASE ~ (k < N)
    BY <2>1, <2>2, <2>4
  <2> QED BY <2>3, <2>4
<1>4. n \in T
  <2> HIDE DEF T
  <2>1. T \in SUBSET Nat
    BY DEF T
  <2>2. \A i \in 0..n : i \in T
    BY <1>2, <1>3, <2>1, Induction
  <2> QED BY <2>2
<1> QED BY <1>1, <1>4

\* The nodes that exec_script() visits.
Visits(f, s) ==
  /\ (arena[s].num > 0 => f[1] = arena[s].scr)
  /\ (\A k \in 2..arena[s].num : f[k] = IF f[k - 1] = None THEN None ELSE arena[f[k - 1]].next)
  /\ Commands(s) = [i \in 1..arena[s].num |-> IF f[i] = None THEN None ELSE arena[f[i]].cmd]

LEMMA CommandsLoop == ASSUME NEW s, arena[s].num \in Nat PROVE \E f : Visits(f, s)
<1> DEFINE n == arena[s].num
           step(x) == IF x = None THEN None ELSE arena[x].next
           Is(f, i) == f = [k \in 1..i |-> IF k = 1 THEN arena[s].scr ELSE step(f[k - 1])]
           T == {i \in Nat : \E f : Is(f, i)}
<1> HIDE DEF step
<1>1. 0 \in T
  <2>1. Is([k \in 1..0 |-> k], 0)
    OBVIOUS
  <2> QED BY <2>1
<1>2. ASSUME NEW i \in T PROVE i + 1 \in T
  <2>1. PICK f : Is(f, i)
    OBVIOUS
  <2> DEFINE g == [k \in 1..(i + 1) |-> IF k = i + 1 THEN IF i = 0 THEN arena[s].scr ELSE step(f[i]) ELSE f[k]]
  <2>2. ASSUME NEW k \in 1..(i + 1) PROVE g[k] = IF k = 1 THEN arena[s].scr ELSE step(g[k - 1])
    BY <2>1
  <2>3. Is(g, i + 1)
    BY <2>2, Zenon
  <2>4. i + 1 \in Nat
    OBVIOUS
  <2> HIDE DEF Is, g
  <2> QED BY <2>3, <2>4
<1>3. n \in T
  <2> HIDE DEF T
  <2>1. T \in SUBSET Nat
    BY DEF T
  <2>2. \A i \in 0..n : i \in T
    BY <1>1, <1>2, <2>1, Induction
  <2> QED BY <2>2
<1> DEFINE f == CHOOSE f : Is(f, n)
<1>4. Is(f, n)
  BY <1>3, Zenon
<1>5. Commands(s) = [k \in 1..arena[s].num |-> IF f[k] = None THEN None ELSE arena[f[k]].cmd]
  BY Zenon DEF Commands, step
<1> HIDE DEF f
<1>6. (n > 0 => f[1] = arena[s].scr) /\ \A k \in 2..n : f[k] = step(f[k - 1])
  BY <1>4
<1>7. Visits(f, s)
  BY <1>5, <1>6 DEF step, Visits
<1> QED BY <1>7

\* exec_script() finds the commands of the script.
LEMMA CommandsAre ==
  ASSUME Arena, Scripts, NEW sa, NEW ca, Chains(sa, ca), NEW n \in 1..Len(scripts)
  PROVE  Commands(sa[n]) = scripts[n]
<1> DEFINE L == Len(scripts[n])
<1>1. L \in Nat /\ scripts[n] = [k \in 1..L |-> scripts[n][k]]
  BY ScriptIs DEF Scripts
<1>2. /\ arena[sa[n]].num = L /\ (L > 0 => arena[sa[n]].scr = ca[n][1])
      /\ \A k \in 1..L : StringAt(ca, n, k)
  BY DEF Chains, ScriptAt
<1> PICK f : Visits(f, sa[n])
  BY <1>1, <1>2, CommandsLoop
<1>3. /\ (L > 0 => f[1] = arena[sa[n]].scr)
      /\ (\A k \in 2..L : f[k] = IF f[k - 1] = None THEN None ELSE arena[f[k - 1]].next)
      /\ Commands(sa[n]) = [k \in 1..L |-> IF f[k] = None THEN None ELSE arena[f[k]].cmd]
  BY <1>2 DEF Visits
<1>4. \A k \in 1..L :
        ca[n][k] # None /\ arena[ca[n][k]].cmd = scripts[n][k] /\ (k < L => arena[ca[n][k]].next = ca[n][k + 1])
  BY <1>2, NoneIsNoNode DEF StringAt
<1> HIDE DEF L
<1> DEFINE T == {k \in Nat : k \in 1..L => f[k] = ca[n][k]}
<1>5. 0 \in T
  OBVIOUS
<1>6. ASSUME NEW k \in T, k < L PROVE k + 1 \in T
  <2>1. CASE k = 0
    <3>1. L > 0 /\ k + 1 = 1
      BY <1>1, <1>6, <2>1
    <3>2. f[1] = ca[n][1]
      BY <1>2, <1>3, <3>1
    <3> QED BY <3>1, <3>2
  <2>2. CASE k # 0
    <3>1. k \in 1..L /\ k + 1 \in 2..L /\ (k + 1) - 1 = k /\ f[k] = ca[n][k]
      BY <1>1, <1>6, <2>2
    <3> QED BY <1>3, <1>4, <1>6, <3>1
  <2> QED BY <2>1, <2>2
<1>7. \A k \in 1..L : f[k] = ca[n][k]
  <2>1. T \in SUBSET Nat
    OBVIOUS
  <2>2. \A k \in 0..L : k \in T
    <3> HIDE DEF T
    <3> QED BY <1>1, <1>5, <1>6, <2>1, Induction
  <2> QED BY <2>2
<1>8. \A k \in 1..L : (IF f[k] = None THEN None ELSE arena[f[k]].cmd) = scripts[n][k]
  BY <1>4, <1>7
<1>9. Commands(sa[n]) = [k \in 1..L |-> scripts[n][k]]
  BY <1>3, <1>8
<1> QED BY <1>1, <1>9

\* What is shown is what was read or edited.
LEMMA MenuRight ==
  ASSUME Arena, Scripts, NEW sa, NEW ca, Chains(sa, ca), First(sa), num_items + 1 = Len(scripts), num_items \in Nat
  PROVE  /\ \A n \in 0..num_items : Nth(n) = sa[n + 1] /\ Nth(n) # None /\ Commands(Nth(n)) = scripts[n + 1]
         /\ \A n \in Nat : n > num_items => Nth(n) = None
<1>1. ASSUME NEW n \in 0..num_items
      PROVE  Nth(n) = sa[n + 1] /\ Nth(n) # None /\ Commands(Nth(n)) = scripts[n + 1]
  <2>1. n \in Nat /\ n + 1 \in 1..Len(scripts) /\ n < Len(scripts) /\ Len(scripts) \in Nat
    OBVIOUS
  <2>2. Nth(n) = sa[n + 1]
    BY <2>1, NthIs
  <2>3. Commands(sa[n + 1]) = scripts[n + 1]
    BY <2>1, CommandsAre
  <2>4. sa[n + 1] \in DOMAIN arena
    BY <2>1 DEF Chains, ScriptAt
  <2> QED BY <2>2, <2>3, <2>4, NoneIsNoNode
<1>2. ASSUME NEW n \in Nat, n > num_items PROVE Nth(n) = None
  <2>1. ~ (n < Len(scripts)) /\ Len(scripts) \in Nat
    BY <1>2
  <2> QED BY <2>1, NthIs
<1> QED BY <1>1, <1>2

-------------------------------------------------------------------------------
(* Running commands.                                                           *)

RanFields == {"ok", "curr", "prev", "kernel", "default"}
Begun == [ok |-> TRUE, curr |-> curr_cfg, prev |-> prev_cfg, kernel |-> kernel_type, default |-> default_item]
Does(r, c) ==
  IF ~ r.ok THEN r
  ELSE CASE c.do = "kernel"     -> [r EXCEPT !.kernel = c.arg]
         [] c.do = "configfile" -> [r EXCEPT !.prev = Previous(r.curr, c.arg), !.curr = c.arg]
         [] c.do = "default"    -> [r EXCEPT !.default = c.arg]
         [] c.do = "fail"       -> [r EXCEPT !.ok = FALSE]
         [] OTHER -> r

LEMMA RanLoop ==
  ASSUME NEW cmds, Len(cmds) \in Nat
  PROVE  \E f : f[0] = Begun /\ (\A k \in 1..Len(cmds) : f[k] = Does(f[k - 1], cmds[k])) /\ Ran(cmds) = f[Len(cmds)]
<1> DEFINE n == Len(cmds)
           Is(f, i) == f = [k \in 0..i |-> IF k = 0 THEN Begun ELSE Does(f[k - 1], cmds[k])]
           T == {i \in Nat : \E f : Is(f, i)}
<1>1. 0 \in T
  <2>1. Is([k \in 0..0 |-> Begun], 0)
    OBVIOUS
  <2> QED BY <2>1
<1>2. ASSUME NEW i \in T PROVE i + 1 \in T
  <2>1. PICK f : Is(f, i)
    OBVIOUS
  <2> DEFINE g == [k \in 0..(i + 1) |-> IF k = i + 1 THEN Does(f[i], cmds[i + 1]) ELSE f[k]]
  <2>2. ASSUME NEW k \in 0..(i + 1) PROVE g[k] = IF k = 0 THEN Begun ELSE Does(g[k - 1], cmds[k])
    <3>1. CASE k = i + 1
      <4>1. k # 0 /\ k - 1 = i /\ k - 1 # i + 1 /\ k - 1 \in 0..(i + 1)
        BY <3>1
      <4> QED BY <3>1, <4>1
    <3>2. CASE k # i + 1
      <4>1. k \in 0..i /\ (k # 0 => k - 1 \in 0..(i + 1) /\ k - 1 # i + 1)
        BY <3>2
      <4>2. f[k] = IF k = 0 THEN Begun ELSE Does(f[k - 1], cmds[k])
        BY <2>1, <4>1
      <4> QED BY <3>2, <4>1, <4>2
    <3> QED BY <3>1, <3>2
  <2>3. Is(g, i + 1)
    BY <2>2, Zenon
  <2>4. i + 1 \in Nat
    OBVIOUS
  <2> HIDE DEF Is, g
  <2> QED BY <2>3, <2>4
<1>3. n \in T
  <2> HIDE DEF T
  <2>1. T \in SUBSET Nat
    BY DEF T
  <2>2. \A i \in 0..n : i \in T
    BY <1>1, <1>2, <2>1, Induction
  <2> QED BY <2>2
<1> DEFINE f == CHOOSE f : Is(f, n)
<1>4. Is(f, n)
  BY <1>3, Zenon
<1>5. Ran(cmds) = f[n]
  BY Zenon DEF Ran, Does, Begun
<1> HIDE DEF f
<1>6. f[0] = Begun /\ \A k \in 1..n : f[k] = Does(f[k - 1], cmds[k])
  BY <1>4
<1> QED BY <1>5, <1>6

IsResult(r) ==
  /\ DOMAIN r = RanFields
  /\ r.curr \in DOMAIN files /\ (r.prev \in DOMAIN files \/ r.prev = None) /\ r.default \in Int
Same(r) == r.curr = curr_cfg /\ r.prev = prev_cfg

\* One command.
LEMMA DoesIs ==
  ASSUME NEW r, IsResult(r), NEW c, IsCommand(c, DOMAIN files)
  PROVE  /\ IsResult(Does(r, c))
         /\ c.do # "configfile" => Does(r, c).curr = r.curr /\ Does(r, c).prev = r.prev
         /\ c.do = "configfile" => Does(r, c).prev = r.curr \/ Does(r, c) = r
<1>1. CASE ~ r.ok
  BY <1>1 DEF Does
<1>2. CASE r.ok
  <2>1. CASE c.do = "kernel"
    BY <1>2, <2>1 DEF Does, IsResult, RanFields
  <2>2. CASE c.do = "configfile"
    BY <1>2, <2>2 DEF Does, IsResult, RanFields, IsCommand, Previous
  <2>3. CASE c.do = "default"
    BY <1>2, <2>3 DEF Does, IsResult, RanFields, IsCommand
  <2>4. CASE c.do = "fail"
    BY <1>2, <2>4 DEF Does, IsResult, RanFields
  <2>5. CASE c.do \notin {"kernel", "configfile", "default", "fail"}
    BY <1>2, <2>5 DEF Does
  <2> QED BY <2>1, <2>2, <2>3, <2>4, <2>5
<1> QED BY <1>1, <1>2

\* A script leaves names of files, the two there were if it has no configfile, and the
\* file it was run from in prev_cfg if it has one.
LEMMA RanIs ==
  ASSUME Config, NEW cmds, IsScript(cmds, DOMAIN files)
  PROVE  /\ IsResult(Ran(cmds))
         /\ (\A k \in 1..Len(cmds) : cmds[k].do # "configfile") => Same(Ran(cmds))
         /\ AtMostOnce(cmds) => Same(Ran(cmds)) \/ Ran(cmds).prev = curr_cfg
<1> DEFINE n == Len(cmds)
           none(i) == \A k \in 1..i : cmds[k].do # "configfile"
<1>1. n \in Nat /\ DOMAIN cmds = 1..n /\ \A k \in 1..n : IsCommand(cmds[k], DOMAIN files)
  BY ScriptIs
<1> PICK f : f[0] = Begun /\ (\A k \in 1..n : f[k] = Does(f[k - 1], cmds[k])) /\ Ran(cmds) = f[n]
  BY <1>1, RanLoop
<1> HIDE DEF n
<1> DEFINE Good(i) == /\ IsResult(f[i])
                      /\ none(i) => Same(f[i])
                      /\ AtMostOnce(cmds) => Same(f[i]) \/ f[i].prev = curr_cfg
           T == {i \in Nat : i <= n => Good(i)}
<1>2. 0 \in T
  BY DEF Begun, IsResult, RanFields, Same, Config
<1>3. ASSUME NEW i \in T, i < n PROVE i + 1 \in T
  <2>1. i + 1 \in Nat /\ i + 1 \in 1..n /\ (i + 1) - 1 = i /\ i \in Nat /\ Good(i)
    BY <1>1, <1>3
  <2>2. f[i + 1] = Does(f[i], cmds[i + 1]) /\ IsCommand(cmds[i + 1], DOMAIN files)
    BY <1>1, <2>1
  <2> DEFINE c == cmds[i + 1]
             r == f[i]
             s == f[i + 1]
  <2>3. /\ IsResult(s)
        /\ (c.do # "configfile" => s.curr = r.curr /\ s.prev = r.prev)
        /\ (c.do = "configfile" => s.prev = r.curr \/ s = r)
    BY <2>1, <2>2, DoesIs
  <2>4. none(i + 1) => none(i) /\ c.do # "configfile"
    BY <2>1
  <2>5. ASSUME AtMostOnce(cmds), c.do = "configfile" PROVE none(i)
    <3> SUFFICES ASSUME NEW k \in 1..i PROVE cmds[k].do # "configfile"
      OBVIOUS
    <3>1. k \in DOMAIN cmds /\ i + 1 \in DOMAIN cmds /\ k # i + 1
      BY <1>1, <2>1
    <3> QED BY <2>5, <3>1, Zenon DEF AtMostOnce
  <2> HIDE DEF c, r, s, none
  <2>6. none(i + 1) => Same(s)
    BY <2>1, <2>3, <2>4 DEF Same, r
  <2>7. AtMostOnce(cmds) => Same(s) \/ s.prev = curr_cfg
    BY <2>1, <2>3, <2>5 DEF Same, r
  <2> QED BY <2>1, <2>3, <2>6, <2>7 DEF s
<1>4. Good(n)
  <2>1. T \in SUBSET Nat
    OBVIOUS
  <2>2. \A i \in 0..n : i \in T
    <3> HIDE DEF T
    <3> QED BY <1>1, <1>2, <1>3, <2>1, Induction
  <2>3. n \in 0..n
    BY <1>1
  <2> QED BY <2>2, <2>3
<1> QED BY <1>4 DEF n

-------------------------------------------------------------------------------
(* The lines of a file.                                                        *)

IsLine(l) == IF l.do = "title" THEN l.arg \in Nat ELSE IsCommand(l, DOMAIN files)
AreLines(q) == q \in Seq(ToSet(q)) /\ \A i \in 1..Len(q) : IsLine(q[i])

LEMMA LinesLoop ==
  ASSUME NEW f, Len(f.items) \in Nat
  PROVE  \E g : g[0] = f.globals /\ (\A k \in 1..Len(f.items) : g[k] = g[k - 1] \o ItemLines(f.items[k])) /\ Lines(f) = g[Len(f.items)]
<1> DEFINE n == Len(f.items)
           and(q, k) == q \o ItemLines(f.items[k])
           Is(g, i) == g = [k \in 0..i |-> IF k = 0 THEN f.globals ELSE and(g[k - 1], k)]
           T == {i \in Nat : \E g : Is(g, i)}
<1> HIDE DEF and
<1>1. 0 \in T
  <2>1. Is([k \in 0..0 |-> f.globals], 0)
    OBVIOUS
  <2> QED BY <2>1
<1>2. ASSUME NEW i \in T PROVE i + 1 \in T
  <2>1. PICK g : Is(g, i)
    OBVIOUS
  <2> DEFINE h == [k \in 0..(i + 1) |-> IF k = i + 1 THEN and(g[i], i + 1) ELSE g[k]]
  <2>2. ASSUME NEW k \in 0..(i + 1) PROVE h[k] = IF k = 0 THEN f.globals ELSE and(h[k - 1], k)
    <3>1. CASE k = i + 1
      <4>1. k # 0 /\ k - 1 = i /\ k - 1 # i + 1 /\ k - 1 \in 0..(i + 1)
        BY <3>1
      <4> QED BY <3>1, <4>1
    <3>2. CASE k # i + 1
      <4>1. k \in 0..i /\ (k # 0 => k - 1 \in 0..(i + 1) /\ k - 1 # i + 1)
        BY <3>2
      <4>2. g[k] = IF k = 0 THEN f.globals ELSE and(g[k - 1], k)
        BY <2>1, <4>1
      <4> QED BY <3>2, <4>1, <4>2
    <3> QED BY <3>1, <3>2
  <2>3. Is(h, i + 1)
    BY <2>2, Zenon
  <2>4. i + 1 \in Nat
    OBVIOUS
  <2> HIDE DEF Is, h
  <2> QED BY <2>3, <2>4
<1>3. n \in T
  <2> HIDE DEF T
  <2>1. T \in SUBSET Nat
    BY DEF T
  <2>2. \A i \in 0..n : i \in T
    BY <1>1, <1>2, <2>1, Induction
  <2> QED BY <2>2
<1> DEFINE g == CHOOSE g : Is(g, n)
<1>4. Is(g, n)
  BY <1>3, Zenon
<1>5. Lines(f) = g[n]
  BY Zenon DEF Lines, and
<1> HIDE DEF g
<1>6. g[0] = f.globals /\ \A k \in 1..n : g[k] = and(g[k - 1], k)
  BY <1>4
<1> QED BY <1>5, <1>6 DEF and

LEMMA JoinedLines ==
  ASSUME NEW a, AreLines(a), NEW b, AreLines(b)
  PROVE  AreLines(a \o b)
<1>1. /\ a \o b \in Seq(ToSet(a \o b)) /\ Len(a \o b) = Len(a) + Len(b)
      /\ \A i \in 1..Len(a) : (a \o b)[i] = a[i]
      /\ \A i \in (Len(a) + 1)..(Len(a) + Len(b)) : (a \o b)[i] = b[i - Len(a)]
  BY ConcatIs DEF AreLines
<1>2. Len(a) \in Nat /\ Len(b) \in Nat
  BY DEF AreLines
<1>3. ASSUME NEW i \in 1..Len(a \o b) PROVE IsLine((a \o b)[i])
  <2>1. CASE i \in 1..Len(a)
    BY <1>1, <2>1 DEF AreLines
  <2>2. CASE i \notin 1..Len(a)
    <3>1. i \in (Len(a) + 1)..(Len(a) + Len(b)) /\ i - Len(a) \in 1..Len(b)
      BY <1>1, <1>2, <2>2
    <3> QED BY <1>1, <3>1 DEF AreLines
  <2> QED BY <2>1, <2>2
<1> QED BY <1>1, <1>3 DEF AreLines

LEMMA ScriptLines == ASSUME NEW cmds, IsScript(cmds, DOMAIN files) PROVE AreLines(cmds)
<1>1. \A i \in 1..Len(cmds) : IsLine(cmds[i])
  BY ScriptIs DEF IsLine, IsCommand
<1> QED BY <1>1 DEF AreLines, IsScript

LEMMA LinesAre == ASSUME Config PROVE AreLines(FileLines)
<1> DEFINE file == files[shown]
           items == file.items
           n == Len(items)
<1>1. /\ IsScript(file.globals, DOMAIN files) /\ items \in Seq(ToSet(items))
      /\ \A i \in ToSet(items) : i.title \in Nat /\ IsScript(i.script, DOMAIN files)
  BY MachinesAssumption DEF Config
<1>2. n \in Nat /\ \A k \in 1..n : items[k] \in ToSet(items)
  BY <1>1, ListIs DEF ToSet
<1> PICK g : g[0] = file.globals /\ (\A k \in 1..n : g[k] = g[k - 1] \o ItemLines(items[k])) /\ Lines(file) = g[n]
  BY <1>2, LinesLoop
<1> HIDE DEF n, items, file
<1>3. ASSUME NEW k \in 1..n PROVE AreLines(ItemLines(items[k]))
  <2> DEFINE title == <<Line("title", items[k].title)>>
  <2>1. items[k].title \in Nat /\ IsScript(items[k].script, DOMAIN files)
    BY <1>1, <1>2
  <2>2. AreLines(title)
    <3>1. Len(title) = 1 /\ title = [i \in 1..1 |-> title[i]] /\ title[1] = Line("title", items[k].title)
      OBVIOUS
    <3>2. IsLine(title[1])
      BY <2>1, <3>1 DEF IsLine, Line
    <3> HIDE DEF title
    <3>3. title \in Seq(ToSet(title))
      BY <3>1, ListOfFunction
    <3> QED BY <3>1, <3>2, <3>3 DEF AreLines
  <2>3. AreLines(items[k].script)
    BY <2>1, ScriptLines
  <2> HIDE DEF title
  <2>4. AreLines(title \o items[k].script)
    BY <2>2, <2>3, JoinedLines
  <2> QED BY <2>4 DEF ItemLines, title
<1> DEFINE T == {k \in Nat : k <= n => AreLines(g[k])}
<1>4. 0 \in T
  BY <1>1, ScriptLines
<1>5. ASSUME NEW k \in T, k < n PROVE k + 1 \in T
  <2>1. k + 1 \in 1..n /\ (k + 1) - 1 = k /\ k + 1 \in Nat /\ AreLines(g[k])
    BY <1>2, <1>5
  <2>2. g[k + 1] = g[k] \o ItemLines(items[k + 1])
    BY <2>1
  <2>3. AreLines(g[k] \o ItemLines(items[k + 1]))
    BY <1>3, <2>1, JoinedLines
  <2> QED BY <2>1, <2>2, <2>3
<1>6. AreLines(g[n])
  <2>1. T \in SUBSET Nat
    OBVIOUS
  <2>2. \A i \in 0..n : i \in T
    <3> HIDE DEF T
    <3> QED BY <1>2, <1>4, <1>5, <2>1, Induction
  <2>3. n \in 0..n
    BY <1>2
  <2> QED BY <2>2, <2>3
<1> QED BY <1>6 DEF FileLines, file

-------------------------------------------------------------------------------
(* Writing nodes.                                                              *)

LEMMA WithIs ==
  ASSUME NEW a, NEW nodes
  PROVE  /\ DOMAIN With(a, nodes) = DOMAIN nodes \cup DOMAIN a
         /\ \A at \in DOMAIN nodes : With(a, nodes)[at] = nodes[at]
         /\ \A at \in DOMAIN a : at \notin DOMAIN nodes => With(a, nodes)[at] = a[at]
BY DEF With

\* One node is put in, and the others stay.
IsPut(b, a, at, node) ==
  /\ DOMAIN b = {at} \cup DOMAIN a /\ b[at] = node
  /\ \A x \in DOMAIN a : b[x] = a[x]

LEMMA PutIs ==
  ASSUME NEW a, NEW at, NEW node, at \notin DOMAIN a, NEW b, b = With(a, [x \in {at} |-> node])
  PROVE  IsPut(b, a, at, node)
<1> DEFINE nodes == [x \in {at} |-> node]
<1>1. DOMAIN nodes = {at} /\ nodes[at] = node
  OBVIOUS
<1> QED BY <1>1 DEF With, IsPut

\* A node with another next pointer.
ScriptCopied(x, y, next) == IsScriptNode(y) /\ y.num = x.num /\ y.scr = x.scr /\ y.next = next
StringCopied(x, y, next) == IsStringNode(y) /\ y.cmd = x.cmd /\ y.next = next

LEMMA NodeWithNext ==
  ASSUME NEW x, NEW to
  PROVE  /\ IsScriptNode(x) => ScriptCopied(x, [x EXCEPT !.next = to], to)
         /\ IsStringNode(x) => StringCopied(x, [x EXCEPT !.next = to], to)
BY DEF IsScriptNode, IsStringNode, ScriptFields, StringFields, ScriptCopied, StringCopied

\* A script with other commands.
ScriptGiven(x, y, num, scr) == IsScriptNode(y) /\ y.num = num /\ y.scr = scr /\ y.next = x.next

LEMMA NodeWithCommands ==
  ASSUME NEW x, IsScriptNode(x), NEW num, NEW scr, NEW y, y = [x EXCEPT !.num = num, !.scr = scr]
  PROVE  ScriptGiven(x, y, num, scr)
BY DEF IsScriptNode, ScriptFields, ScriptGiven

LEMMA LinkedIs ==
  ASSUME NEW a, NEW from, NEW to
  PROVE  /\ DOMAIN Linked(a, from, to) = DOMAIN a
         /\ \A x \in DOMAIN a : Linked(a, from, to)[x] = IF x = from THEN [a[x] EXCEPT !.next = to] ELSE a[x]
BY DEF Linked

LEMMA NewNodes ==
  /\ \A t \in Nat : IsScriptNode(ScriptNode(t)) /\ ScriptNode(t).num = 0 /\ ScriptNode(t).next = None
  /\ \A c : IsStringNode(StringNode(c)) /\ StringNode(c).cmd = c
BY Constants DEF ScriptNode, StringNode, IsScriptNode, IsStringNode, ScriptFields, StringFields

LEMMA OfOneKind == ASSUME NEW x PROVE ~ (IsScriptNode(x) /\ IsStringNode(x))
BY DEF IsScriptNode, IsStringNode

\* A title is put behind the last script.
LEMMA TitleKeepsLists ==
  ASSUME Lists, Scripts, where = "reading", where' = "reading", NEW t \in Nat, Title(t)
  PROVE  Lists'
<1> DEFINE N == Len(scripts)
<1>1. N \in Nat
  BY DEF Scripts
<1> PICK sa, ca : Chains(sa, ca) /\ First(sa) /\ Ends(sa, ca)
  BY DEF Lists
<1>2. /\ Len(scripts') = N + 1 /\ scripts'[N + 1] = <<>>
      /\ \A i \in 1..N : scripts'[i] = scripts[i]
  BY <1>1, AppendIs DEF Title, Scripts
<1>3. /\ menu_len \in Nat /\ menu_len' \in Nat /\ menu_len' > menu_len
      /\ \A a \in DOMAIN arena : a \in Nat /\ a < menu_len /\ (IsScriptNode(arena[a]) \/ IsStringNode(arena[a]))
  BY Constants DEF Lists, Arena, Title
<1>4. /\ DOMAIN arena' = {menu_len} \cup DOMAIN arena /\ arena'[menu_len] = ScriptNode(t)
      /\ \A a \in DOMAIN arena : arena'[a] = IF a = sc_prev THEN [arena[a] EXCEPT !.next = menu_len] ELSE arena[a]
  <2> PICK tail : tail = Linked(arena, sc_prev, menu_len)
    OBVIOUS
  <2>1. arena' = With(tail, [at \in {menu_len} |-> ScriptNode(t)])
    BY DEF Title
  <2>2. /\ DOMAIN tail = DOMAIN arena
        /\ \A a \in DOMAIN arena : tail[a] = IF a = sc_prev THEN [arena[a] EXCEPT !.next = menu_len] ELSE arena[a]
    BY LinkedIs
  <2>3. menu_len \notin DOMAIN tail
    BY <1>3, <2>2
  <2>4. IsPut(arena', tail, menu_len, ScriptNode(t))
    BY <2>1, <2>3, PutIs
  <2> QED BY <2>2, <2>4 DEF IsPut
<1>5. ASSUME NEW a \in DOMAIN arena
      PROVE  /\ IsScriptNode(arena[a]) => ScriptCopied(arena[a], arena'[a], IF a = sc_prev THEN menu_len ELSE arena[a].next)
             /\ IsStringNode(arena[a]) => StringCopied(arena[a], arena'[a], IF a = sc_prev THEN menu_len ELSE arena[a].next)
  <2>1. CASE a = sc_prev
    BY <1>4, <2>1, NodeWithNext
  <2>2. CASE a # sc_prev
    BY <1>4, <2>2 DEF ScriptCopied, StringCopied
  <2> QED BY <2>1, <2>2
<1>6. Arena'
  BY <1>3, <1>4, <1>5, NewNodes DEF Arena, ScriptCopied, StringCopied
<1>7. sc_prev = IF N = 0 THEN None ELSE sa[N]
  BY DEF Ends
<1> HIDE DEF N
<1> PICK to, co : /\ to[N + 1] = menu_len /\ co[N + 1] = <<>>
                  /\ \A i \in 1..N : to[i] = sa[i] /\ co[i] = ca[i]
  <2> DEFINE sb == [i \in 1..(N + 1) |-> IF i = N + 1 THEN menu_len ELSE sa[i]]
             cb == [i \in 1..(N + 1) |-> IF i = N + 1 THEN <<>> ELSE ca[i]]
  <2>1. sb[N + 1] = menu_len /\ cb[N + 1] = <<>> /\ \A i \in 1..N : sb[i] = sa[i] /\ cb[i] = ca[i]
    BY <1>1
  <2> HIDE DEF sb, cb
  <2> QED BY <2>1
<1> DEFINE L(n) == Len(scripts[n])
<1>9. \A n \in 1..N : L(n) \in Nat /\ scripts'[n] = scripts[n] /\ ScriptAt(sa, ca, n) /\ \A k \in 1..L(n) : StringAt(ca, n, k)
  BY <1>2, ScriptIs DEF Scripts, Chains, N
<1>10. \A n \in 1..(N + 1) : ScriptAt(to, co, n)'
  <2> SUFFICES ASSUME NEW n \in 1..(N + 1) PROVE ScriptAt(to, co, n)'
    OBVIOUS
  <2>1. CASE n = N + 1
    BY <1>2, <1>4, <2>1, NewNodes DEF ScriptAt
  <2>2. CASE n # N + 1
    <3>1. n \in 1..N /\ n + 1 \in 1..(N + 1) /\ n # N + 1
      BY <1>1, <2>2
    <3>2. /\ sa[n] \in DOMAIN arena /\ IsScriptNode(arena[sa[n]]) /\ arena[sa[n]].num = L(n)
          /\ arena[sa[n]].next = IF n = N THEN None ELSE sa[n + 1]
          /\ L(n) > 0 => arena[sa[n]].scr = ca[n][1]
      BY <1>9, <3>1 DEF ScriptAt, N
    <3>3. ScriptCopied(arena[sa[n]], arena'[sa[n]], IF sa[n] = sc_prev THEN menu_len ELSE arena[sa[n]].next)
      BY <1>5, <3>2
    <3>4. sa[n] = sc_prev <=> n = N
      BY <1>7, <3>1 DEF Chains, N
    <3>5. arena'[sa[n]].next = IF n = N THEN menu_len ELSE sa[n + 1]
      BY <3>2, <3>3, <3>4 DEF ScriptCopied
    <3>6. to[n] = sa[n] /\ co[n] = ca[n] /\ to[n + 1] = IF n = N THEN menu_len ELSE sa[n + 1]
      BY <1>1, <3>1
    <3>7. scripts'[n] = scripts[n] /\ sa[n] \in DOMAIN arena'
      BY <1>4, <1>9, <3>1, <3>2
    <3> QED BY <1>2, <3>1, <3>2, <3>3, <3>5, <3>6, <3>7 DEF ScriptAt, ScriptCopied
  <2> QED BY <2>1, <2>2
<1>11. \A n \in 1..(N + 1) : \A k \in 1..Len(scripts'[n]) : StringAt(co, n, k)'
  <2> SUFFICES ASSUME NEW n \in 1..(N + 1), NEW k \in 1..Len(scripts'[n]) PROVE StringAt(co, n, k)'
    OBVIOUS
  <2>1. n \in 1..N /\ k \in 1..L(n)
    BY <1>1, <1>2, <1>9
  <2>2. /\ ca[n][k] \in DOMAIN arena /\ IsStringNode(arena[ca[n][k]]) /\ arena[ca[n][k]].cmd = scripts[n][k]
        /\ k < L(n) => arena[ca[n][k]].next = ca[n][k + 1]
    BY <1>9, <2>1 DEF StringAt
  <2>3. ca[n][k] # sc_prev
    BY <1>1, <1>7, <1>9, <2>2, NoneIsNoNode, OfOneKind DEF Lists, ScriptAt
  <2>4. StringCopied(arena[ca[n][k]], arena'[ca[n][k]], arena[ca[n][k]].next)
    BY <1>5, <2>2, <2>3
  <2>5. ca[n][k] \in DOMAIN arena' /\ co[n] = ca[n] /\ scripts'[n] = scripts[n]
    BY <1>4, <1>9, <2>1, <2>2
  <2> QED BY <2>2, <2>4, <2>5 DEF StringAt, StringCopied
<1>12. Chains(to, co)'
  <2>1. \A n, m \in 1..(N + 1) : to[n] = to[m] => n = m
    <3>1. \A n \in 1..N : to[n] = sa[n] /\ sa[n] # menu_len /\ \A m \in 1..N : sa[n] = sa[m] => n = m
      BY <1>3, <1>9 DEF Chains, ScriptAt, N
    <3>2. \A n \in 1..(N + 1) : n \in 1..N \/ n = N + 1
      BY <1>1
    <3> QED BY <3>1, <3>2
  <2>2. ASSUME NEW n \in 1..(N + 1), NEW m \in 1..(N + 1), NEW k \in 1..Len(scripts'[n]), NEW j \in 1..Len(scripts'[m]),
               co[n][k] = co[m][j]
        PROVE  n = m /\ k = j
    <3>1. n \in 1..N /\ k \in 1..L(n) /\ m \in 1..N /\ j \in 1..L(m)
      BY <1>1, <1>2, <1>9
    <3> QED BY <2>2, <3>1 DEF Chains, N
  <2> QED BY <1>2, <1>10, <1>11, <2>1, <2>2 DEF Chains
<1>13. (First(to) /\ Ends(to, co))'
  <2>1. num_items = N /\ num_items' = N + 1 /\ menu_first' = IF N = 0 THEN menu_len ELSE menu_first
    BY DEF Ends, Title, N
  <2>2. menu_first' = to[1]
    BY <1>1, <2>1 DEF First, N
  <2>3. sc_prev' = to[N + 1] /\ st_prev' = st_prev
    BY DEF Title
  <2>4. ASSUME NEW n \in 1..(N + 1), NEW k \in 1..Len(scripts'[n]), st_prev = co[n][k] PROVE k = Len(scripts'[n])
    <3>1. n \in 1..N /\ k \in 1..L(n)
      BY <1>1, <1>2, <1>9
    <3> QED BY <1>9, <2>4, <3>1 DEF Ends, N
  <2>5. First(to)'
    BY <1>1, <1>2, <2>2 DEF First
  <2>6. num_items' = Len(scripts') /\ sc_prev' = to[Len(scripts')]
    BY <1>2, <2>1, <2>3
  <2>7. Len(scripts') # 0 /\ Len(scripts'[Len(scripts')]) = 0
    BY <1>1, <1>2
  <2>8. \A n \in 1..(N + 1) : \A k \in 1..Len(scripts'[n]) : st_prev' = co[n][k] => k = Len(scripts'[n])
    BY <2>3, <2>4
  <2> QED BY <1>2, <2>5, <2>6, <2>7, <2>8 DEF Ends
<1> QED BY <1>6, <1>12, <1>13 DEF Lists

\* A command is put behind the last script's commands.  The node linked to it is its
\* script's last command or none of this file's, or the write goes through another.
LEMMA ScriptLineKeepsLists ==
  ASSUME Lists, Scripts, where = "reading", where' = "reading", num_items > 0, NEW c, ScriptLine(c), ~ struck'
  PROVE  Lists'
<1> DEFINE N == Len(scripts)
           L(n) == Len(scripts[n])
<1> PICK sa, ca : Chains(sa, ca) /\ First(sa) /\ Ends(sa, ca)
  BY DEF Lists
<1>1. N \in Nat /\ N \in 1..N /\ num_items = N /\ num_items' = N
  BY DEF Scripts, Ends, ScriptLine
<1>2. \A n \in 1..N : L(n) \in Nat /\ ScriptAt(sa, ca, n) /\ \A k \in 1..L(n) : StringAt(ca, n, k)
  BY ScriptIs DEF Scripts, Chains
<1>3. /\ Len(scripts') = N /\ Len(scripts'[N]) = L(N) + 1 /\ scripts'[N][L(N) + 1] = c
      /\ \A k \in 1..L(N) : scripts'[N][k] = scripts[N][k]
      /\ \A n \in 1..N : n # N => scripts'[n] = scripts[n]
  <2>1. scripts' = [scripts EXCEPT ![N] = Append(scripts[N], c)] /\ DOMAIN scripts = 1..N /\ scripts \in Seq(ToSet(scripts))
    BY <1>1, ListIs DEF ScriptLine, Scripts
  <2>2. scripts[N] \in Seq(ToSet(scripts[N]))
    BY <1>1 DEF Scripts, IsScript
  <2>3. /\ Len(Append(scripts[N], c)) = L(N) + 1 /\ L(N) \in Nat
        /\ \A i \in 1..(L(N) + 1) : Append(scripts[N], c)[i] = IF i = L(N) + 1 THEN c ELSE scripts[N][i]
    BY <2>2, AppendIs
  <2>4. scripts'[N] = Append(scripts[N], c) /\ \A n \in 1..N : n # N => scripts'[n] = scripts[n]
    BY <1>1, <2>1
  <2>5. Len(scripts') = N
    <3>1. N \in Nat /\ scripts' = [i \in 1..N |-> scripts'[i]]
      BY <1>1, <2>1
    <3> HIDE DEF N
    <3> QED BY <3>1, ListOfFunction
  <2> QED BY <2>3, <2>4, <2>5
<1>4. /\ menu_len \in Nat /\ menu_len' \in Nat /\ menu_len' > menu_len /\ menu_len \notin DOMAIN arena
      /\ \A a \in DOMAIN arena : a \in Nat /\ a < menu_len /\ (IsScriptNode(arena[a]) \/ IsStringNode(arena[a]))
  BY Constants DEF Lists, Arena, ScriptLine
<1>5. sc_prev = sa[N] /\ sc_prev \in DOMAIN arena /\ IsScriptNode(arena[sc_prev]) /\ arena[sc_prev].num = L(N)
  BY <1>1, <1>2 DEF Ends, ScriptAt
<1>6. st_prev \in DOMAIN arena => IsStringNode(arena[st_prev])
  <2> SUFFICES ASSUME st_prev \in DOMAIN arena, IsScriptNode(arena[st_prev]) PROVE FALSE
    BY <1>4
  <2>1. ~ Strikes(arena, st_prev)
    BY DEF ScriptLine
  <2>2. st_prev # None /\ arena[st_prev].kind # "string" /\ st_prev \in Nat
    BY <1>4, NoneIsNoNode DEF Lists, IsScriptNode
  <2>3. st_prev <= st_prev + NextAt /\ st_prev + NextAt < st_prev + arena[st_prev].size
    BY <2>2, Constants DEF IsScriptNode
  <2> QED BY <2>1, <2>2, <2>3 DEF Strikes
<1> DEFINE scr == IF Begins(arena[sc_prev].num) THEN menu_len ELSE arena[sc_prev].scr
<1>7. /\ DOMAIN arena' = {menu_len} \cup DOMAIN arena /\ arena'[menu_len] = StringNode(c)
      /\ arena'[sc_prev] = [arena[sc_prev] EXCEPT !.num = L(N) + 1, !.scr = scr]
      /\ \A a \in DOMAIN arena : a # sc_prev => arena'[a] = IF a = st_prev THEN [arena[a] EXCEPT !.next = menu_len] ELSE arena[a]
  <2> PICK tail : tail = Linked(arena, st_prev, menu_len)
    OBVIOUS
  <2>1. /\ DOMAIN tail = DOMAIN arena
        /\ \A a \in DOMAIN arena : tail[a] = IF a = st_prev THEN [arena[a] EXCEPT !.next = menu_len] ELSE arena[a]
    BY LinkedIs
  <2>2. sc_prev # st_prev
    BY <1>5, <1>6, OfOneKind
  <2>3. tail[sc_prev] = arena[sc_prev]
    BY <1>5, <2>1, <2>2
  <2> PICK two : two = [tail EXCEPT ![sc_prev].num = @ + 1,
                                    ![sc_prev].scr = IF Begins(arena[sc_prev].num) THEN menu_len ELSE @]
    OBVIOUS
  <2>4. arena' = With(two, [at \in {menu_len} |-> StringNode(c)])
    BY Zenon DEF ScriptLine
  <2>5. /\ DOMAIN two = DOMAIN tail
        /\ two[sc_prev] = [tail[sc_prev] EXCEPT !.num = @ + 1, !.scr = IF Begins(arena[sc_prev].num) THEN menu_len ELSE @]
        /\ \A a \in DOMAIN tail : a # sc_prev => two[a] = tail[a]
    BY <1>5, <2>1, <2>3 DEF IsScriptNode, ScriptFields
  <2>6. menu_len \notin DOMAIN two
    BY <1>4, <2>1, <2>5
  <2>7. IsPut(arena', two, menu_len, StringNode(c))
    BY <2>4, <2>6, PutIs
  <2>8. two[sc_prev] = [arena[sc_prev] EXCEPT !.num = L(N) + 1, !.scr = scr]
    BY <1>5, <2>3, <2>5
  <2>9. /\ DOMAIN arena' = {menu_len} \cup DOMAIN two /\ arena'[menu_len] = StringNode(c)
        /\ \A a \in DOMAIN two : arena'[a] = two[a]
    BY <2>7 DEF IsPut
  <2> QED BY <1>5, <2>1, <2>5, <2>8, <2>9
<1> HIDE DEF N, L, scr
<1>8. ASSUME NEW a \in DOMAIN arena, a # sc_prev
      PROVE  /\ IsScriptNode(arena[a]) => ScriptCopied(arena[a], arena'[a], arena[a].next)
             /\ IsStringNode(arena[a]) => StringCopied(arena[a], arena'[a], IF a = st_prev THEN menu_len ELSE arena[a].next)
  <2>1. CASE a = st_prev
    BY <1>6, <1>7, <1>8, <2>1, NodeWithNext, OfOneKind
  <2>2. CASE a # st_prev
    BY <1>7, <1>8, <2>2 DEF ScriptCopied, StringCopied
  <2> QED BY <2>1, <2>2
<1>9. ScriptGiven(arena[sc_prev], arena'[sc_prev], L(N) + 1, scr)
  BY <1>5, <1>7, NodeWithCommands
<1>10. Arena'
  <2>1. \A a \in DOMAIN arena : IsScriptNode(arena'[a]) \/ IsStringNode(arena'[a])
    BY <1>4, <1>8, <1>9 DEF ScriptCopied, StringCopied, ScriptGiven
  <2> QED BY <1>4, <1>7, <2>1, NewNodes DEF Arena
<1> PICK co : /\ \A n \in 1..N : n # N => co[n] = ca[n]
              /\ co[N][L(N) + 1] = menu_len
              /\ \A k \in 1..L(N) : co[N][k] = ca[N][k]
  <2> DEFINE last == [k \in 1..(L(N) + 1) |-> IF k = L(N) + 1 THEN menu_len ELSE ca[N][k]]
             cb == [n \in 1..N |-> IF n = N THEN last ELSE ca[n]]
  <2>1. last[L(N) + 1] = menu_len /\ \A k \in 1..L(N) : last[k] = ca[N][k]
    BY <1>1, <1>2
  <2> HIDE DEF last
  <2>2. cb[N] = last /\ \A n \in 1..N : n # N => cb[n] = ca[n]
    BY <1>1
  <2> HIDE DEF cb
  <2>3. cb[N][L(N) + 1] = menu_len /\ \A k \in 1..L(N) : cb[N][k] = ca[N][k]
    BY <2>1, <2>2
  <2> QED BY <2>2, <2>3
<1>11. \A n \in 1..N : \A k \in 1..Len(scripts'[n]) :
         \/ k \in 1..L(n) /\ co[n][k] = ca[n][k] /\ scripts'[n][k] = scripts[n][k]
         \/ n = N /\ k = L(N) + 1
  <2> SUFFICES ASSUME NEW n \in 1..N, NEW k \in 1..Len(scripts'[n])
               PROVE  \/ k \in 1..L(n) /\ co[n][k] = ca[n][k] /\ scripts'[n][k] = scripts[n][k]
                      \/ n = N /\ k = L(N) + 1
    OBVIOUS
  <2>1. CASE n # N
    <3>1. scripts'[n] = scripts[n] /\ co[n] = ca[n]
      BY <1>3, <2>1
    <3> QED BY <3>1 DEF L
  <2>2. CASE n = N
    <3>1. k \in 1..(L(N) + 1) /\ L(N) \in Nat
      BY <1>1, <1>2, <1>3, <2>2
    <3>2. k \in 1..L(N) \/ k = L(N) + 1
      BY <3>1
    <3> QED BY <1>3, <2>2, <3>2
  <2> QED BY <2>1, <2>2
<1>12. \A n \in 1..N : \A k \in 1..L(n) :
         /\ ca[n][k] \in DOMAIN arena /\ ca[n][k] # menu_len /\ ca[n][k] # sc_prev
         /\ IsStringNode(arena[ca[n][k]]) /\ arena[ca[n][k]].cmd = scripts[n][k]
         /\ k < L(n) => arena[ca[n][k]].next = ca[n][k + 1]
  BY <1>2, <1>4, <1>5, OfOneKind DEF StringAt, L
<1>13. st_prev = ca[N][L(N)] \/ L(N) = 0
  BY <1>1, <1>2 DEF Ends, N, L
<1>14. \A n \in 1..N : ScriptAt(sa, co, n)'
  <2> SUFFICES ASSUME NEW n \in 1..N PROVE ScriptAt(sa, co, n)'
    OBVIOUS
  <2>1. /\ sa[n] \in DOMAIN arena /\ IsScriptNode(arena[sa[n]]) /\ arena[sa[n]].num = L(n)
        /\ arena[sa[n]].next = IF n = N THEN None ELSE sa[n + 1]
        /\ L(n) > 0 => arena[sa[n]].scr = ca[n][1]
    BY <1>2 DEF ScriptAt, N, L
  <2>2. CASE n = N
    <3>1. scr = co[N][1]
      <4>1. CASE L(N) = 0
        <5>1. co[N][1] = menu_len /\ arena[sc_prev].num = 0
          BY <1>5, <4>1
        <5> QED BY <5>1 DEF scr, Begins
      <4>2. CASE L(N) # 0
        <5>1. L(N) > 0 /\ 1 \in 1..L(N)
          BY <1>1, <1>2, <4>2 DEF L
        <5>2. co[N][1] = ca[N][1] /\ arena[sc_prev].num # 0 /\ arena[sc_prev].scr = ca[N][1]
          BY <1>1, <1>5, <2>1, <2>2, <5>1
        <5> QED BY <5>2 DEF scr, Begins
      <4> QED BY <4>1, <4>2
    <3> QED BY <1>3, <1>5, <1>7, <1>9, <2>1, <2>2, <3>1 DEF ScriptAt, ScriptGiven
  <2>3. CASE n # N
    <3>1. sa[n] # sc_prev
      BY <1>1, <1>5, <2>3 DEF Chains, N
    <3>2. ScriptCopied(arena[sa[n]], arena'[sa[n]], arena[sa[n]].next) /\ sa[n] \in DOMAIN arena'
      BY <1>7, <1>8, <2>1, <3>1
    <3>3. scripts'[n] = scripts[n] /\ co[n] = ca[n]
      BY <1>3, <2>3
    <3> QED BY <1>3, <2>1, <3>2, <3>3 DEF ScriptAt, ScriptCopied, L
  <2> QED BY <2>2, <2>3
<1>15. ASSUME NEW n \in 1..N, NEW k \in 1..Len(scripts'[n]) PROVE StringAt(co, n, k)'
  <2>1. CASE k \in 1..L(n) /\ co[n][k] = ca[n][k] /\ scripts'[n][k] = scripts[n][k]
    <3> DEFINE at == ca[n][k]
    <3>1. at \in DOMAIN arena /\ at # sc_prev /\ IsStringNode(arena[at]) /\ arena[at].cmd = scripts[n][k]
      BY <1>12, <2>1
    <3>2. StringCopied(arena[at], arena'[at], IF at = st_prev THEN menu_len ELSE arena[at].next)
      BY <1>8, <3>1
    <3>3. ASSUME k < Len(scripts'[n]) PROVE arena'[at].next = co[n][k + 1]
      <4>1. CASE k < L(n)
        <5>1. k + 1 \in 1..L(n) /\ k + 1 \in 1..Len(scripts'[n])
          BY <1>1, <1>2, <1>3, <3>3, <4>1 DEF L
        <5>2. co[n][k + 1] = ca[n][k + 1]
          BY <5>1
        <5>3. st_prev # at
          BY <1>2, <2>1, <4>1 DEF Ends, N, L
        <5> QED BY <1>12, <2>1, <3>2, <4>1, <5>2, <5>3 DEF StringCopied
      <4>2. CASE ~ (k < L(n))
        <5>1. k = L(n)
          BY <1>2, <2>1, <4>2 DEF L
        <5>2. n = N
          BY <1>3, <3>3, <5>1 DEF L
        <5>3. L(N) # 0 /\ at = st_prev /\ co[n][k + 1] = menu_len
          BY <1>13, <2>1, <5>1, <5>2
        <5> QED BY <3>2, <5>3 DEF StringCopied
      <4> QED BY <4>1, <4>2
    <3> HIDE DEF at
    <3>4. co[n][k] = at /\ at \in DOMAIN arena' /\ IsStringNode(arena'[at]) /\ arena'[at].cmd = scripts'[n][k]
      BY <1>7, <2>1, <3>1, <3>2 DEF at, StringCopied
    <3> QED BY <3>3, <3>4 DEF StringAt
  <2>2. CASE n = N /\ k = L(N) + 1
    BY <1>2, <1>3, <1>7, <2>2, NewNodes DEF StringAt, L
  <2> QED BY <1>11, <2>1, <2>2
<1>16. ASSUME NEW n \in 1..N, NEW m \in 1..N, NEW k \in 1..Len(scripts'[n]), NEW j \in 1..Len(scripts'[m]), co[n][k] = co[m][j]
       PROVE  n = m /\ k = j
  <2>1. CASE n = N /\ k = L(N) + 1
    BY <1>11, <1>12, <1>16, <2>1
  <2>2. CASE m = N /\ j = L(N) + 1
    BY <1>11, <1>12, <1>16, <2>2
  <2>3. CASE ~ (n = N /\ k = L(N) + 1) /\ ~ (m = N /\ j = L(N) + 1)
    <3>1. k \in 1..L(n) /\ j \in 1..L(m) /\ ca[n][k] = ca[m][j]
      BY <1>11, <1>16, <2>3
    <3> QED BY <3>1 DEF Chains, N, L
  <2> QED BY <2>1, <2>2, <2>3
<1>17. Chains(sa, co)'
  <2>1. \A n, m \in 1..N : sa[n] = sa[m] => n = m
    BY DEF Chains, N
  <2> QED BY <1>3, <1>14, <1>15, <1>16, <2>1 DEF Chains
<1>18. First(sa)'
  BY <1>1, <1>3 DEF First, ScriptLine, N
<1>19. Ends(sa, co)'
  <2>1. ASSUME NEW n \in 1..N, NEW k \in 1..Len(scripts'[n]), menu_len = co[n][k] PROVE k = Len(scripts'[n])
    BY <1>3, <1>11, <1>12, <2>1
  <2>2. st_prev' = menu_len /\ sc_prev' = sc_prev
    BY DEF ScriptLine
  <2>3. N # 0 /\ co[N][Len(scripts'[N])] = menu_len
    BY <1>1, <1>3
  <2> QED BY <1>1, <1>3, <1>5, <2>1, <2>2, <2>3 DEF Ends
<1> QED BY <1>10, <1>17, <1>18, <1>19 DEF Lists

\* Where the editor puts the commands.
At(k) == menu_len + (k - 1) * StringSize
LEMMA AtIs ==
  ASSUME menu_len \in Nat
  PROVE  /\ At(1) = menu_len
         /\ \A k \in Nat \ {0} : At(k) \in Nat /\ At(k) >= menu_len
         /\ \A k, j \in Nat \ {0} : k < j => At(k) < At(j)
         /\ \A k, j \in Nat \ {0} : At(k) = At(j) => k = j
         /\ \A n \in Nat : menu_len + n * StringSize \in Nat /\ menu_len + n * StringSize = At(n + 1)
<1>1. \A i, j \in Nat : i < j => i * StringSize < j * StringSize
  <2> SUFFICES ASSUME NEW i \in Nat, NEW j \in Nat, i < j PROVE i * StringSize < j * StringSize
    OBVIOUS
  <2>1. PICK d \in Nat \ {0} : j = i + d
    <3>1. j - i \in Nat \ {0} /\ j = i + (j - i)
      OBVIOUS
    <3> QED BY <3>1
  <2>2. j * StringSize = i * StringSize + d * StringSize /\ i * StringSize \in Nat
    BY <2>1, Constants
  <2>3. d * StringSize > 0 /\ d * StringSize \in Nat
    BY <2>1, Constants
  <2> QED BY <2>2, <2>3
<1>2. \A i \in Nat : i * StringSize \in Nat
  BY Constants
<1>3. \A k \in Nat \ {0} : k - 1 \in Nat
  OBVIOUS
<1>4. \A k, j \in Nat \ {0} : k < j => k - 1 < j - 1
  OBVIOUS
<1>5. \A k, j \in Nat \ {0} : k < j => At(k) < At(j)
  BY <1>1, <1>2, <1>3, <1>4 DEF At
<1>6. \A k \in Nat \ {0} : At(k) \in Nat /\ At(k) >= menu_len
  BY <1>2, <1>3 DEF At
<1>7. \A k, j \in Nat \ {0} : At(k) = At(j) => k = j
  <2> SUFFICES ASSUME NEW k \in Nat \ {0}, NEW j \in Nat \ {0}, At(k) = At(j) PROVE k = j
    OBVIOUS
  <2>1. At(k) \in Nat /\ At(j) \in Nat
    BY <1>6
  <2>2. ~ (k < j) /\ ~ (j < k)
    BY <1>5, <2>1
  <2> QED BY <2>2
<1>8. At(1) = menu_len
  <2>1. (1 - 1) * StringSize = 0
    BY Constants
  <2> QED BY <2>1 DEF At
<1>9. \A n \in Nat : menu_len + n * StringSize \in Nat /\ menu_len + n * StringSize = At(n + 1)
  <2> SUFFICES ASSUME NEW n \in Nat PROVE menu_len + n * StringSize \in Nat /\ menu_len + n * StringSize = At(n + 1)
    OBVIOUS
  <2>1. (n + 1) - 1 = n
    OBVIOUS
  <2> QED BY <1>2, <2>1 DEF At
<1> QED BY <1>5, <1>6, <1>7, <1>8, <1>9

AreAppended(nodes, cmds) ==
  /\ DOMAIN nodes = {At(k) : k \in 1..Len(cmds)}
  /\ \A k \in 1..Len(cmds) :
       nodes[At(k)] = [StringNode(cmds[k]) EXCEPT !.next = IF k = Len(cmds) THEN None ELSE At(k + 1)]

LEMMA AppendedIs ==
  ASSUME menu_len \in Nat, NEW cmds, Len(cmds) \in Nat, NEW nodes, nodes = Appended(cmds)
  PROVE  AreAppended(nodes, cmds)
<1> DEFINE n == Len(cmds)
           at == [k \in 1..n |-> menu_len + (k - 1) * StringSize]
           next(k) == IF k = n THEN None ELSE at[k + 1]
           of(a) == CHOOSE k \in 1..n : at[k] = a
<1>1. nodes = [a \in {at[k] : k \in 1..n} |-> [StringNode(cmds[of(a)]) EXCEPT !.next = next(of(a))]]
  BY DEF Appended
<1>2. \A k \in 1..n : at[k] = At(k)
  BY DEF At
<1>3. \A k \in 1..n : next(k) = IF k = n THEN None ELSE At(k + 1)
  BY DEF At
<1> HIDE DEF at, next, n
<1>4. \A k \in 1..n : of(At(k)) = k
  BY <1>2, AtIs DEF n
<1> HIDE DEF of
<1>5. DOMAIN nodes = {At(k) : k \in 1..n}
  BY <1>1, <1>2
<1>6. ASSUME NEW k \in 1..n PROVE nodes[At(k)] = [StringNode(cmds[k]) EXCEPT !.next = next(k)]
  <2>1. At(k) \in {at[j] : j \in 1..n}
    BY <1>2
  <2>2. nodes[At(k)] = [StringNode(cmds[of(At(k))]) EXCEPT !.next = next(of(At(k)))]
    BY <1>1, <2>1, Zenon
  <2> QED BY <1>4, <2>2, Zenon
<1>7. \A k \in 1..n : nodes[At(k)] = [StringNode(cmds[k]) EXCEPT !.next = IF k = n THEN None ELSE At(k + 1)]
  BY <1>3, <1>6
<1> QED BY <1>5, <1>7 DEF n, AreAppended

LEMMA ScriptShown ==
  ASSUME Lists, Scripts, item \in Int, num_items \in Nat, num_items + 1 = Len(scripts), Script # None,
         NEW sa, NEW ca, Chains(sa, ca), First(sa)
  PROVE  item \in 0..num_items /\ Script = sa[item + 1] /\ Commands(Script) = scripts[item + 1]
<1>1. /\ \A n \in 0..num_items : Nth(n) = sa[n + 1] /\ Commands(Nth(n)) = scripts[n + 1]
      /\ \A n \in Nat : n > num_items => Nth(n) = None
  BY MenuRight DEF Lists
<1>2. ~ (item < 0) /\ Script = Nth(item)
  BY DEF Script
<1>3. item \in 0..num_items
  BY <1>1, <1>2
<1> QED BY <1>1, <1>2, <1>3

\* The editor's script takes the place of the item's.
LEMMA EditKeepsLists ==
  ASSUME Lists, Scripts, item \in Int, num_items \in Nat, num_items + 1 = Len(scripts), where' = "menu",
         NEW cmds, IsScript(cmds, DOMAIN files), Edit(cmds)
  PROVE  Lists'
<1> DEFINE N == Len(scripts)
           L(n) == Len(scripts[n])
           M == Len(cmds)
           e == item + 1
<1> PICK sa, ca : Chains(sa, ca) /\ First(sa)
  BY DEF Lists
<1>1. M \in Nat /\ N \in Nat
  BY ScriptIs
<1>2. e \in 1..N /\ Script = sa[e]
  BY ScriptShown DEF Edit
<1>3. Len(scripts') = N /\ scripts'[e] = cmds /\ \A n \in 1..N : n # e => scripts'[n] = scripts[n]
  <2>1. scripts' = [scripts EXCEPT ![e] = cmds] /\ DOMAIN scripts = 1..N
    BY ListIs DEF Edit, Scripts
  <2>2. N \in Nat /\ scripts' = [i \in 1..N |-> scripts'[i]]
    BY <1>1, <2>1
  <2> HIDE DEF N, e
  <2> QED BY <1>2, <2>1, <2>2, ListOfFunction
<1>4. \A n \in 1..N : L(n) \in Nat /\ ScriptAt(sa, ca, n) /\ \A k \in 1..L(n) : StringAt(ca, n, k)
  BY ScriptIs DEF Scripts, Chains
<1>5. /\ menu_len \in Nat
      /\ \A a \in DOMAIN arena : a \in Nat /\ a < menu_len /\ (IsScriptNode(arena[a]) \/ IsStringNode(arena[a]))
  BY DEF Lists, Arena
<1>6. Script \in DOMAIN arena /\ IsScriptNode(arena[Script]) /\ arena[Script].next = IF e = N THEN None ELSE sa[e + 1]
  BY <1>2, <1>4 DEF ScriptAt
<1> PICK nodes : nodes = Appended(cmds)
  OBVIOUS
<1>7. /\ DOMAIN nodes = {At(k) : k \in 1..M}
      /\ \A k \in 1..M : nodes[At(k)] = [StringNode(cmds[k]) EXCEPT !.next = IF k = M THEN None ELSE At(k + 1)]
  <2>1. AreAppended(nodes, cmds)
    BY <1>1, <1>5, AppendedIs
  <2> QED BY <2>1 DEF AreAppended
<1> DEFINE scr == IF cmds = <<>> THEN arena[Script].scr ELSE menu_len
<1>8. /\ DOMAIN arena' = DOMAIN nodes \cup DOMAIN arena
      /\ \A a \in DOMAIN nodes : arena'[a] = nodes[a]
      /\ arena'[Script] = [arena[Script] EXCEPT !.num = M, !.scr = scr]
      /\ \A a \in DOMAIN arena : a # Script => arena'[a] = arena[a]
  <2> PICK two : two = [arena EXCEPT ![Script].num = Len(cmds),
                                     ![Script].scr = IF cmds = <<>> THEN @ ELSE menu_len]
    OBVIOUS
  <2>1. arena' = With(two, nodes)
    BY Zenon DEF Edit
  <2>2. /\ DOMAIN two = DOMAIN arena
        /\ two[Script] = [arena[Script] EXCEPT !.num = M, !.scr = scr]
        /\ \A a \in DOMAIN arena : a # Script => two[a] = arena[a]
    BY <1>6 DEF IsScriptNode, ScriptFields
  <2>3. \A a \in DOMAIN arena : a \notin DOMAIN nodes
    BY <1>1, <1>5, <1>7, AtIs
  <2>4. /\ DOMAIN arena' = DOMAIN nodes \cup DOMAIN two
        /\ \A a \in DOMAIN nodes : arena'[a] = nodes[a]
        /\ \A a \in DOMAIN two : a \notin DOMAIN nodes => arena'[a] = two[a]
    BY <2>1 DEF With
  <2> QED BY <1>6, <2>2, <2>3, <2>4
<1>9. ScriptGiven(arena[Script], arena'[Script], M, scr)
  BY <1>6, <1>8, NodeWithCommands
<1>10. ASSUME NEW k \in 1..M
       PROVE  /\ At(k) \in DOMAIN arena' /\ StringCopied(StringNode(cmds[k]), arena'[At(k)], IF k = M THEN None ELSE At(k + 1))
              /\ At(k) \in Nat /\ At(k) < menu_len' /\ At(k) >= menu_len
  <2>1. At(k) \in DOMAIN nodes
    BY <1>7
  <2>2. StringCopied(StringNode(cmds[k]), nodes[At(k)], IF k = M THEN None ELSE At(k + 1))
    <3> DEFINE to == IF k = M THEN None ELSE At(k + 1)
               x == StringNode(cmds[k])
    <3>1. nodes[At(k)] = [x EXCEPT !.next = to] /\ IsStringNode(x)
      BY <1>7, NewNodes
    <3> HIDE DEF x, to
    <3>2. StringCopied(x, nodes[At(k)], to)
      BY <3>1, NodeWithNext
    <3> QED BY <3>2 DEF x, to
  <2>3. k \in Nat \ {0} /\ M + 1 \in Nat \ {0} /\ k < M + 1 /\ menu_len' = At(M + 1)
    BY <1>1, <1>5, AtIs DEF Edit
  <2>4. At(k) \in Nat /\ At(k) < menu_len' /\ At(k) >= menu_len
    BY <1>5, <2>3, AtIs
  <2> QED BY <1>8, <2>1, <2>2, <2>4
<1>11. menu_len' \in Nat /\ menu_len' >= menu_len
  <2>1. menu_len' = At(M + 1) /\ M + 1 \in Nat \ {0}
    BY <1>1, <1>5, AtIs DEF Edit
  <2> QED BY <1>5, <2>1, AtIs
<1>12. Arena'
  <2>1. ASSUME NEW a \in DOMAIN arena' PROVE a \in Nat /\ a < menu_len' /\ (IsScriptNode(arena'[a]) \/ IsStringNode(arena'[a]))
    <3>1. CASE a \in DOMAIN nodes
      BY <1>7, <1>10, <3>1 DEF StringCopied
    <3>2. CASE a \in DOMAIN arena
      BY <1>5, <1>8, <1>9, <1>11, <3>2 DEF ScriptGiven
    <3> QED BY <1>8, <3>1, <3>2
  <2> QED BY <1>11, <2>1 DEF Arena
<1> HIDE DEF N, L, M, e, scr
<1> PICK co : /\ \A n \in 1..N : n # e => co[n] = ca[n]
              /\ \A k \in 1..M : co[e][k] = At(k)
  <2> DEFINE new == [k \in 1..M |-> At(k)]
             cb == [n \in 1..N |-> IF n = e THEN new ELSE ca[n]]
  <2>1. \A k \in 1..M : new[k] = At(k)
    OBVIOUS
  <2> HIDE DEF new
  <2>2. cb[e] = new /\ \A n \in 1..N : n # e => cb[n] = ca[n]
    BY <1>2
  <2> HIDE DEF cb
  <2> QED BY <2>1, <2>2
<1>13. \A n \in 1..N : ScriptAt(sa, co, n)'
  <2> SUFFICES ASSUME NEW n \in 1..N PROVE ScriptAt(sa, co, n)'
    OBVIOUS
  <2>1. /\ sa[n] \in DOMAIN arena /\ IsScriptNode(arena[sa[n]]) /\ arena[sa[n]].num = L(n)
        /\ arena[sa[n]].next = IF n = N THEN None ELSE sa[n + 1]
        /\ L(n) > 0 => arena[sa[n]].scr = ca[n][1]
    BY <1>4 DEF ScriptAt, N, L
  <2>2. CASE n = e
    <3>1. M > 0 => scr = co[e][1]
      <4>1. M > 0 => 1 \in 1..M /\ cmds # <<>>
        BY <1>1 DEF M
      <4> QED BY <1>5, <4>1, AtIs DEF scr
    <3> QED BY <1>2, <1>3, <1>6, <1>8, <1>9, <2>1, <2>2, <3>1 DEF ScriptAt, ScriptGiven, M
  <2>3. CASE n # e
    <3>1. sa[n] # Script
      BY <1>2, <2>3 DEF Chains, N
    <3>2. arena'[sa[n]] = arena[sa[n]] /\ sa[n] \in DOMAIN arena'
      BY <1>8, <2>1, <3>1
    <3>3. scripts'[n] = scripts[n] /\ co[n] = ca[n]
      BY <1>3, <2>3
    <3> QED BY <1>3, <2>1, <3>2, <3>3 DEF ScriptAt, L
  <2> QED BY <2>2, <2>3
<1>14. \A n \in 1..N : \A k \in 1..L(n) :
         /\ ca[n][k] \in DOMAIN arena /\ ca[n][k] # Script
         /\ IsStringNode(arena[ca[n][k]]) /\ arena[ca[n][k]].cmd = scripts[n][k]
         /\ k < L(n) => arena[ca[n][k]].next = ca[n][k + 1]
  BY <1>4, <1>6, OfOneKind DEF StringAt, L
<1>15. ASSUME NEW n \in 1..N, NEW k \in 1..Len(scripts'[n]) PROVE StringAt(co, n, k)'
  <2>1. CASE n = e
    <3>1. k \in 1..M /\ scripts'[n] = cmds /\ co[n][k] = At(k)
      BY <1>3, <2>1 DEF M
    <3>2. k < M => k + 1 \in 1..M /\ co[n][k + 1] = At(k + 1) /\ k # M
      BY <1>1, <2>1, <3>1
    <3> QED BY <1>10, <3>1, <3>2, NewNodes DEF StringAt, StringCopied, M
  <2>2. CASE n # e
    <3>1. scripts'[n] = scripts[n] /\ co[n] = ca[n] /\ k \in 1..L(n)
      BY <1>3, <2>2 DEF L
    <3>2. ca[n][k] \in DOMAIN arena' /\ arena'[ca[n][k]] = arena[ca[n][k]]
      BY <1>8, <1>14, <3>1
    <3> QED BY <1>14, <3>1, <3>2 DEF StringAt, L
  <2> QED BY <2>1, <2>2
<1>16. ASSUME NEW n \in 1..N, NEW m \in 1..N, NEW k \in 1..Len(scripts'[n]), NEW j \in 1..Len(scripts'[m]), co[n][k] = co[m][j]
       PROVE  n = m /\ k = j
  <2>1. \A i \in 1..N : \A l \in 1..Len(scripts'[i]) :
          IF i = e THEN l \in 1..M /\ co[i][l] = At(l) ELSE l \in 1..L(i) /\ co[i][l] = ca[i][l]
    BY <1>3 DEF L, M
  <2>2. \A i \in 1..N : \A l \in 1..L(i) : \A h \in 1..M : ca[i][l] # At(h)
    BY <1>5, <1>10, <1>14
  <2>3. CASE n = e /\ m = e
    <3>1. k \in Nat \ {0} /\ j \in Nat \ {0} /\ At(k) = At(j)
      BY <1>16, <2>1, <2>3
    <3> QED BY <1>5, <2>3, <3>1, AtIs
  <2>4. CASE n # e /\ m # e
    <3>1. k \in 1..L(n) /\ j \in 1..L(m) /\ ca[n][k] = ca[m][j]
      BY <1>16, <2>1, <2>4
    <3> QED BY <3>1 DEF Chains, N, L
  <2>5. CASE (n = e) # (m = e)
    BY <1>16, <2>1, <2>2, <2>5
  <2> QED BY <2>3, <2>4, <2>5
<1>17. Chains(sa, co)'
  <2>1. \A n, m \in 1..N : sa[n] = sa[m] => n = m
    BY DEF Chains, N
  <2> QED BY <1>3, <1>13, <1>15, <1>16, <2>1 DEF Chains
<1>18. First(sa)'
  BY <1>3 DEF First, Edit, N
<1> QED BY <1>12, <1>17, <1>18 DEF Lists

-------------------------------------------------------------------------------
(* Every step.                                                                 *)

LEMMA ListsStay ==
  ASSUME Lists, arena' = arena, menu_len' = menu_len, menu_first' = menu_first, sc_prev' = sc_prev, st_prev' = st_prev,
         scripts' = scripts, where' = "reading" => where = "reading" /\ num_items' = num_items
  PROVE  Lists'
<1> PICK sa, ca : Chains(sa, ca) /\ First(sa) /\ (where = "reading" => Ends(sa, ca))
  BY DEF Lists
<1>1. Chains(sa, ca)'
  BY DEF Chains, ScriptAt, StringAt
<1>2. First(sa)' /\ Arena'
  BY DEF First, Arena, Lists
<1>3. where' = "reading" => Ends(sa, ca)'
  BY DEF Ends
<1> QED BY <1>1, <1>2, <1>3 DEF Lists

LEMMA ScriptsStay == ASSUME Scripts, scripts' = scripts, files' = files PROVE Scripts'
BY DEF Scripts

\* Without scripts there is nothing to be found.
LEMMA Nothing == Len(<<>>) = 0 /\ <<>> \in Seq(ToSet(<<>>)) /\ DOMAIN <<>> = {}
OBVIOUS

LEMMA ReadBegins ==
  ASSUME Config, Item, NEW cfg, cfg \in DOMAIN files \/ cfg = None, Read(cfg)
  PROVE  /\ Lists' /\ Scripts' /\ Item' /\ where' = "reading" /\ files' = files
         /\ curr_cfg' \in DOMAIN files /\ shown' \in DOMAIN files /\ line' \in Nat \ {0}
<1>1. Scripts' /\ Len(scripts') = 0
  BY Nothing DEF Read, InitVars, Scripts
<1>2. Lists'
  <2>1. Arena'
    BY Nothing DEF Read, InitVars, Arena
  <2>2. (\E sa, ca : Chains(sa, ca) /\ First(sa) /\ Ends(sa, ca))'
    BY <1>1 DEF Read, InitVars, Chains, First, Ends
  <2> QED BY <2>1, <2>2 DEF Lists
<1>3. "root" \in DOMAIN files
  BY MachinesAssumption DEF Config
<1> QED BY <1>1, <1>2, <1>3 DEF Read, InitVars, Item

LEMMA InitInv == Init => Inv
<1> SUFFICES ASSUME Init PROVE Inv
  OBVIOUS
<1>1. Scripts /\ Len(scripts) = 0
  BY Nothing DEF Init, Scripts
<1>3. Lists
  <2>1. Arena
    BY Nothing DEF Init, Arena
  <2>2. \E sa, ca : Chains(sa, ca) /\ First(sa) /\ Ends(sa, ca)
    BY <1>1 DEF Init, Chains, First, Ends
  <2> QED BY <2>1, <2>2 DEF Lists
<1>2. "root" \in DOMAIN files
  BY MachinesAssumption DEF Init
<1> QED BY <1>1, <1>2, <1>3 DEF Init, Inv, Config, Item, Return

LEMMA ReadTitleInv == ASSUME Inv, ~ struck, ReadTitle PROVE Inv'
<1> USE DEF ReadTitle, NextLine
<1>1. line \in 1..Len(FileLines) /\ IsLine(FileLines[line])
  BY LinesAre DEF AreLines, Inv, Config
<1>2. Current.arg \in Nat /\ Title(Current.arg)
  BY <1>1 DEF IsLine, Current
<1>3. where = "reading" /\ where' = "reading"
  BY DEF screen
<1>4. Lists'
  BY <1>2, <1>3, TitleKeepsLists DEF Inv, Config
<1>5. Scripts'
  <2>1. files' = files /\ scripts' = Append(scripts, <<>>) /\ Len(<<>>) = 0 /\ <<>> \in Seq(ToSet(<<>>))
    BY DEF config, Title
  <2>2. IsScript(<<>>, DOMAIN files)
    BY <2>1 DEF IsScript, ToSet
  <2>3. /\ scripts' \in Seq(ToSet(scripts')) /\ Len(scripts') = Len(scripts) + 1 /\ Len(scripts) \in Nat
        /\ \A i \in 1..(Len(scripts) + 1) : scripts'[i] = IF i = Len(scripts) + 1 THEN <<>> ELSE scripts[i]
    BY <2>1, AppendIs DEF Inv, Config, Scripts
  <2>4. \A i \in 1..(Len(scripts) + 1) : i = Len(scripts) + 1 \/ i \in 1..Len(scripts)
    BY <2>3
  <2> QED BY <2>1, <2>2, <2>3, <2>4 DEF Inv, Config, Scripts
<1> QED BY <1>3, <1>4, <1>5 DEF Inv, Config, Item, Return, config, screen

LEMMA ReadCommandInv == ASSUME Inv, ~ struck, ReadCommand PROVE Inv'
<1> USE DEF ReadCommand, NextLine
<1>1. line \in 1..Len(FileLines) /\ IsLine(FileLines[line])
  BY LinesAre DEF AreLines, Inv, Config
<1>2. IsCommand(Current, DOMAIN files)
  BY <1>1 DEF IsLine, Current
<1>3. where = "reading" /\ where' = "reading" /\ files' = files /\ scripts' = [scripts EXCEPT ![num_items] = Append(@, Current)]
  BY DEF screen, config, ScriptLine
<1>4. ~ struck' => Lists'
  BY <1>3, ScriptLineKeepsLists DEF Inv, Config
<1>5. Scripts'
  <2>1. num_items = Len(scripts) /\ Len(scripts) \in Nat /\ DOMAIN scripts = 1..Len(scripts) /\ num_items \in 1..Len(scripts)
    BY <1>3, ListIs DEF Inv, Config, Scripts, Lists, Ends
  <2> DEFINE old == scripts[num_items]
             new == Append(old, Current)
  <2>2. old \in Seq(ToSet(old)) /\ \A i \in 1..Len(old) : IsCommand(old[i], DOMAIN files)
    BY <2>1, ScriptIs DEF Inv, Config, Scripts, IsScript
  <2>3. /\ new \in Seq(ToSet(new)) /\ Len(new) = Len(old) + 1 /\ Len(old) \in Nat
        /\ \A i \in 1..(Len(old) + 1) : new[i] = IF i = Len(old) + 1 THEN Current ELSE old[i]
    BY <2>2, AppendIs
  <2>4. IsScript(new, DOMAIN files)
    <3>1. \A i \in 1..(Len(old) + 1) : i = Len(old) + 1 \/ i \in 1..Len(old)
      BY <2>3
    <3>2. \A i \in 1..Len(new) : IsCommand(new[i], DOMAIN files)
      BY <1>2, <2>2, <2>3, <3>1
    <3> HIDE DEF new
    <3>3. Len(new) \in Nat /\ new = [i \in 1..Len(new) |-> new[i]]
      BY <2>3
    <3> QED BY <3>2, <3>3, IsScriptIf
  <2> HIDE DEF new
  <2>5. scripts' = [scripts EXCEPT ![num_items] = new]
    BY <1>3 DEF new
  <2>6. scripts' = [i \in 1..Len(scripts) |-> scripts'[i]] /\ scripts'[num_items] = new
        /\ \A i \in 1..Len(scripts) : i # num_items => scripts'[i] = scripts[i]
    BY <2>1, <2>5
  <2>7. scripts' \in Seq(ToSet(scripts')) /\ Len(scripts') = Len(scripts)
    <3> DEFINE n == Len(scripts)
    <3>1. n \in Nat /\ scripts' = [i \in 1..n |-> scripts'[i]]
      BY <2>1, <2>6
    <3> HIDE DEF n
    <3>2. scripts' \in Seq(ToSet(scripts')) /\ Len(scripts') = n
      BY <3>1, ListOfFunction
    <3> QED BY <3>2 DEF n
  <2> QED BY <1>3, <2>4, <2>6, <2>7 DEF Inv, Config, Scripts
<1> QED BY <1>3, <1>4, <1>5 DEF Inv, Config, Item, Return, config, screen

\* One command, read or typed.
LEMMA OneCommand ==
  ASSUME Config, NEW c, IsCommand(c, DOMAIN files)
  PROVE  /\ IsResult(Ran(<<c>>))
         /\ c.do # "configfile" => Same(Ran(<<c>>))
<1> DEFINE cmds == <<c>>
<1>1. Len(cmds) = 1 /\ cmds[1] = c /\ cmds = [i \in 1..1 |-> cmds[i]]
  OBVIOUS
<1> HIDE DEF cmds
<1>2. \A i \in 1..1 : IsCommand(cmds[i], DOMAIN files)
  BY <1>1
<1>3. IsScript(cmds, DOMAIN files)
  BY <1>1, <1>2, IsScriptIf
<1>4. /\ IsResult(Ran(cmds))
      /\ (\A k \in 1..Len(cmds) : cmds[k].do # "configfile") => Same(Ran(cmds))
  BY <1>3, RanIs
<1>5. c.do # "configfile" => \A k \in 1..Len(cmds) : cmds[k].do # "configfile"
  BY <1>1
<1> QED BY <1>4, <1>5 DEF cmds

LEMMA ReadGlobalInv == ASSUME Inv, ~ struck, ReadGlobal PROVE Inv'
<1>1. line \in 1..Len(FileLines) /\ IsLine(FileLines[line])
  BY LinesAre DEF AreLines, Inv, Config, ReadGlobal, NextLine
<1>2. IsCommand(Current, DOMAIN files)
  BY <1>1 DEF IsLine, Current, ReadGlobal, NextLine
<1>3. IsResult(Ran(<<Current>>)) /\ (Current.do # "configfile" => Same(Ran(<<Current>>)))
  BY <1>2, OneCommand DEF Inv
<1>4. where = "reading" /\ where' \in {"reading", "cmdline"} /\ line' = line + 1
  BY DEF ReadGlobal, NextLine
<1>5. Lists'
  BY <1>4, ListsStay DEF Inv, ReadGlobal
<1>6. Scripts'
  BY ScriptsStay DEF Inv, Config, ReadGlobal
<1>7. Config'
  BY <1>3, <1>4, <1>6 DEF Inv, Config, ReadGlobal, Keeps, IsResult
<1>8. Item'
  BY <1>4 DEF Inv, Item, ReadGlobal
<1>9. Return'
  BY <1>3, <1>4 DEF Inv, Return, ReadGlobal, Keeps, Same
<1> QED BY <1>5, <1>7, <1>8, <1>9 DEF Inv

\* The kernel is booted, the editor or the list of nothing is entered: all stays as it is.
LEMMA OnlyWhere ==
  ASSUME Inv, ~ struck, UNCHANGED <<config, lists, screen_items, ghosts>>, item' \in Int,
         where' # "reading",
         where' = "menu" => where = "menu" /\ (~ astray => item' \in 0..num_items),
         where' = "crashed" => astray,
         where # "booted"
  PROVE  Inv'
<1> USE DEF config, lists, ghosts
<1>1. Lists'
  BY ListsStay DEF Inv
<1>2. Scripts'
  BY ScriptsStay DEF Inv, Config
<1> QED BY <1>1, <1>2 DEF Inv, Config, Item, Return

LEMMA ReadAgainInv ==
  ASSUME Inv, Read(curr_cfg), UNCHANGED <<prev_cfg, menu_nest_lvl, kernel_type, default_item, parent>>, where # "booted"
  PROVE  Inv'
<1>1. /\ Lists' /\ Scripts' /\ Item' /\ where' = "reading" /\ files' = files
      /\ curr_cfg' \in DOMAIN files /\ shown' \in DOMAIN files /\ line' \in Nat \ {0}
  BY ReadBegins DEF Inv, Config
<1> QED BY <1>1 DEF Inv, Config, Return

LEMMA NoMenuInv == ASSUME Inv, ~ struck, NoMenu PROVE Inv'
<1>1. CASE kernel_type # None
  BY <1>1, OnlyWhere DEF NoMenu, Booted, Inv, Item
<1>2. CASE kernel_type = None
  BY <1>2, ReadAgainInv DEF NoMenu
<1> QED BY <1>1, <1>2

LEMMA ShowMenuInv == ASSUME Inv, ~ struck, NEW old \in Frame, ShowMenu(old) PROVE Inv'
<1>1. num_items = Len(scripts) /\ num_items > 0 /\ num_items \in Nat
  BY DEF Inv, Config, Scripts, Lists, Ends, ShowMenu
<1>2. /\ num_items' + 1 = Len(scripts') /\ num_items' \in Nat /\ screen_items' \in Nat \ {0}
      /\ where' = "menu" /\ (~ astray' => item' \in 0..num_items')
  <2>1. ~ astray' => item' \in 0..num_items'
    BY Zenon DEF ShowMenu
  <2>2. num_items' = num_items - 1 /\ screen_items' = Smaller(menu_height, num_items) /\ scripts' = scripts /\ where' = "menu"
    BY DEF ShowMenu
  <2> QED BY <1>1, <2>1, <2>2, Constants DEF Smaller
<1>3. item' \in Int
  <2>1. old \in Int /\ default_item \in Int
    BY ConstantsAssumption DEF Inv, Config
  <2> QED BY <1>1, <2>1 DEF ShowMenu, FirstItem
<1>4. Lists'
  BY <1>2, ListsStay DEF ShowMenu, Inv
<1>5. Scripts'
  BY ScriptsStay DEF Inv, Config, ShowMenu, config
<1> QED BY <1>2, <1>3, <1>4, <1>5 DEF Inv, Config, Item, Return, ShowMenu, config

LEMMA ArrowInv == ASSUME Inv, ~ struck, Arrow PROVE Inv'
<1>1. /\ num_items \in Nat /\ screen_items \in Nat \ {0} /\ item \in Int /\ (~ astray => item \in 0..num_items)
      /\ item' \in Moved(item)
  BY DEF Arrow, Inv, Item
<1>2. item' \in Int /\ (~ astray => item' \in 0..num_items)
  BY <1>1 DEF Moved, Down, Up, PageDown, PageUp, AfterLast
<1> QED BY <1>2, OnlyWhere DEF Arrow

\* What the item highlighted has for a script.
LEMMA ScriptOfItem ==
  ASSUME Inv, ~ struck, where = "menu", Script # None
  PROVE  item \in 0..num_items /\ IsScript(Commands(Script), DOMAIN files)
<1> PICK sa, ca : Chains(sa, ca) /\ First(sa)
  BY DEF Inv, Lists
<1>1. item \in 0..num_items /\ Commands(Script) = scripts[item + 1]
  BY ScriptShown DEF Inv, Config, Item
<1>2. item + 1 \in 1..Len(scripts)
  BY <1>1 DEF Inv, Item
<1> QED BY <1>1, <1>2 DEF Inv, Config, Scripts

LEMMA NoScript == ASSUME Inv, ~ struck, where = "menu", Script = None PROVE astray
<1> SUFFICES ASSUME ~ astray PROVE FALSE
  OBVIOUS
<1> PICK sa, ca : Chains(sa, ca) /\ First(sa)
  BY DEF Inv, Lists
<1>1. item \in 0..num_items /\ num_items + 1 = Len(scripts) /\ num_items \in Nat
  BY DEF Inv, Item
<1>2. Nth(item) # None
  BY <1>1, MenuRight DEF Inv, Config, Lists
<1> QED BY <1>1, <1>2 DEF Script

LEMMA CrashInv == ASSUME Inv, ~ struck, EnterCrashes \/ EditCrashes PROVE Inv'
<1>1. where = "menu" /\ Script = None /\ Crash
  BY DEF EnterCrashes, EditCrashes
<1>2. astray
  BY <1>1, NoScript
<1> QED BY <1>1, <1>2, OnlyWhere DEF Crash, Inv, Item

LEMMA EnterFailsInv == ASSUME Inv, ~ struck, EnterFails PROVE Inv'
<1>1. where = "menu" /\ where' = "menu" /\ Script # None
  BY DEF EnterFails, screen
<1>2. IsResult(Ran(Commands(Script)))
  BY <1>1, ScriptOfItem, RanIs DEF Inv
<1>3. Lists'
  BY <1>1, ListsStay DEF Inv, EnterFails, lists
<1>4. Scripts'
  BY ScriptsStay DEF Inv, Config, EnterFails
<1>5. Config'
  BY <1>2, <1>4 DEF Inv, Config, EnterFails, Keeps, IsResult, lists
<1> QED BY <1>1, <1>3, <1>5 DEF Inv, Item, Return, EnterFails, lists, screen

LEMMA EnterRunsInv == ASSUME Inv, ~ struck, EnterRuns PROVE Inv'
<1> DEFINE cmds == IF item = -1 THEN <<>> ELSE Commands(Script)
<1>1. where = "menu" /\ (item # -1 => Script # None)
  BY DEF EnterRuns
<1>2. IsScript(cmds, DOMAIN files) /\ (item = -1 => Len(cmds) = 0)
  <2>1. CASE item = -1
    BY <2>1, Nothing DEF IsScript, ToSet
  <2>2. CASE item # -1
    BY <1>1, <2>2, ScriptOfItem
  <2> QED BY <2>1, <2>2
<1> DEFINE r == IF item = -1 THEN Ran(<<>>) ELSE Ran(Commands(Script))
<1>4. r = Ran(cmds)
  OBVIOUS
<1> HIDE DEF cmds
<1>3. /\ IsResult(r)
      /\ (\A k \in 1..Len(cmds) : cmds[k].do # "configfile") => Same(r)
      /\ AtMostOnce(cmds) => Same(r) \/ r.prev = curr_cfg
  <2> HIDE DEF r
  <2> QED BY <1>2, <1>4, RanIs DEF Inv
<1>5. /\ menu_nest_lvl' = menu_nest_lvl + 1 /\ prev_cfg' = r.prev /\ default_item' = r.default /\ kernel_type' = r.kernel
      /\ IF r.kernel # None
         THEN /\ where' = "booted" /\ curr_cfg' = r.curr
              /\ UNCHANGED <<files, lists, item, screen_items, ghosts>>
         ELSE /\ Read(r.curr)
              /\ parent' = IF <<r.curr, r.prev>> = <<curr_cfg, prev_cfg>> THEN parent
                           ELSE IF shown = curr_cfg /\ AtMostOnce(Commands(Script)) THEN shown ELSE None
  BY Zenon DEF EnterRuns
<1> HIDE DEF r
<1>6. CASE r.kernel # None
  <2>1. Lists'
    BY <1>5, <1>6, ListsStay DEF Inv, lists, ghosts
  <2>2. Scripts'
    BY <1>5, <1>6, ScriptsStay DEF Inv, Config, ghosts
  <2> QED BY <1>3, <1>5, <1>6, <2>1, <2>2 DEF Inv, Config, Item, Return, IsResult, lists, ghosts
<1>7. CASE r.kernel = None
  <2>1. Read(r.curr) /\ (r.curr \in DOMAIN files \/ r.curr = None)
    BY <1>3, <1>5, <1>7 DEF IsResult
  <2>2. /\ Lists' /\ Scripts' /\ Item' /\ where' = "reading" /\ files' = files
        /\ curr_cfg' \in DOMAIN files /\ shown' \in DOMAIN files /\ line' \in Nat \ {0}
    BY <2>1, ReadBegins DEF Inv
  <2>3. Config'
    BY <1>3, <1>5, <2>2 DEF Inv, Config, IsResult
  <2>4. ASSUME parent' # None PROVE prev_cfg' = parent'
    <3>1. CASE Same(r)
      BY <1>1, <1>5, <1>7, <2>4, <3>1 DEF Same, Inv, Return
    <3>2. CASE ~ Same(r)
      <4>1. shown = curr_cfg /\ AtMostOnce(Commands(Script)) /\ parent' = shown
        BY <1>5, <1>7, <2>4, <3>2 DEF Same
      <4>2. item # -1
        BY <1>2, <1>3, <3>2
      <4>3. r.prev = curr_cfg
        BY <1>3, <3>2, <4>1, <4>2 DEF cmds
      <4> QED BY <1>5, <4>1, <4>3
    <3> QED BY <3>1, <3>2
  <2>5. menu_nest_lvl' > 0
    BY <1>5 DEF Inv, Config
  <2> QED BY <2>2, <2>3, <2>4, <2>5 DEF Inv, Return
<1> QED BY <1>6, <1>7

LEMMA BackspaceInv == ASSUME Inv, ~ struck, Backspace PROVE Inv'
<1>1. prev_cfg \in DOMAIN files \/ prev_cfg = None
  BY DEF Inv, Config
<1>2. /\ Lists' /\ Scripts' /\ Item' /\ where' = "reading" /\ files' = files
      /\ curr_cfg' \in DOMAIN files /\ shown' \in DOMAIN files /\ line' \in Nat \ {0}
  BY <1>1, ReadBegins DEF Inv, Backspace
<1>3. Config'
  BY <1>2 DEF Inv, Config, Backspace
<1> QED BY <1>2, <1>3 DEF Inv, Return, Backspace

LEMMA EditInv == ASSUME Inv, ~ struck, NEW cmds \in Edits, Edit(cmds) PROVE Inv'
<1>1. IsScript(cmds, DOMAIN files) /\ files' = files
  BY MachinesAssumption DEF Inv, Config, Edit, config
<1>2. where = "menu" /\ where' = "menu" /\ item' = item /\ num_items' = num_items /\ Script # None
  BY DEF Edit, screen
<1>3. Lists'
  BY <1>1, <1>2, EditKeepsLists DEF Inv, Config, Item
<1>4. item \in 0..num_items /\ num_items + 1 = Len(scripts) /\ num_items \in Nat
  BY <1>2, ScriptOfItem DEF Inv, Item
<1>5. Scripts' /\ Len(scripts') = Len(scripts)
  <2> DEFINE n == Len(scripts)
             e == item + 1
  <2>1. n \in Nat /\ DOMAIN scripts = 1..n /\ e \in 1..n /\ scripts' = [scripts EXCEPT ![e] = cmds]
    BY <1>4, ListIs DEF Inv, Config, Scripts, Edit
  <2> HIDE DEF n, e
  <2>2. scripts' = [i \in 1..n |-> scripts'[i]] /\ \A i \in 1..n : scripts'[i] = IF i = e THEN cmds ELSE scripts[i]
    BY <2>1
  <2>3. scripts' \in Seq(ToSet(scripts')) /\ Len(scripts') = n
    BY <2>1, <2>2, ListOfFunction
  <2>4. \A i \in 1..n : IsScript(scripts[i], DOMAIN files)
    BY DEF Inv, Config, Scripts, n
  <2> QED BY <1>1, <2>2, <2>3, <2>4 DEF Scripts, n
<1> QED BY <1>2, <1>3, <1>5 DEF Inv, Config, Item, Return, Edit, config, screen

LEMMA TypedInv == ASSUME Inv, ~ struck, NEW c \in Typed, TypedCommand(c) PROVE Inv'
<1>1. IsCommand(c, DOMAIN files)
  BY MachinesAssumption DEF Inv, Config
<1>2. IsResult(Ran(<<c>>)) /\ (c.do # "configfile" => Same(Ran(<<c>>)))
  BY <1>1, OneCommand DEF Inv
<1>3. where = "cmdline" /\ where' = "cmdline"
  BY DEF TypedCommand, screen
<1>4. Lists'
  BY <1>3, ListsStay DEF Inv, TypedCommand, lists
<1>5. Scripts'
  BY ScriptsStay DEF Inv, Config, TypedCommand
<1>6. Config'
  BY <1>2, <1>5 DEF Inv, Config, TypedCommand, Keeps, IsResult, lists
<1>7. Return'
  BY <1>2, <1>3 DEF Inv, Return, TypedCommand, Keeps, Same
<1> QED BY <1>3, <1>4, <1>6, <1>7 DEF Inv, Item, TypedCommand, lists, screen

LEMMA UnchangedInv == ASSUME Inv, UNCHANGED vars PROVE Inv'
<1> USE DEF vars, config, lists, screen, ghosts
<1>1. (~ struck) => Lists'
  BY ListsStay DEF Inv
<1>2. Scripts'
  BY ScriptsStay DEF Inv, Config
<1> QED BY <1>1, <1>2 DEF Inv, Config, Item, Return

LEMMA StepInv == ASSUME Inv, [Next]_vars PROVE Inv'
<1>1. CASE UNCHANGED vars
  BY <1>1, UnchangedInv
<1>2. CASE Next
  <2>1. ~ struck
    BY <1>2 DEF Next
  <2>2. CASE ReadTitle
    BY <2>1, <2>2, ReadTitleInv
  <2>3. CASE ReadCommand
    BY <2>1, <2>3, ReadCommandInv
  <2>4. CASE ReadGlobal
    BY <2>1, <2>4, ReadGlobalInv
  <2>5. CASE NoMenu
    BY <2>1, <2>5, NoMenuInv
  <2>6. CASE \E old \in Frame : ShowMenu(old)
    BY <2>1, <2>6, ShowMenuInv
  <2>7. CASE Arrow
    BY <2>1, <2>7, ArrowInv
  <2>8. CASE EnterFails
    BY <2>1, <2>8, EnterFailsInv
  <2>9. CASE EnterRuns
    BY <2>1, <2>9, EnterRunsInv
  <2>10. CASE EnterCrashes \/ EditCrashes
    BY <2>1, <2>10, CrashInv
  <2>11. CASE Backspace
    BY <2>1, <2>11, BackspaceInv
  <2>12. CASE ToggleKey
    BY <2>12, ReadAgainInv DEF ToggleKey
  <2>13. CASE \E cmds \in Edits : Edit(cmds)
    BY <2>1, <2>13, EditInv
  <2>14. CASE Escape
    BY <2>1, <2>14, OnlyWhere DEF Escape, Inv, Item
  <2>15. CASE Leave
    BY <2>15, ReadAgainInv DEF Leave
  <2>16. CASE Boot
    BY <2>1, <2>16, OnlyWhere DEF Boot, Booted, Inv, Item
  <2>17. CASE \E c \in Typed : TypedCommand(c)
    BY <2>1, <2>17, TypedInv
  <2> QED BY <1>2, <2>2, <2>3, <2>4, <2>5, <2>6, <2>7, <2>8, <2>9, <2>10, <2>11, <2>12, <2>13, <2>14, <2>15, <2>16, <2>17
          DEF Next, Input
<1> QED BY <1>1, <1>2

LEMMA Always == Spec => []Inv
<1>1. Inv /\ [Next]_vars => Inv'
  BY StepInv
<1> QED BY InitInv, <1>1, PTL DEF Spec

\* The items of the menu are the file's, in its order, each with its commands or the
\* ones written in the editor since: for files of any length, titles of any length,
\* every order of keys, and every file read into the arena before (process_cfg_line1(),
\* exec_script(), menued()).
THEOREM MenuShowsTheFile == Spec => []MenuIsTheFile
<1>1. Inv => MenuIsTheFile
  <2> SUFFICES ASSUME Inv, where = "menu", ~ struck
               PROVE  /\ \A n \in 0..num_items : Nth(n) # None /\ Commands(Nth(n)) = scripts[n + 1]
                      /\ Nth(num_items + 1) = None
    BY DEF MenuIsTheFile
  <2> PICK sa, ca : Chains(sa, ca) /\ First(sa)
    BY DEF Inv, Lists
  <2>1. num_items + 1 = Len(scripts) /\ num_items \in Nat
    BY DEF Inv, Item
  <2>2. /\ \A n \in 0..num_items : Nth(n) # None /\ Commands(Nth(n)) = scripts[n + 1]
        /\ \A n \in Nat : n > num_items => Nth(n) = None
    BY <2>1, MenuRight DEF Inv, Config, Lists
  <2>3. num_items + 1 \in Nat /\ num_items + 1 > num_items
    BY <2>1
  <2> QED BY <2>2, <2>3
<1> QED BY Always, <1>1, PTL

\* The highlighted item is one of the menu's whatever keys are pressed, and its script is
\* found, unless the menu began with none of its items (get_user_input(), draw_menu()).
THEOREM HighlightStaysInside == Spec => []ItemIsShown
<1>1. Inv => ItemIsShown
  BY DEF Inv, Item, ItemIsShown
<1> QED BY Always, <1>1, PTL

\* From a menu that an item's only configfile led to, backspace leads to the menu that
\* item is in, after any reading, failing, editing and typing in between
\* (configfile_func(), get_user_input()).
THEOREM BackspaceLeadsBack == Spec => []BackspaceReturns
<1>1. Inv => BackspaceReturns
  BY DEF Inv, Return, BackspaceReturns
<1> QED BY Always, <1>1, PTL
===============================================================================
