---------------------------- MODULE MC_Partitions ----------------------------
EXTENDS Partitions, TLC

E(t, s, l) == [type |-> t, start |-> s, len |-> l]
Empty == E("none", 0, 0)

\* A slice of four sectors; a BSD slice's label is in its second one.
P(t, s) == IF t = "none" THEN Empty ELSE E(t, s, 4)
Link(t, s) == IF t = "none" THEN Empty ELSE E(t, s, 9)

\* The extended partition starts at 8; its tables are at 8, 16 and 24.
Chain(b, c, d, e, f) ==
  (0 :> <<P(b, 2), E("ext", 8, 30)>>) @@ (8 :> <<P(c, 1), Link(d, 8)>>) @@
  (16 :> IF e = "broken" THEN <<>> ELSE <<P(e, 1), Link(f, 16)>>) @@ (24 :> <<P("fat", 1), Empty>>)

mcTables ==
  {Chain("bsd", c, d, e, f) :
     c \in {"fat", "bsd"}, d \in {"none", "ext"}, e \in {"none", "fat", "broken"}, f \in {"none", "ext"}}
  \cup {Chain("none", "fat", "ext", "bsd", "ext"), Chain("fat", "bsd", "ext", "fat", "none")}
  \cup {(0 :> <<>>), (0 :> <<P("bsd", 2), P("fat", 8)>>),
        (0 :> <<E("ext", 8, 30), P("fat", 2)>>) @@ (8 :> <<P("fat", 1), Empty>>)}

\* Labels with a gap, full ones and none at all.
mcLabels(s) ==
  {<<>>, <<Empty, E("bsd", s + 2, 1)>>, <<E("bsd", s + 2, 1), E("bsd", s + 3, 1)>>}

\* The second sectors of the disk and of the slices at 2 and 9.
mcDisks ==
  {[table |-> t, label |-> (1 :> <<E("bsd", 4, 1)>>) @@ (3 :> l) @@ (10 :> m)] :
     t \in mcTables, l \in mcLabels(2), m \in {<<>>, <<E("bsd", 11, 1)>>}}

mcDests ==
  {[slice |-> s, bsd |-> b] : s \in {None} \cup 0..5, b \in {None, 0, 1}}

mcFloppies ==
  {d \in mcDisks : d.label[10] = <<>> /\ (8 \notin DOMAIN d.table \/ d.table[8][1].type = "bsd")}
==============================================================================
