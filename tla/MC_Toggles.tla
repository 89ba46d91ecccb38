------------------------------ MODULE MC_Toggles ------------------------------
(***************************************************************************)
(* Instances of Toggles for TLC: machines with the two configuration files *)
(* and the typed commands that bring the hard cases about.                 *)
(***************************************************************************)
EXTENDS Toggles

Lit(n, v) == [name |-> n, value |-> v]
Set(n, v) == [do |-> "set", name |-> n, value |-> v, unset |-> FALSE, if |-> <<>>]
SetNew(n, v) == [Set(n, v) EXCEPT !.unset = TRUE]
Toggle(k, bs) == [do |-> "toggle set", key |-> k, blocks |-> bs, if |-> <<>>]
Pick(k, b) == [key |-> k, block |-> b]
Picks(ps) == [do |-> "select", picks |-> ps, if |-> <<>>]
When(n, v, c) == [c EXCEPT !.if = <<Lit(n, v)>> \o @]

K1 == Toggle("k", << <<Lit("A", "x")>>, <<Lit("A", "yy")>> >>)
K2 == Toggle("k", << <<Lit("A", "yy")>>, <<Lit("A", "")>>, <<Lit("A", "x")>> >>)
K3 == Toggle("k", << <<>>, <<Lit("B", "x")>> >>)
L1 == Toggle("l", << <<Lit("B", "")>>, <<Lit("B", "x")>> >>)
L2 == Toggle("l", << <<Lit("B", "x"), Lit("C", "yy")>>, <<Lit("B", "$A"), Lit("C", "x")>> >>)

mcConfigurations ==
  { \* two toggles, triggers both ways, a select at the end
    [root |-> <<K1, L1, When("A", "yy", Picks(<<Pick("l", 1)>>)), Picks(<<Pick("l", 1), Pick("k", 1)>>)>>,
     other |-> <<When("B", "x", Picks(<<Pick("k", 1)>>)), Picks(<<Pick("k", 0)>>)>>,
     typed |-> {Picks(<<Pick("l", 1), Pick("k", 2)>>)}],
    \* variables set before and after, nested triggers, toggles written by triggers
    [root |-> <<Set("A", "yy"), K1, SetNew("A", "x"), SetNew("C", "x"),
                When("A", "yy", When("C", "x", L1)), When("A", "x", K3)>>,
     other |-> <<K2, Set("A", "$A"), When("A", "$A", Picks(<<Pick("k", 2)>>))>>,
     typed |-> {Set("A", "yy"), Set("A", "x"), Set("B", "$A"), When("B", "", L1)}],
    \* the same keys in both files, blocks of two, references
    [root |-> <<L2, K2, When("B", "x", Picks(<<Pick("k", 1)>>))>>,
     other |-> <<K1, L1, Set("D", "x")>>,
     typed |-> {Toggle("l", << <<Lit("B", "x"), Lit("C", "x"), Lit("D", "x")>> >>), K3, Set("C", "x")}],
    \* more toggles than there may be
    [root |-> <<K1, L1, Picks(<<Pick("k", 1)>>)>>, other |-> <<Set("C", "x"), Toggle("j", << <<Lit("D", "x")>> >>)>>,
     typed |-> {Picks(<<Pick("j", 0)>>)}],
    \* every toggle and variable written once
    [root |-> <<K1, Set("C", "x"), Picks(<<Pick("k", 1)>>)>>,
     other |-> <<L1, Picks(<<Pick("l", 0)>>)>>,
     typed |-> {Picks(<<Pick("k", 0), Pick("l", 1)>>), Set("D", "x")}],
    \* a toggle that cannot be set, by a trigger whose failure is not noticed
    [root |-> <<Set("A", "x"), When("A", "x", Toggle("k", << <<Lit("A", ""), Lit("B", ""), Lit("A", "x")>> >>))>>,
     other |-> <<K3>>,
     typed |-> {SetNew("B", "yy")}],
    \* a variable there is no room for in the place of another, which is then wanted again
    [root |-> <<K1, Set("B", "x"), Set("C", "x"),
                When("A", "x", Toggle("k", << <<Lit("A", "x")>>, <<Lit("D", "x")>> >>))>>,
     other |-> <<K1>>,
     typed |-> {K1, Toggle("k", << <<Lit("D", "yy")>> >>), Picks(<<Pick("k", 1)>>)}],
    \* the same two variables in one order and in the other
    [root |-> <<Toggle("k", << <<Lit("B", "x"), Lit("A", "x")>> >>)>>,
     other |-> <<Toggle("k", << <<Lit("A", "yy"), Lit("B", "x")>> >>)>>,
     typed |-> {}] }

mcLength == [n \in {"A", "B", "C", "D"} |-> 1] @@ ("" :> 0 @@ "x" :> 1 @@ "yy" :> 2 @@ "$A" :> 4)
mcRefers == ("$A" :> "A")
===============================================================================
