-------------------------------- MODULE MC_Menu --------------------------------
(***************************************************************************)
(* Instances of Menu for TLC.                                              *)
(***************************************************************************)
EXTENDS Menu

Do(d, a) == [do |-> d, arg |-> a]
Other == Do("other", 0)
Fails == Do("fail", 0)
To(f) == Do("configfile", f)
It(t, s) == [title |-> t, script |-> s]
File(g, i) == [globals |-> g, items |-> i]

mcMachines ==
  { [root |-> File(<<Do("default", 1)>>, <<It(2, <<Other, To("sub")>>), It(1, <<Fails>>), It(1, <<Do("kernel", "os2")>>)>>),
     sub  |-> File(<<>>, <<It(1, <<To("root")>>), It(1, <<To("last"), Fails>>), It(1, <<To("last")>>)>>),
     last |-> File(<<Other>>, <<It(4, <<>>), It(1, <<Other, Other>>)>>)],
    [root |-> File(<<Other>>, <<It(9, <<To("sub")>>), It(1, <<To("last")>>)>>),
     sub  |-> File(<<>>, <<It(1, <<Other>>)>>),
     last |-> File(<<Fails>>, <<It(1, <<Other>>)>>)],
    [root |-> File(<<>>, <<It(1, <<To("sub")>>), It(1, <<To("last"), To("root")>>), It(1, <<To("last")>>)>>),
     sub  |-> File(<<Do("kernel", "linux")>>, <<>>),
     last |-> File(<<To("root")>>, <<It(1, <<Other>>)>>)] }
mcTyped == {Do("kernel", "os2"), To("last"), Fails}
mcEdits == {<<>>, <<Other, To("sub")>>}
mcFrame == {-2, 0, 1, 4}
===============================================================================
