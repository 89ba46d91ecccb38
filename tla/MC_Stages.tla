------------------------------- MODULE MC_Stages -------------------------------
(***************************************************************************)
(* The pre-loader on a boot disk with HPFS and another disk with FAT.      *)
(***************************************************************************)
EXTENDS PreLoader, TLC

F(dir, n) == [dev |-> "hd0", dir |-> dir, name |-> n, rel |-> FALSE, case |-> "low"]
WithRel(f) == {f, [f EXCEPT !.rel = TRUE]}
Own1 == Preldr
BlackBoxes == {F(Preldr \o <<"fsd">>, "hpfs"), F(Preldr \o <<"fsd">>, "fat"),
               F(Preldr \o <<"term">>, "console"), F(Preldr \o <<"term">>, "serial")}
MCFiles ==
  [f \in UNION {WithRel(b) : b \in BlackBoxes} |-> 90]
  @@ ([F(Preldr \o <<"fsd">>, "hpfs") EXCEPT !.rel = TRUE, !.dir = <<>>] :> 2)
  @@ ([F(Preldr, "preldr0") EXCEPT !.rel = FALSE] :> 20)
  @@ (F(Preldr, "preldr.ini") :> 8) @@ (F(<<>>, "preldr.ini") :> 8) @@ (F(Preldr, "freeldr.mdl") :> 700)
  @@ ([F(<<>>, "os2ldr") EXCEPT !.case = "up"] :> 360) @@ (F(<<"os2">>, "os2ldr") :> 330) @@ (F(<<>>, "os2boot") :> 300)
  @@ ([F(<<>>, "data") EXCEPT !.dev = "hd1"] :> 10)

Sec(n) == [key |-> "section", value |-> n]
Key1(k, v) == [key |-> k, value |-> v]
Tail1(own) == <<Sec("microfsd"), Key1("list", <<"fat", "hpfs">>), Key1("ignorecase", "yes"), Key1("microfsd", own),
                Sec("term"), Key1("list", <<"console", "serial">>)>>
Loose(n) == [Name(<<>>, n) EXCEPT !.rooted = FALSE]
Multi(own, dir) == <<Sec("global"), Key1("multiboot", "yes"), Sec("extloader"), Key1("name", [Loose("os2ldr") EXCEPT !.dir = dir])>> \o Tail1(own)
Direct == <<Sec("global"), Key1("multiboot", "no"), Key1("root", "on"), Sec("loader"), Key1("name", Name(<<"os2">>, "os2ldr")),
            Key1("base", 512), Sec("minifsd"), Key1("name", None), Sec("extloader"), Key1("name", Name(<<"os2">>, "os2ldr"))>> \o Tail1("no")
Asks == <<Sec("global"), Key1("multiboot", "ask"), Key1("driveletter", 2), Sec("loader"), Key1("name", Default)>> \o Tail1("no")
Missing == <<Sec("extloader"), Key1("name", Name(<<"os2">>, "os2none"))>> \o Tail1("no")
NoExt == <<Sec("global"), Key1("multiboot", "yes"), Sec("extloader"), Key1("name", None)>> \o Tail1("no")

MCInis == {Multi("no", <<>>), Multi("own", <<"os2">>), Multi("no", <<"os2">>), Direct, Asks, Missing, NoExt}
MCRequests == {Loose("os2ldr"), [Name(<<>>, "data") EXCEPT !.dev = "hd1"], Name(<<"os2">>, "none")}
MCMountable == {<<"hpfs", "hd0">>, <<"fat", "hd1">>}
===============================================================================
