------------------------------- MODULE MC_Os2 -------------------------------
(***************************************************************************)
(* OS/2 from disks with primary and logical partitions, and from a ramdisk. *)
(***************************************************************************)
EXTENDS MiniFsd, TLC

\* A disk's tables are made from its volumes: the logical ones follow the
\* extended partition's start at 100, one table each.
P(n, type, start, letter) == [number |-> n, logical |-> FALSE, type |-> type, start |-> start, letter |-> letter]
L(n, type, letter) == [number |-> n, logical |-> TRUE, type |-> type, start |-> (100 * (n - 3)) + 63, letter |-> letter]
Entry(v) == [type |-> v.type, start |-> v.start]
LogicalsOf(vs) == SelectSeq(vs, LAMBDA v : v.logical)
TablesOf(vs) ==
  LET logicals == LogicalsOf(vs)
      first == [i \in 1..4 |-> IF \E v \in ToSet(vs) : v.number = i - 1 THEN Entry(CHOOSE v \in ToSet(vs) : v.number = i - 1)
                               ELSE IF i = 4 /\ logicals # <<>> THEN [type |-> 5, start |-> 100] ELSE Empty]
  IN (0 :> first)
     @@ [s \in {100 * i : i \in DOMAIN logicals} |->
           <<[type |-> logicals[s \div 100].type, start |-> 63],
             IF s \div 100 < Len(logicals) THEN [type |-> 15, start |-> s] ELSE Empty, Empty, Empty>>]
LettersOn(vs) ==
  (62 :> [i \in 1..4 |-> IF \E v \in ToSet(vs) : v.number = i - 1 THEN (CHOOSE v \in ToSet(vs) : v.number = i - 1).letter ELSE None])
  @@ [s \in {(100 * i) + 62 : i \in DOMAIN LogicalsOf(vs)} |-> <<LogicalsOf(vs)[s \div 100].letter, None, None, None>>]
Disk(n, vs, lvm) == [number |-> n, fixed |-> TRUE, volumes |-> vs, tables |-> TablesOf(vs), letters |-> IF lvm THEN LettersOn(vs) ELSE <<>>]

Disk0 == Disk(128, <<P(0, 7, 63, 4), L(4, 7, 5), L(5, 6, 8)>>, TRUE)
Disk1 == Disk(129, <<P(0, 6, 63, 2), P(1, 6, 2063, 3), L(4, 11, 6), L(5, 131, None)>>, FALSE)
Stick == [Disk(130, <<P(0, 6, 63, None)>>, FALSE) EXCEPT !.fixed = FALSE]

Auto == [kind |-> "auto", first |-> 0]
Dlat == [kind |-> "dlat", first |-> 3]
Letter(l) == [kind |-> "letter", first |-> l]
Drv(mode) == [key |-> "drv", mode |-> mode]
Drv2(mode) == [key |-> "drv2", mode |-> mode]

\* A drive that is not booted from.
CONSTANT OtherDrive
Line(type, drive, dir, base) == [type |-> type, drive |-> drive, name |-> <<dir, base>>, args |-> FALSE]
Mods(ms) == FoldLeft(LAMBDA list, m : Append(list, [words |-> m.words, pages |-> m.pages,
                                                    start |-> IF list = <<>> THEN 1 ELSE ModEnd(Last(list))]), <<>>, ms)
One(dir, base) == [words |-> <<<<dir, base>>>>, pages |-> 1]
Two(dir, base) == [words |-> <<<<dir, base>>>>, pages |-> 2]
Named(path, base) == [words |-> <<path, <<"", base>>>>, pages |-> 1]
Ldr == One("", "os2ldr")
Cfg == One("", "config.sys")

\* The second COUNTRY line counts, and the first IFS line; the other's file is not there.
Lines == << Line("BASEDEV", None, "", "ibm1s506.add"), Line("SET", "!", "", "path"), Line("COUNTRY", "@", "os2", "none.sys"),
            Line("DEVICE", "!", "os2", "testcfg.sys"), Line("IFS", "@", "os2", "jfs.ifs"), Line("IFS", OtherDrive, "os2", "none.ifs"),
            Line("DEVICE", "@", "os2", "unicode.sys"), Line("COUNTRY", "@", "os2", "country.sys"), Line("KBD", "@", "os2", "keyboard.dcp"),
            Line("SCR", "@", "os2/boot", "viotbl.dcp"), Line("VIDEO", None, "", "bvhvga.dll"), Line("PSD", None, "", "acpi.psd"),
            Line("PROTSHELL", "@", "os2", "pmshell.exe") >>
Lacking(types) == SelectSeq(Lines, LAMBDA line : line.type \notin types)
Disk_ == {<<"", name>> : name \in ToSet(Needed)} \cup {<<"os2/boot", name>> : name \in ToSet(Basedevs)}
         \cup {<<"os2/dll", name>> : name \in ToSet(Libraries)}
         \cup {<<"", "os2logo">>, <<"os2/boot", "ibm1s506.add">>, <<"os2", "jfs.ifs">>,
                <<"os2", "testcfg.sys">>, <<"os2", "unicode.sys">>, <<"os2", "country.sys">>, <<"os2", "keyboard.dcp">>,
                <<"os2/boot", "viotbl.dcp">>, <<"dll", "bvhvga.dll">>, <<"", "acpi.psd">>, <<"os2", "pmshell.exe">>,
                <<"language/codepage", "ucstbl.lst">>, <<"language/codepage", "ibm850">>, <<"os2", "oso001.msg">>}
Within == {<<"os2ldr", "os2ldr.msg">>, <<"os2ldr", "os2ldr.fnt">>, <<"os2ldr", "os2ldr.ini">>, <<"os2dbcs", "os2dbcs.fnt">>}

\* At address 0 and behind there is nothing, or a text that is no file's name.
AtZero(text) == [type \in {"COUNTRY", "KBD", "SCR", "PROTSHELL", "IFS"} |-> Line(type, OtherDrive, "", text)]

Plain == [autopreload |-> FALSE, ramdisk |-> FALSE, modes |-> <<Drv(Dlat)>>, disks |-> <<Disk0, Disk1, Stick>>, boot |-> Disk0, part |-> 4,
          types |-> {1, 4, 6, 7, 11, 12, 14}, modules |-> Mods(<<Ldr, Cfg>>), onDisk |-> Disk_, within |-> Within, zero |-> AtZero(""), config |-> Lines,
          libpath |-> <<"os2/dll", "dll">>, dpath |-> <<"os2/system", "os2">>, codepages |-> <<"ibm850">>, opens |-> 0, selectors |-> 8, moves |-> {<<0, 0>>, <<0 - 1, 1>>, <<1, 2>>}, edits |-> BOOLEAN,
          names |-> {<<"", "os2ldr">>, <<"", "none">>}]
Os2boot == One("", "os2boot")

\* Letters and places: the boot goes on with an os2boot of its own.
ModesTried == {<<Drv(Auto)>>, <<Drv(Auto), Drv2(Auto)>>, <<Drv(Dlat), Drv2(Letter(Star))>>, <<Drv2(Auto), Drv(Letter(4))>>,
               <<Drv(Letter(7)), Drv2(Auto)>>, <<Drv(Dlat), Drv2(Letter(8))>>, <<Drv(Dlat)>>}
Volumes_ == {[Plain EXCEPT !.modes = modes, !.boot = b[1], !.part = b[2], !.modules = Mods(<<Cfg, Ldr, Os2boot>>)] :
              modes \in ModesTried, b \in {<<Disk0, 0>>, <<Disk0, 4>>, <<Disk0, 5>>, <<Disk1, 1>>}}
VolumesTried == {b \in Volumes_ : (b.boot = Disk1 => \A i \in DOMAIN b.modes : b.modes[i].mode.kind # "dlat")}

Parameters == [i \in DOMAIN Lines |-> [Lines[i] EXCEPT !.args = @ \/ Lines[i].type \in {"IFS", "BASEDEV"}]]
\* Preloading: from a disk, from a ramdisk, with a file missing, without config.sys, with parameters, without
\* lines that are always asked for, and with nothing but os2ldr.msg, which the name os2ldr occurs in.
Preloading ==
  {[Plain EXCEPT !.autopreload = TRUE, !.ramdisk = r, !.modules = Mods(<<Cfg>> \o ms \o <<Os2boot>>), !.onDisk = Disk_ \ gone] :
     r \in BOOLEAN, ms \in {<<>>, <<Two("os2", "jfs.ifs")>>}, gone \in {{}, {<<"os2", "testcfg.sys">>}, {<<"os2/boot", "clock01.sys">>}}}
  \cup {[Plain EXCEPT !.autopreload = TRUE, !.modules = Mods(<<Ldr, One("os2", "rtestcfg.sys"), Cfg, Os2boot>>),
                      !.within = @ \cup {<<"testcfg.sys", "rtestcfg.sys">>}],
        [Plain EXCEPT !.autopreload = TRUE, !.modules = Mods(<<Two("os2", "jfs.ifs"), Cfg, Os2boot>>), !.config = Parameters],
        [Plain EXCEPT !.autopreload = TRUE, !.modules = Mods(<<Cfg, One("", "os2ldr.msg"), Os2boot>>)],
        [Plain EXCEPT !.modules = Mods(<<Ldr, Os2boot>>)], [Plain EXCEPT !.modules = Mods(<<Cfg, Os2boot>>)]}
  \cup {[Plain EXCEPT !.autopreload = TRUE, !.ramdisk = r, !.modules = Mods(<<Cfg, Os2boot>>), !.config = Lacking(types), !.zero = AtZero(text)] :
           r \in BOOLEAN, types \in {{"IFS"}, {"COUNTRY"}, {"PROTSHELL", "SCR"}}, text \in {"", "text"}}

\* The mini-FSD: two files at once, the limit, a ramdisk.
Files == {<<"", "os2ldr">>, <<"os2", "krnl">>, <<"", "none">>}
Mini ==
  {[Plain EXCEPT !.modules = Mods(<<Ldr, Cfg, Two("os2", "krnl")>>), !.names = Files, !.opens = 2, !.edits = {TRUE}],
   [Plain EXCEPT !.modules = Mods(<<Cfg, Ldr>>), !.names = {}, !.opens = 3, !.edits = {FALSE}],
   [Plain EXCEPT !.ramdisk = TRUE, !.modules = Mods(<<Named(<<"fat", "ldr">>, "os2ldr"), Two("os2", "krnl"), Cfg>>),
                 !.names = {<<"", "os2ldr">>, <<"os2", "krnl">>}, !.opens = 2, !.selectors = 10, !.moves = {}, !.edits = {FALSE}]}

CONSTANTS h1, h2, h3
MCHandles == {h1, h2, h3}
AnyHandle == Permutations(MCHandles)

MCBootCode == [type |-> 0, start |-> 77]
MCBoots == VolumesTried \cup Preloading \cup Mini
=============================================================================
