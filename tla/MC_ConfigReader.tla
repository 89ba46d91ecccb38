---------------------------- MODULE MC_ConfigReader ----------------------------
(***************************************************************************)
(* Instances of ConfigReader for TLC: all files of up to seven characters, *)
(* read in pieces of four.                                                 *)
(***************************************************************************)
EXTENDS ConfigReader

mcText     == SeqOf({"a", " ", "^", ";", "\n"}, 7)
mcCRText   == SeqOf({"a", "^", "\r", "\n"}, 7)
mcFiles    == {f \in mcText \cup mcCRText : WellFormed(f)}

\* Reading them may leave a piece of a line, a continued line, or both.
mcUnreadable ==
  {<<"a", " ", "a", "a", "a", "\n">>, <<"a", "^", "\r", "\n", "a", "\n">>,
   <<"a", "^", "\n", "a", "a", "\n">>}

mcRefused  == {<<"a", "a">>}
===============================================================================
