----------------------------- MODULE ConfigReader ------------------------------
(***************************************************************************)
(* process_cfg() and getline() (loader/cfgparse.c): a configuration file,  *)
(* read a buffer at a time, is handed on line by line.  The pieces of a    *)
(* line cut by the end of the buffer (s) and of a line continued by ^ or & *)
(* (str) are kept in static arrays, which outlive the call.                *)
(*                                                                         *)
(* A file is a sequence of characters of a small alphabet: where the end   *)
(* of the buffer falls among them is what the module is about.             *)
(***************************************************************************)
EXTENDS Integers, FiniteSets, Sequences, SequencesExt

CONSTANTS
  Files,      \* the configuration files, as sequences of characters
  BUFSIZE,    \* size of the read buffer and of s and str
  Refused,    \* lines for which process_cfg_line() returns 0
  Unreadable  \* files whose reading may fail, at each piece

Space   == {" ", "\r", "\n"}
Comment == {";", "#"}
More    == {"^", "&"}

ASSUME ConstantsAssumption ==
  /\ BUFSIZE \in Nat \ {0}
  /\ \A f \in Files : f \in Seq(STRING)
  /\ \A l \in Refused : l \in Seq(STRING)
  /\ Unreadable \subseteq Files

VARIABLES
  cfg,   \* the file being processed
  read,  \* bytes_read
  buf,   \* what the last read put in the buffer
  p,     \* characters of buf already taken
  s,     \* the pieces of the line so far
  str,   \* the lines continued so far
  ret,   \* "idle", "busy", what process_cfg() returned ("ok", "refused", "error"), or
         \* how the loader ended in it: "panic", "overrun"
  out,   \* lines handed to process_cfg_line()
  stale  \* the arrays still hold what a failed reading left in them

vars == <<cfg, read, buf, p, s, str, ret, out, stale>>

Init ==
  /\ cfg = <<>>
  /\ read = 0
  /\ buf = <<>>
  /\ p = 0
  /\ s = <<>>
  /\ str = <<>>
  /\ ret = "idle"
  /\ out = <<>>
  /\ stale = FALSE

-------------------------------------------------------------------------------
(* Lines. *)

\* l up to, and without, its first character of the set C.
Before(l, C) ==
  LET at == {i \in DOMAIN l : l[i] \in C}
  IN  IF at = {} THEN l
      ELSE SubSeq(l, 1, (CHOOSE i \in at : \A j \in at : i <= j) - 1)

strip(l) ==
  LET ink == {i \in DOMAIN l : l[i] \notin Space}
  IN  IF ink = {} THEN <<>>
      ELSE SubSeq(l, CHOOSE i \in ink : \A j \in ink : i <= j,
                     CHOOSE i \in ink : \A j \in ink : i >= j)

\* A physical line without its end, its comment and the blanks around it.
CleanKeepsBlanks(l) == Before(strip(Before(l, {"\r", "\n"})), Comment)
Clean(l) == strip(Before(strip(Before(l, {"\r", "\n"})), Comment))

Continued(l) == l # <<>> /\ Last(l) \in More

\* getline(): the characters up to and with the next line end, or to the end of
\* the buffer.  (What it looks at behind the buffer is not a line end.)
getline ==
  LET rest == SubSeq(buf, p + 1, Len(buf))
      text == Before(rest, {"\r", "\n"})
      at(i, c) == i <= Len(rest) /\ rest[i] = c
      cr == IF at(Len(text) + 1, "\r") THEN 1 ELSE 0
      lf == IF at(Len(text) + cr + 1, "\n") THEN 1 ELSE 0
  IN  SubSeq(rest, 1, Len(text) + cr + lf)

-------------------------------------------------------------------------------
(* process_cfg(). *)

Busy == ret = "busy"

\* The caller takes note of the result: what is left is s and str.
Return ==
  /\ ret \in {"ok", "refused", "error"}
  /\ ret' = "idle"
  /\ cfg' = <<>> /\ read' = 0 /\ buf' = <<>> /\ p' = 0 /\ out' = <<>>
  /\ stale' = ((stale \/ ret = "error") /\ <<s, str>> # <<<<>>, <<>>>>)
  /\ UNCHANGED <<s, str>>

Start(f) ==
  /\ cfg' = f
  /\ ret' = "busy"
  /\ UNCHANGED <<read, buf, p, s, str, out, stale>>

ReadChunkWhole ==
  /\ Busy
  /\ p = Len(buf)
  /\ read < Len(cfg)
  /\ buf' = SubSeq(cfg, read + 1, IF read + BUFSIZE <= Len(cfg)
                                   THEN read + BUFSIZE ELSE Len(cfg))
  /\ read' = read + BUFSIZE
  /\ p' = 0
  /\ UNCHANGED <<cfg, s, str, ret, out, stale>>

ReadChunk ==
  /\ Busy
  /\ p = Len(buf)
  /\ read < Len(cfg)
  /\ \/ /\ buf' = SubSeq(cfg, read + 1, IF read + BUFSIZE <= Len(cfg)
                                         THEN read + BUFSIZE ELSE Len(cfg))
        /\ read' = read + Len(buf')
        /\ p' = 0
        /\ UNCHANGED ret
     \/ /\ cfg \in Unreadable
        /\ ret' = "error"
        /\ UNCHANGED <<buf, read, p>>
  /\ UNCHANGED <<cfg, s, str, out, stale>>

Finish ==
  /\ Busy
  /\ p = Len(buf)
  /\ read = Len(cfg)
  /\ ret' = "ok"
  /\ UNCHANGED <<cfg, read, buf, p, s, str, out, stale>>

Whole == s \o getline

\* A line is complete when the buffer goes on after it or ends in a line feed.
CompleteBeforeEnd == p + Len(getline) < Len(buf)
Complete == p + Len(getline) < Len(buf) \/ Last(buf) = "\n"

\* What the line adds to str.
Text == IF Continued(Clean(Whole)) THEN Front(Clean(Whole)) ELSE Clean(Whole)

TooLong == Len(Whole) > BUFSIZE \/ (Complete /\ Len(str) + Len(Text) > BUFSIZE)

\* The checks count characters.  Exactly BUFSIZE of them fill linebuf, s or str, and
\* the zero behind them is written behind the array (127, 195, 220, 232).
Spills ==
  \/ Len(getline) = BUFSIZE
  \/ Len(Whole) = BUFSIZE
  \/ Len(Whole) < BUFSIZE /\ Complete /\ Len(str) + Len(Text) = BUFSIZE

Taking == Busy /\ p < Len(buf) /\ ~ TooLong /\ p' = p + Len(getline)

\* The end of the buffer cuts the line.
KeepPiece ==
  /\ Taking
  /\ ~ Complete
  /\ s' = Whole
  /\ UNCHANGED <<cfg, read, buf, str, ret, out, stale>>

\* The line goes on in the next one.
KeepContinuedPiece ==
  /\ Taking
  /\ Complete
  /\ Continued(Clean(Whole))
  /\ str' = str \o Text
  /\ UNCHANGED <<s, cfg, read, buf, ret, out, stale>>

KeepContinued ==
  /\ Taking
  /\ Complete
  /\ Continued(Clean(Whole))
  /\ str' = str \o Text
  /\ s' = <<>>
  /\ UNCHANGED <<cfg, read, buf, ret, out, stale>>

HandOn ==
  /\ Taking
  /\ Complete
  /\ ~ Continued(Clean(Whole))
  /\ out' = Append(out, str \o Text)
  /\ str' = <<>>
  /\ s' = <<>>
  /\ ret' = IF str \o Text \in Refused THEN "refused" ELSE ret
  /\ UNCHANGED <<cfg, read, buf, stale>>

\* panic(): the loader halts.
Panic ==
  /\ Busy
  /\ p < Len(buf)
  /\ TooLong
  /\ ret' = "panic"
  /\ UNCHANGED <<cfg, read, buf, p, s, str, out, stale>>

\* That zero may fall on a byte that nobody uses, and then the line is taken, or
\* refused, as ever; or on one that somebody does, and then nothing is known.
Overrun ==
  /\ Busy
  /\ p < Len(buf)
  /\ Spills
  /\ ret' = "overrun"
  /\ UNCHANGED <<cfg, read, buf, p, s, str, out, stale>>

Step ==
  ReadChunk \/ Finish \/ KeepPiece \/ KeepContinued \/ HandOn \/ Panic \/ Overrun

Next ==
  \/ ret = "idle" /\ \E f \in Files : Start(f)
  \/ Return
  \/ Step

Spec == Init /\ [][Next]_vars

-------------------------------------------------------------------------------
(* What the file says, whatever the size of the buffer. *)

\* The physical lines of f; the last one may have no line feed.
PhysicalLines(f) ==
  LET ends == {i \in DOMAIN f : f[i] = "\n" \/ i = Len(f)}
      end == [k \in 0..Cardinality(ends) |->
                IF k = 0 THEN 0
                ELSE CHOOSE e \in ends : Cardinality({i \in ends : i <= e}) = k]
  IN  [k \in 1..Cardinality(ends) |-> SubSeq(f, end[k - 1] + 1, end[k])]

\* Each line is ended by a line feed, the last one is not continued and a
\* carriage return stands before a line feed only.
WellFormed(f) ==
  /\ f # <<>> => Last(f) = "\n"
  /\ PhysicalLines(f) # <<>> => ~ Continued(Clean(Last(PhysicalLines(f))))
  /\ \A i \in DOMAIN f : f[i] = "\r" => i < Len(f) /\ f[i + 1] = "\n"

\* Cleaned, and each joined with those it is continued by.
LogicalLines(f) ==
  LET lines == PhysicalLines(f)
      upTo[k \in 0..Len(lines)] ==
        IF k = 0 THEN [done |-> <<>>, open |-> <<>>]
        ELSE LET a == upTo[k - 1]
                 l == Clean(lines[k])
             IN  IF Continued(l) THEN [a EXCEPT !.open = @ \o Front(l)]
                 ELSE [done |-> Append(a.done, a.open \o l), open |-> <<>>]
      all == upTo[Len(lines)]
  IN  IF all.open = <<>> THEN all.done ELSE Append(all.done, all.open)

(* Properties. *)

\* The values the variables may take.  No array is given more characters than it has
\* room for, but one that is full has the zero that ends it behind it (Overrun).
TypeOK ==
  /\ cfg \in Seq(STRING) /\ read \in 0..Len(cfg)
  /\ buf \in Seq(STRING) /\ Len(buf) <= BUFSIZE /\ p \in 0..Len(buf)
  /\ s \in Seq(STRING) /\ Len(s) <= BUFSIZE
  /\ str \in Seq(STRING) /\ Len(str) <= BUFSIZE
  /\ ret \in {"idle", "busy", "ok", "refused", "error", "panic", "overrun"}
  /\ out \in Seq(Seq(STRING))
  /\ stale \in BOOLEAN

\* The lines handed on are the lines of this file, in order, wherever the ends
\* of the buffer fall and whatever file was read, or refused, before.  (After a read
\* error the first line that is handed on has what was left of a line before it.)
NothingInvented == ~ stale => IsPrefix(out, LogicalLines(cfg))

\* A file that process_cfg() says it processed was handed on to its last line.
NothingLost == ret = "ok" /\ ~ stale => out = LogicalLines(cfg)
===============================================================================
