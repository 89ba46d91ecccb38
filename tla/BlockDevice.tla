------------------------------ MODULE BlockDevice ------------------------------
(***************************************************************************)
(* What the pre-loader's callers expect of rawread() and rawwrite(): a     *)
(* disk that is read and written directly.  A read either fails or         *)
(* delivers exactly what the media hold, with sector 0 of an EZ-Drive disk *)
(* replaced by sector 1; there is no buffer that could be out of date.     *)
(* Nothing is promised once what the code does not provide for was met.    *)
(***************************************************************************)
EXTENDS Integers, Sequences

CONSTANTS EZD, InitialDisk, Requests, Writes

VARIABLES
  disk,     \* contents of the media
  status,   \* "idle", "busy", "ok" or "failed"
  req,      \* the request being served
  data,     \* what a successful read delivered
  careful   \* nothing has yet been met that the code does not provide for

vars == <<disk, status, req, data, careful>>

\* The sector a caller means by (d, s): an EZ-Drive disk maps 0 to 1.
Target(d, s) == IF s = 0 /\ disk[d][0] \in EZD THEN 1 ELSE s

Contents(d, s) == disk[d][Target(d, s)]

Init ==
  /\ disk = InitialDisk
  /\ status = "idle"
  /\ req = <<>>
  /\ data = <<>>
  /\ careful = TRUE

Ask(r) ==
  /\ status # "busy"
  /\ status' = "busy"
  /\ req' = r
  /\ data' = <<>>
  /\ UNCHANGED disk

Answer ==
  /\ status = "busy"
  /\ status' = "ok"
  /\ data' = [i \in 1..req[3] |-> Contents(req[1], req[2] + i - 1)]
  /\ UNCHANGED <<disk, req>>

Fail ==
  /\ status = "busy"
  /\ status' = "failed"
  /\ UNCHANGED <<disk, req, data>>

Write(w) ==
  /\ status # "busy"
  /\ disk' = [disk EXCEPT ![w[1]][Target(w[1], w[2])] = w[3]]
  /\ UNCHANGED <<status, req, data>>

Promised ==
  \/ \E r \in Requests : Ask(r)
  \/ Answer
  \/ Fail
  \/ \E w \in Writes : Write(w)

Next == IF careful' THEN careful /\ Promised ELSE TRUE

Spec == Init /\ [][Next]_vars
===============================================================================
