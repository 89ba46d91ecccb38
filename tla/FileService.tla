------------------------------ MODULE FileService ------------------------------
(***************************************************************************)
(* What the loader expects of the pre-loader's u_open(), u_dir() and root  *)
(* command: a name is looked up on the device it names, or else on the     *)
(* root device, and only the root command moves the root.  Nothing is said *)
(* of drivers, of what is mounted, or of what an earlier call left behind; *)
(* nothing is promised once a call was made that the code has no answer to.*)
(***************************************************************************)

CONSTANTS Calls, Boot, Root, None

VARIABLES
  root,    \* the root device
  call,    \* the call being served: its kind and device (Root when none is named)
  status,  \* "idle", "busy", "ok" or "failed"
  got,     \* the device a successful open or listing looked at
  careful  \* the calls have been such that the promise holds

vars == <<root, call, status, got, careful>>

Init ==
  /\ root = Boot
  /\ call = [kind |-> "none", dev |-> Root, name |-> None]
  /\ status = "idle"
  /\ got = None
  /\ careful = TRUE

Ask(c) ==
  /\ status # "busy"
  /\ status' = "busy"
  /\ call' = c
  /\ got' = None
  /\ UNCHANGED root

Serve ==
  /\ status = "busy"
  /\ call.kind \in {"open", "dir"}
  /\ status' = "ok"
  /\ got' = IF call.dev = Root THEN root ELSE call.dev
  /\ UNCHANGED <<root, call>>

\* The root has moved even when the boot sector's table cannot be read after it.
MoveRoot ==
  /\ status = "busy"
  /\ call.kind = "root"
  /\ root' = call.dev
  /\ status' \in {"ok", "failed"}
  /\ UNCHANGED <<call, got>>

Fail ==
  /\ status = "busy"
  /\ status' = "failed"
  /\ UNCHANGED <<root, call, got>>

Promised ==
  \/ \E c \in Calls : Ask(c)
  \/ Serve
  \/ MoveRoot
  \/ Fail

Next == IF careful' THEN careful /\ Promised ELSE TRUE

Spec == Init /\ [][Next]_vars
===============================================================================
