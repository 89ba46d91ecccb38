\* All well-formed files of up to seven characters, a buffer of four.
SPECIFICATION Spec
CONSTANTS
  Files <- mcFiles
  BUFSIZE = 4
  Refused <- mcRefused
  Unreadable <- mcUnreadable
INVARIANTS
  TypeOK
  NothingInvented
  NothingLost
\* panic() halts the machine.
CHECK_DEADLOCK FALSE
