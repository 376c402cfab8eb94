\* Any input and any failure. A failure may leave the program waiting for
\* ever, so deadlock is not checked.
CONSTANTS
  Buf = 2
  Files <- AnyFile
  Faults = {"read", "write"}
SPECIFICATION FairSpec
INVARIANTS TypeOK InTurn InflateInTurn CheckedAsWritten
PROPERTIES WritesContent EndsUnlessThrown
CHECK_DEADLOCK FALSE
