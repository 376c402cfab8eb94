\* Inputs that inflate cannot make sense of. The program may stop, so deadlock
\* is not checked.
CONSTANTS
  Buf = 2
  Files <- Uninflatable
  Faults = {}
SPECIFICATION FairSpec
PROPERTIES CallEnds
CHECK_DEADLOCK FALSE
