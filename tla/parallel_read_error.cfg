\* Only failures of kind "read". The program may stop, so deadlock is not checked.
CONSTANTS
  Workers = {w1, w2}
  Total = 3
  Block = 2
  DictSize = 2
  SetDict = TRUE
  Rsync = FALSE
  Faults = {"read"}
SPECIFICATION FairSpec
PROPERTIES CallEnds
CHECK_DEADLOCK FALSE
