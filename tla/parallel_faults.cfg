\* Block boundaries wherever the rolling hash may put them, blocks no longer
\* than the window, and failures of the input, the output and the threads.
\* A failure may leave the program waiting for ever, so deadlock is not checked.
CONSTANTS
  Workers = {w1, w2}
  Total = 10
  Block = 4
  DictSize = 4
  SetDict = TRUE
  Rsync = TRUE
  Faults = {"read", "write", "init"}
SPECIFICATION FairSpec
INVARIANTS TypeOK JobIntact FullHistory
PROPERTIES CopyWithinDict WritesStream OneWorkerSuffices
CHECK_DEADLOCK FALSE
