\* A default block of 2 stands for 128 KB, 8 for 2 MB, and
\* the inputs take every block size and number of threads.
CONSTANTS
  Inputs = {0, 1, 4, 7, 8, 34}
  DictSize = 2
  IoBuf = 4
  MaxPiece = 2
  Faults = {"read", "write"}
  Configs <- AllConfigs
  DefaultBlock = 2
  LargestBlock = 8
  BlockSizes = {2, 4, 8}
  MaxChunk = 4
  MaxCalls = 2
  MaxHashed = 8
SPECIFICATION FairSpec
INVARIANTS TypeOK Independent ClenCounts PathsGrounded ThreadsBusy
PROPERTIES WritesStream LoopsEnd
