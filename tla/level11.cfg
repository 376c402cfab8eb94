\* Level 11 with two threads, no failures.
CONSTANTS
  Inputs = {0, 1, 4, 7, 8, 34}
  DictSize = 2
  IoBuf = 4
  MaxPiece = 2
  Faults = {}
  Configs <- Zopfli
  DefaultBlock = 2
  LargestBlock = 8
  BlockSizes = {2, 4, 8}
  MaxChunk = 4
  MaxCalls = 2
  MaxHashed = 8
SPECIFICATION Spec
INVARIANT LevelsWork

