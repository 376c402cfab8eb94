\* Enough blocks to go round the write ring (12 slots) while the pool has
\* 9 input buffers; no rsync, no faults.
CONSTANTS
  Workers = {w1, w2, w3}
  Total = 15
  Block = 1
  DictSize = 1
  SetDict = TRUE
  Rsync = FALSE
  Faults = {}
SPECIFICATION Spec
SYMMETRY WorkerSymmetry
INVARIANTS RingSlotFree NoLostWakeup AllReleased
