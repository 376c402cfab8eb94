\* More threads than buffers, and a pool without a limit.
CONSTANTS
  Threads = {t1, t2, t3}
  Limits <- NoneOrThree
  MaxHeld = 2
  Faults = {"alloc"}
SPECIFICATION Spec
SYMMETRY ThreadSymmetry
INVARIANTS TypeOK Exclusive WithinLimit SleepsOnlyWhenOut
