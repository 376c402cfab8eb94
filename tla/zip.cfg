\* Two names, writes that fail or stop midway, seeks that fail, and a program that
\* may be killed.
CONSTANTS
  Names <- TwoNames
  MaxUnits = 5
  Faults = {"write", "torn", "seek", "crash"}
SPECIFICATION Spec
INVARIANTS TypeOK ReadsBack NeverHalf
