\* What follows a gzip member is a member of another format. No call fails.
CONSTANTS
  Buf = 2
  Files <- Foreign
  Faults = {}
SPECIFICATION Spec
PROPERTY WritesContent
CHECK_DEADLOCK FALSE
