\* Any options, one or two files, any failure.
CONSTANTS
  Paths <- Names
  AddSuffix <- WithGz
  StripSuffix <- WithoutSuffix
  Tried <- WithSuffixes
  Arguments <- OneOrTwo
  Disks <- SomeFiles
  Faults = {"open", "convert", "terminate", "close", "signal", "power"}
SPECIFICATION Spec
INVARIANTS TypeOK NothingLost 
