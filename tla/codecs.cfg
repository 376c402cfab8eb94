\* Fields that hold up to 160, 40 and 1 in place of LOW32 and 0xFFFF; lengths, names
\* and comments below, on and beyond these limits. Bytes of two bits; a counter of zlib
\* that the rows of some images just fit and those of others exceed; one change to a
\* PNG file.
CONSTANTS
  Low32 = 160
  MaxShort = 40
  MaxCount = 1
  Lengths = {1, 129, 160, 161}
  Names = {1, 40, 41}
  Notes = {0, 40, 41}
  Comments = {0, 20, 21, 40, 41}
  MaxMembers = 2
  Words = {0, 1, 2}
  Highs = {0, 1}
  Sig = 2
  Gaps <- BoundaryGaps
  MaxHits = 2
  Base = 4
  MaxUInt = 12
  Images <- SmallImages
  Modes = {0, 1, 2, 3, 4, 5, 6}
  ChunkSizes = {3, 16}
  MaxDamages = 1
SPECIFICATION CodecsSpec
INVARIANTS PngTypeOK ReadsBack DescriptorChecked CutsWhereHit AlwaysTheImage IntactDecodes BestFilter
CHECK_DEADLOCK FALSE
