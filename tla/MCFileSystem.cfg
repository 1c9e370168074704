SPECIFICATION Spec
CONSTANTS
  NumSectors = 9
  NumDirEntries = 2
  SplitEntry = 1
  NumDirect = 2
  Names = {a, b, c}
  NoName = noName
  Sizes = {0, 2, 3}
  Misread = {{2}, {5}, {9}}
  MaxOpen = 1
SYMMETRY NameSymmetry
INVARIANTS
  FSTypeOK
  Consistent
  ExposedExactly
  MetadataSafe
  NeverAborts
  OpenFilesCurrent
PROPERTY
  ImplementsFileStore
CHECK_DEADLOCK FALSE
