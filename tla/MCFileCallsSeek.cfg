SPECIFICATION MCSpec
CONSTANTS
  Procs = {p, q}
  Names = {n}
  Addresses = {a1, a2}
  MaxFile = 4
  Bytes = {0, 1}
  MaxLen = 3
  FixedLen = 3
  SectorSize = 2
  Junk = junk
  NULL = null
  Unset = unset
  EarlyNames = {"a", "b"}
  EarlyBytes = {1}
  TableSize = 9
  EarlyMaxLen = 1
SYMMETRY FileSymmetry
PROPERTY
  OpenUntilClosed
CHECK_DEADLOCK FALSE
