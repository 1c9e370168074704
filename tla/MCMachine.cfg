SPECIFICATION Spec
CONSTANTS
  Decode <- MCDecode
  Alu <- MCAlu
  Images <- MCImages
  Regs = {0, 1}
  StackReg = 1
  ResultReg = 1
  StackGap = 1
  PageSize = 1
  Processes = {p, q}
  Results = {1, 3, 5}
  CopyTo = {0, 1}
  NumPhysPages = 3
  BitAnd <- MCAnd
  BitOr <- MCOr
  BitXor <- MCXor
  W = 4
  ByteValues = 2
  BitsInWord = 3
  ImagePageSize = 3
  ImageStackSize = 2
  MaxInt = 127
SYMMETRY ProcessSymmetry
INVARIANTS
  ComputationsRight
  ImageLoaded
  ProgramsRight
PROPERTIES
  RunsAlone
CHECK_DEADLOCK FALSE
