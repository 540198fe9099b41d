SPECIFICATION StageSpec
CONSTANTS
  NumBlocks = 3
  CodeSizes = {0, 1, 2, 4}
  Lo <- MCLo
  Hi = 3
  NumNodes = 3
  NumPhis = 2
  CopyRegs = 4
  PhysRegs = 2
  MaxRounds = 1
  MaxLen = 3
  NumVregs = 3
  WordSize = 2
  FrameAlign = 4
  CalleeSaved = {1, 2}
  MaxOutgoing = 2
  MaxBodySlots = 3
INVARIANTS
  PhisKeepValues
  AllocationKeepsValues
  FrameKeepsValues
  IdsArePositions
  FlowPreserved
  AllInRange
  OneSpringboardPerBranch
