SPECIFICATION PartSpec
CONSTANTS
  WordBits = 4
  Bits = 3
  Consts = {0, 1, 2, 7}
  ArgValues = {0, 1, 5, 7}
  FirstOps <- MCFirst
  SecondOps <- MCSecond
INVARIANTS
  FoldsAreExact
  ResultsKept
  NothingSimpler
PROPERTIES
  RewritesEnd
