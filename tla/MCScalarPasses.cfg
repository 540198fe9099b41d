SPECIFICATION OptSpec
CONSTANTS
  Functions = {1, 2, 3, 4}
  Budget = 11
INVARIANTS
  StaysWellFormed
  EffectsKept
  RunsAreVisited
  NothingLeft
  CalleesFirst
PROPERTIES
  Ends
