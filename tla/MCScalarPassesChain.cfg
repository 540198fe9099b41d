SPECIFICATION ChainSpec
CONSTANTS
  Functions = {1, 2, 3, 4}
  Budget = 11
INVARIANTS
  NoPlaceholderLeft
