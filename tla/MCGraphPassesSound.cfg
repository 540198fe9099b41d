SPECIFICATION LooplessSpec
CONSTANTS
  Vertices = {entry, b1, b2, b3}
  Entry = entry
  Fake = fake
  None = none
  Undef = undef
SYMMETRY Symmetry
INVARIANTS
  DominanceSound
