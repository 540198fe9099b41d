SPECIFICATION MCSpec
CONSTANTS
  Insts = {i1, i2, i3}
  Blocks = {b1, b2}
  Outer = {arg}
  Undef = undef
  None = none
  MaxSlots = 2
  MaxLoose = 2
  MaxFresh = 1
SYMMETRY Symmetry
INVARIANTS
  TypeOK
  ValueUsesExact
  BlockUsesSound
  NoDanglingOperand
  PlacesExact
PROPERTIES
  ReplacementIsTotal
