SPECIFICATION GenericSpec
CONSTANTS
  Names = {"a", "b"}
  Literals = {"1", "true"}
  MaxTokens = 5
INVARIANTS ParsesBack
CHECK_DEADLOCK FALSE
