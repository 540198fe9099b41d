SPECIFICATION FrontSpec
CONSTANTS
  Names = {"a", "b"}
  Literals = {"1", "true"}
  MaxTokens = 5
  Keys = {k1, k2, k3, k4}
  k1 = k1
  k2 = k2
  k3 = k3
  k4 = k4
  Never = never
  TypeNames = {"S", "T"}
  NoName = ""
  Signed = {"i32"}
  Unsigned = {"u32"}
  Others = {"bool"}
  MaxAsked = 2
  MaxRounds = 12
  MaxEvents = 8
  MaxSteps = 60
  MaxAnswers = 4
  Argument = 7
INVARIANTS
  ParsesBack
  NothingLost
  IdsDistinct
  MembersFit
  ClosureExact
  RefusalsExplained
  SameBehaviour
  BlocksEnd
  AcceptedIsSafe
PROPERTIES
  Answers
CHECK_DEADLOCK FALSE
