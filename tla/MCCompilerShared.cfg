SPECIFICATION SharedSpec
CONSTANTS
  MaxRounds = 12
  MaxEvents = 8
  MaxSteps = 60
  MaxAnswers = 4
  Argument = 7
  Scripts <- MCScripts
INVARIANT SameBehaviour
CHECK_DEADLOCK FALSE
