SPECIFICATION Spec
CONSTANTS
  DIRSIZ = 3
  Alphabets <- Both
  MaxLen = 6
  NOFILE = {1, 16}
  Lines <- AllLines
  MaxDepth = 2
  MaxText = 1
CHECK_DEADLOCK FALSE
INVARIANTS WordsRight  CommandsDoTheirWork FailuresHarmless
