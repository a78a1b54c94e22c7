SPECIFICATION FairSpec
CONSTANTS
  p = p
  c = c
  Parent = p
  Child = c
  Pid <- BothPids
  Crashes = 1
CHECK_DEADLOCK FALSE
INVARIANTS AllTestsPass ResultsFresh
PROPERTIES BothEnd
