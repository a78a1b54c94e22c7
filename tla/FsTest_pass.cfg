SPECIFICATION RunSpec
CONSTANTS
  p1 = p1
  p2 = p2
  Proc = {p1, p2}
  Nobody = Nobody
  Tester = p1
  Others = 1
  NINODE = 5
  NDisk = 16
  NOFILE = 2
  NFILE = 4
  MAXFILE = 3
  WriteMax = 1
  Image <- FileAndDir
  Calls <- AllCalls
  MaxCalls = 1000
  Crashes = 1
CHECK_DEADLOCK FALSE
INVARIANTS TestsPass TablesSound LinksSound NobodyStuck
PROPERTIES  CallsAtomic ScriptEnds
