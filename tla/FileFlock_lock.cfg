SPECIFICATION LockSpec
CONSTANTS
  Pid = {p1, p2, p3}
  Inode = {i1, i2}
  Inum = {n1, n2}
  File = {f1, f2, f3}
  NOFILE = 2
  Nil = Nil
SYMMETRY Symmetry
CHECK_DEADLOCK FALSE
INVARIANTS TablesSound LocksAccounted SleepersAwaited MutualExclusion
PROPERTIES KeepsPromise
