SPECIFICATION OpenedSpec
CONSTANTS
  Pid = {1, 2, 3, 4}
  NUM_TCB = 5
  Idle = 1
  Inode = {i1}
  Inum = {n1}
  File = {f1, f2, f3}
  NOFILE = 1
  Nil = Nil
  NoChan = NoChan
  Chan <- Channels
CHECK_DEADLOCK FALSE
INVARIANTS QueueSound
PROPERTIES StepsKeepContract OnlyStaleWakeupsLose
