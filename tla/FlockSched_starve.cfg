SPECIFICATION FairOpenedSpec
CONSTANTS
  Pid = {1, 2, 3}
  NUM_TCB = 4
  Idle = 1
  Inode = {i1}
  Inum = {n1}
  File = {f1, f2}
  NOFILE = 2
  Nil = Nil
  NoChan = NoChan
  Chan <- Channels
PROPERTIES NoWriterStarves
