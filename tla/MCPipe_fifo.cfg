\* A pipe shared through sys_pipe, dup and fork by two processes with
\* two fd slots each, over a power-of-two ring: FIFO order across counter
\* wrap-around, no lost wakeup but the killed writer's, and every reader
\* sees the write end close.  Either process may be killed.
CONSTANTS
  p1 = p1  p2 = p2
  Procs = {p1, p2}
  Creator = p1
  NFILE = 2
  PIPESIZE = 2
  WIDTH = 2
  Counts = {1, 3}
  Writing = {p1}
  Killable = {p1, p2}
  UserFaults = TRUE
  DebugBuild = FALSE
  MaxBytes = 6
  NoOne = NoOne
  NoFile = NoFile
SPECIFICATION FairSpec
INVARIANT ReadInOrder
PROPERTY WakeupUnlessWriterKilled ReaderSeesEnd
VIEW Masked
CHECK_DEADLOCK FALSE
