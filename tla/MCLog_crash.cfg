\* Crash atomicity of group commit and no lost wakeup in begin_op: two
\* processes, two blocks, two crashes, weakly fair scheduling.
CONSTANTS
  p1 = p1
  p2 = p2
  p3 = p3
  Procs = {p1, p2}
  Blocks = {1, 2}
  Vals = {1, 2}
  LOGSIZE = 6
  MAXOPBLOCKS = 2
  MaxCrashes = 2
SPECIFICATION FairSpec
INVARIANT TypeOK LogReservation
PROPERTY AtomicCommit SleeperWoken
