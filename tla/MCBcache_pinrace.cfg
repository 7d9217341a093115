\* Both processes use the same blocks while the log pins and unpins them.
CONSTANTS
  p1 = p1  p2 = p2  NoOne = NoOne  None = None
  Procs = {p1, p2}
  Blocks = {1, 2, 3}
  Vals = {1}
  NBUF = 2
  Access <- SharedAccess
  MaxPins = 1
  RefWrap = 4
SPECIFICATION Spec
CONSTRAINT RefcntBound
PROPERTY NoRecycleWhileInUse
\* A panic halts the kernel: a state with no successor is not a deadlock.
CHECK_DEADLOCK FALSE
