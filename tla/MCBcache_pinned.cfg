\* The log pins p1's blocks while p2 recycles buffers for its own blocks:
\* pins with no other process touching the pinned block.
CONSTANTS
  p1 = p1  p2 = p2  NoOne = NoOne  None = None
  Procs = {p1, p2}
  Blocks = {1, 2, 3, 4}
  Vals = {1}
  NBUF = 3
  Access <- PrivateAccess
  MaxPins = 1
  RefWrap = 9
SPECIFICATION Spec
INVARIANT TypeOK RefcntAccurate ReadSeesLatest
PROPERTY NoRecycleWhileInUse
