\* Two process slots sharing sixteen heap pages, two-byte pages in an
\* eight-page address space: fork, exec, sbrk by whole and half pages and
\* cleanup, with the heap running out (or another hart taking pages) at
\* every allocation of every call; sbrk may be given a decrement beyond sz.
\* Copies of 0 to 3 bytes at every address are checked in every state.
CONSTANTS
  None = None  Tramp = Tramp
  Procs = {0, 1}
  InitSlot = 0
  Frames <- HeapPages
  PGSIZE = 2
  UserTop = 8
  Incs <- SbrkIncs
  ExecSizes = {1, 3}
  ShrinkPastZero = TRUE
  CopyCounts = {0, 1, 2, 3}
SPECIFICATION Spec
CONSTRAINT WrapBound
INVARIANT FramesAccounted SzMatchesMap PanicOnlyAfterWrap UserCopySound
