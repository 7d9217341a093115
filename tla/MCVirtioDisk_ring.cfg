\* Three processes on six descriptors: two requests fill the ring, so the
\* third finds no free descriptor at all and sleeps on &free[0].  (With
\* six descriptors alloc3_desc never fails part-way; MCVirtioDisk_alloc3.cfg
\* shows that case.)
CONSTANTS
  p1 = p1  p2 = p2  p3 = p3
  Procs = {p1, p2, p3}
  NUM = 6
  None = None
SPECIFICATION FairSpec
INVARIANT TypeOK
PROPERTY RequestCompletes FreeWakes
