\* Two processes, release build, every interleaving: a close that frees an
\* unlinked inode races a create that allocates the same inum.
CONSTANTS
  t1 = t1  t2 = t2  t3 = t3  None = None
  Threads = {t1, t2}
  Names = {a, b}
  Inums = {1, 2, 3, 4}
  NINODE = 4
  DebugBuild = FALSE
SPECIFICATION Spec
INVARIANT ValidMatchesInum
