\* Three processes create, open, close, unlink and link two names in one
\* directory; five on-disk inodes (one per name and per open, unlinked file) and six
\* cache slots (two Inodes per process at most), release build; only
\* behaviours in which no get takes a slot inside put's freeing window.
CONSTANTS
  t1 = t1  t2 = t2  t3 = t3  None = None
  Threads = {t1, t2, t3}
  Names = {a, b}
  Inums = {1, 2, 3, 4, 5}
  NINODE = 6
  DebugBuild = FALSE
SPECIFICATION Spec
SYMMETRY ThreadSym
CONSTRAINT PutWindowUntouched
INVARIANT TypeOK RefsAccurate ValidMatchesInum NlinkAccurate
   NoPanic
VIEW Canon
