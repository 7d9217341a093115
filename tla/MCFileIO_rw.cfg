\* Three threads writing and reading one file through two shared Files.
\* BSIZE 2, NDIRECT 2, NINDIRECT 1: files up to 6 bytes in 3 blocks, the
\* last behind an indirect block; MAXOPBLOCKS 6: fwrite batches of 2
\* bytes, so a 4-byte write takes two transactions.  copy_in may fail
\* part-way through any chunk, leaving some or all of its bytes behind.
CONSTANTS
  t1 = t1  t2 = t2  t3 = t3  f1 = f1  f2 = f2  i1 = i1  z = z
  Threads = {t1, t2, t3}
  Files = {f1, f2}
  Inodes = {i1}
  Ino <- MCIno
  Zero = z
  DataBlocks = {1, 2, 3, 4}
  BSIZE = 2
  NDIRECT = 2
  NINDIRECT = 1
  MAXOPBLOCKS = 6
  WriteCounts = {1, 2, 4}
  ReadCounts = {1, 2}
  PartialCopy = TRUE
SPECIFICATION Spec
VIEW ShapeMasked
SYMMETRY ThreadSym
INVARIANTS TypeOK BlocksAccounted
PROPERTIES FileShapeSpec
