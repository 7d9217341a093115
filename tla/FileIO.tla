------------------------------- MODULE FileIO --------------------------------
(***************************************************************************)
(* Reading and writing regular files: File::fread/fwrite over one shared  *)
(* File offset per open file (fs/file/mod.rs), InodeData::try_iread,       *)
(* try_iwrite, map_blockno and truncate (fs/inode.rs) and the block bitmap *)
(* bm_alloc/bm_free (fs/block.rs).  Blocks are seen through the buffer     *)
(* cache, so data[b] is what every reader sees; the log's transactions are *)
(* the Log module's concern.  A byte is the thread that wrote it or Zero.  *)
(* fwrite takes the inode lock once per batch, so its batches are steps of *)
(* their own; fread and open(O_TRUNC) each hold the lock throughout.       *)
(***************************************************************************)
EXTENDS Integers, SequencesExt, FiniteSetsExt

CONSTANTS Threads, Files, Ino, Inodes, DataBlocks, BSIZE, NDIRECT, NINDIRECT,
          MAXOPBLOCKS, WriteCounts, ReadCounts, PartialCopy, Zero

VARIABLES addrs, size, bitmap, data, ind,   \* the inodes and the disk
          off,                               \* FileRegular.offset
          pc, wfile, wn, wi,                 \* a sys_write in progress
          wret, got,                         \* the last write's and read's result
          panicked

vars == <<addrs, size, bitmap, data, ind, off, pc, wfile, wn, wi, wret, got, panicked>>

MAX_FILE_SIZE == (NDIRECT + NINDIRECT) * BSIZE
\* fwrite's batch: ((MAXOPBLOCKS-4)/2)*BSIZE bytes per transaction.
BATCH == ((MAXOPBLOCKS - 4) \div 2) * BSIZE
Bytes == Threads \cup {Zero}
Slots == 0 .. NDIRECT
NoFile == CHOOSE f \in Files : TRUE   \* wfile of an idle thread

Lesser(a, b) == IF a < b THEN a ELSE b

(* A write in progress on one inode: its addrs, the disk, the block just  *)
(* mapped, the status ("ok" or a panic message), the bytes not copied.    *)
Work(i) == [a |-> addrs[i], bitmap |-> bitmap, data |-> data, ind |-> ind,
            bn |-> 0, st |-> "ok", left |-> 0, size |-> size[i], ret |-> 0]

\* bm_alloc: the lowest free block, marked in the bitmap and zeroed.
Mark(w, b) ==
  [w EXCEPT !.bn = b, !.bitmap = @ \cup {b}, !.data[b] = [k \in 0 .. BSIZE - 1 |-> Zero],
            !.ind[b] = [k \in 0 .. NINDIRECT - 1 |-> 0]]
bm_alloc(w) ==
  IF w.bitmap = DataBlocks THEN [w EXCEPT !.st = "bitmap: cannot alloc any free block"]
  ELSE Mark(w, Min(DataBlocks \ w.bitmap))

\* bm_free: clears the block's bit; a clear bit is a double free.
bm_free(w, b) ==
  IF w.st # "ok" THEN w
  ELSE IF b \notin w.bitmap THEN [w EXCEPT !.st = "bitmap: double freeing a block"]
  ELSE [w EXCEPT !.bitmap = @ \ {b}]

\* Slot s of addrs, allocated when it is 0.
Attach(x, s) == IF x.st # "ok" THEN x ELSE [x EXCEPT !.a[s] = x.bn]
Direct(w, s) == IF w.a[s] # 0 THEN [w EXCEPT !.bn = w.a[s]] ELSE Attach(bm_alloc(w), s)

\* Entry j of indirect block y.bn, allocated when it is 0.
AttachInd(x, ib, j) == IF x.st # "ok" THEN x ELSE [x EXCEPT !.ind[ib][j] = x.bn]
Indirect(y, j) ==
  IF y.st # "ok" THEN y
  ELSE IF y.ind[y.bn][j] # 0 THEN [y EXCEPT !.bn = y.ind[y.bn][j]]
  ELSE AttachInd(bm_alloc(y), y.bn, j)

\* map_blockno: the disk block of the file's k-th block, allocating it.
map_blockno(w, k) ==
  CASE k < NDIRECT -> Direct(w, k)
    [] k < NDIRECT + NINDIRECT -> Indirect(Direct(w, NDIRECT), k - NDIRECT)
    [] OTHER -> [w EXCEPT !.st = "queried offset_bn out of range"]

\* Bytes bo .. bo+n-1 of block d overwritten by t's bytes.
Fill(d, bo, n, t) == [k \in 0 .. BSIZE - 1 |-> IF bo <= k /\ k < bo + n THEN t ELSE d[k]]

(* try_iwrite's loop from the file's block k at byte bo: copy_in of the   *)
(* chunk of block fault fails after part of its c bytes (all of them     *)
(* when the chunk ends at a page end before an unmapped page, which       *)
(* copy_in still walks) and ends the loop before LOG.write and before the *)
(* chunk is counted.                                                       *)
RECURSIVE WriteFrom(_, _, _, _, _, _)
Chunk(x, k, bo, c, t, fault, part) ==
  IF x.st # "ok" THEN x
  ELSE IF k = fault THEN [x EXCEPT !.data[x.bn] = Fill(@, bo, Lesser(part, c), t)]
  ELSE WriteFrom([x EXCEPT !.data[x.bn] = Fill(@, bo, c, t), !.left = @ - c],
                 k + 1, 0, t, fault, part)
WriteFrom(w, k, bo, t, fault, part) ==
  IF w.left = 0 THEN w
  ELSE Chunk(map_blockno(w, k), k, bo, Lesser(BSIZE - bo, w.left), t, fault, part)

\* (mutant) the size taken as end, as if every chunk had been copied.
FinishEnd(x, o, n) ==
  IF x.st # "ok" THEN x
  ELSE [x EXCEPT !.size = IF o + n > @ THEN o + n ELSE @, !.ret = o + n - x.left - o]
\* The size is end - count; it only grows; ret is size - offset.
Finish(x, o, n) ==
  IF x.st # "ok" THEN x
  ELSE [x EXCEPT !.size = IF o + n - x.left > @ THEN o + n - x.left ELSE @,
                 !.ret = o + n - x.left - o]

\* try_iwrite: ret = -1 stands for Err(()).
try_iwrite(w, o, n, t, fault, part) ==
  IF o > w.size \/ o + n > MAX_FILE_SIZE THEN [w EXCEPT !.ret = -1]
  ELSE Finish(WriteFrom([w EXCEPT !.left = n], o \div BSIZE, o % BSIZE, t, fault, part), o, n)

\* The disk block holding the file's k-th block, 0 when unmapped.
BlockOf(i, k) ==
  CASE k < NDIRECT -> addrs[i][k]
    [] addrs[i][NDIRECT] = 0 -> 0
    [] OTHER -> ind[addrs[i][NDIRECT]][k - NDIRECT]
ByteAt(i, p) == data[BlockOf(i, p \div BSIZE)][p % BSIZE]

\* (mutant) truncate freeing the indirect block but not its entries.
TruncListNoEntries(i) ==
  SelectSeq([k \in 1 .. NDIRECT |-> addrs[i][k - 1]] \o << addrs[i][NDIRECT] >>, LAMBDA b : b # 0)
\* The blocks truncate frees, in its order: direct, indirect entries, indirect.
TruncList(i) ==
  SelectSeq([k \in 1 .. NDIRECT |-> addrs[i][k - 1]]
            \o (IF addrs[i][NDIRECT] = 0 THEN << >>
                ELSE [k \in 1 .. NINDIRECT |-> ind[addrs[i][NDIRECT]][k - 1]]
                     \o << addrs[i][NDIRECT] >>), LAMBDA b : b # 0)
-----------------------------------------------------------------------------
Init ==
  /\ addrs = [i \in Inodes |-> [s \in Slots |-> 0]]
  /\ size = [i \in Inodes |-> 0]
  /\ bitmap = {}
  /\ data = [b \in DataBlocks |-> [k \in 0 .. BSIZE - 1 |-> Zero]]
  /\ ind = [b \in DataBlocks |-> [k \in 0 .. NINDIRECT - 1 |-> 0]]
  /\ off = [f \in Files |-> 0]
  /\ pc = [t \in Threads |-> "idle"]
  /\ wfile = [t \in Threads |-> NoFile]
  /\ wn = [t \in Threads |-> 0]
  /\ wi = [t \in Threads |-> 0]
  /\ wret = 0
  /\ got = << >>
  /\ panicked = {}

\* sys_write: count > 0, then fwrite on the File.
sys_write(t, f, n) ==
  /\ panicked = {} /\ pc[t] = "idle"
  /\ pc' = [pc EXCEPT ![t] = "write"]
  /\ wfile' = [wfile EXCEPT ![t] = f]
  /\ wn' = [wn EXCEPT ![t] = n]
  /\ wi' = [wi EXCEPT ![t] = 0]
  /\ UNCHANGED <<addrs, size, bitmap, data, ind, off, wret, got, panicked>>

\* fwrite returns v; its locals are gone.
Return(t, v) ==
  /\ pc' = [pc EXCEPT ![t] = "idle"] /\ wret' = v
  /\ wfile' = [wfile EXCEPT ![t] = NoFile]
  /\ wn' = [wn EXCEPT ![t] = 0] /\ wi' = [wi EXCEPT ![t] = 0]

\* (mutant) the loop of fwrite going on when i + batch = count.
BatchOneMore(t, f, wc, r) ==
  IF r.st # "ok" THEN /\ panicked' = {r.st}
                      /\ UNCHANGED <<addrs, size, bitmap, data, ind, off, pc, wfile, wn, wi, wret>>
  ELSE /\ addrs' = [addrs EXCEPT ![Ino[f]] = r.a]
       /\ size' = [size EXCEPT ![Ino[f]] = r.size]
       /\ bitmap' = r.bitmap /\ data' = r.data /\ ind' = r.ind
       /\ off' = IF r.ret = -1 THEN off ELSE [off EXCEPT ![f] = @ + r.ret]
       /\ CASE r.ret = -1 -> Return(t, -1)
            [] r.ret # wc -> Return(t, wi[t] + r.ret)
            [] wi[t] + BATCH > wn[t] -> Return(t, wn[t])
            [] OTHER -> /\ wi' = [wi EXCEPT ![t] = @ + BATCH] /\ UNCHANGED <<pc, wfile, wn, wret>>
       /\ UNCHANGED panicked

\* One batch of fwrite's loop: try_iwrite of wc bytes at the File's offset
\* under the inode lock, the offset advanced by what it wrote; Err ends the
\* call, a short count returns i + actual, the last batch returns count.
Batch(t, f, wc, r) ==
  IF r.st # "ok" THEN /\ panicked' = {r.st}
                      /\ UNCHANGED <<addrs, size, bitmap, data, ind, off, pc, wfile, wn, wi, wret>>
  ELSE /\ addrs' = [addrs EXCEPT ![Ino[f]] = r.a]
       /\ size' = [size EXCEPT ![Ino[f]] = r.size]
       /\ bitmap' = r.bitmap /\ data' = r.data /\ ind' = r.ind
       /\ off' = IF r.ret = -1 THEN off ELSE [off EXCEPT ![f] = @ + r.ret]
       /\ CASE r.ret = -1 -> Return(t, -1)
            [] r.ret # wc -> Return(t, wi[t] + r.ret)
            [] wi[t] + BATCH >= wn[t] -> Return(t, wn[t])
            [] OTHER -> /\ wi' = [wi EXCEPT ![t] = @ + BATCH] /\ UNCHANGED <<pc, wfile, wn, wret>>
       /\ UNCHANGED panicked

\* Copy faults are chosen among the file's blocks (copy_in of an unmapped
\* user page); PartialCopy lets the failing copy leave bytes behind.
fwrite(t) ==
  /\ panicked = {} /\ pc[t] = "write"
  /\ \E fault \in {-1} \cup 0 .. NDIRECT + NINDIRECT - 1,
        part \in IF PartialCopy THEN 0 .. BSIZE ELSE {0} :
     \E wc \in {Lesser(BATCH, wn[t] - wi[t])} :
     \E r \in {try_iwrite(Work(Ino[wfile[t]]), off[wfile[t]], wc, t, fault, part)} :
        Batch(t, wfile[t], wc, r)
  /\ UNCHANGED got

(* sys_read -> fread -> try_iread -> iread under the inode lock: past the *)
(* end reads nothing; otherwise up to the size.  iread's map_blockno would *)
(* bm_alloc an unmapped block, and LOG.write outside a transaction panics. *)
sys_read(t, f, n) ==
  /\ panicked = {} /\ pc[t] = "idle"
  /\ IF off[f] > size[Ino[f]]
       THEN /\ got' = << >> /\ UNCHANGED <<off, panicked>>
       ELSE \E m \in {Lesser(n, size[Ino[f]] - off[f])} :
            IF \E p \in off[f] .. off[f] + m - 1 : BlockOf(Ino[f], p \div BSIZE) = 0
              THEN /\ panicked' = {"log: this log write is out of recording"}
                   /\ UNCHANGED <<off, got>>
              ELSE /\ got' = [k \in 1 .. m |-> ByteAt(Ino[f], off[f] + k - 1)]
                   /\ off' = [off EXCEPT ![f] = @ + m]
                   /\ UNCHANGED panicked
  /\ UNCHANGED <<addrs, size, bitmap, data, ind, pc, wfile, wn, wi, wret>>

(* File::open(O_TRUNC) re-opening File f, a slot no write is using: the   *)
(* inode is truncated (bm_free of every block, size 0) and f starts at 0. *)
open_trunc(t, f) ==
  /\ panicked = {} /\ pc[t] = "idle"
  /\ \A u \in Threads : pc[u] = "write" => wfile[u] # f
  /\ \E r \in {FoldLeft(bm_free, Work(Ino[f]), TruncList(Ino[f]))} :
     IF r.st # "ok" THEN /\ panicked' = {r.st} /\ UNCHANGED <<addrs, size, bitmap, off>>
     ELSE /\ addrs' = [addrs EXCEPT ![Ino[f]] = [s \in Slots |-> 0]]
          /\ size' = [size EXCEPT ![Ino[f]] = 0]
          /\ bitmap' = r.bitmap
          /\ off' = [off EXCEPT ![f] = 0]
          /\ UNCHANGED panicked
  /\ UNCHANGED <<data, ind, pc, wfile, wn, wi, wret, got>>

Next ==
  \/ \E t \in Threads, f \in Files, n \in WriteCounts : sys_write(t, f, n)
  \/ \E t \in Threads : fwrite(t)
  \/ \E t \in Threads, f \in Files, n \in ReadCounts : sys_read(t, f, n)
  \/ \E t \in Threads, f \in Files : open_trunc(t, f)

Spec == Init /\ [][Next]_vars
-----------------------------------------------------------------------------
TypeOK ==
  /\ addrs \in [Inodes -> [Slots -> DataBlocks \cup {0}]]
  /\ size \in [Inodes -> 0 .. MAX_FILE_SIZE]
  /\ bitmap \subseteq DataBlocks
  /\ off \in [Files -> 0 .. MAX_FILE_SIZE]
  /\ pc \in [Threads -> {"idle", "write"}]
  /\ \A t \in Threads : pc[t] = "write" => wi[t] < wn[t]
  /\ got \in Seq(Bytes)

\* The blocks an inode holds: its direct and indirect slots and the entries
\* of its indirect block, and how many places hold one.
Held(i) ==
  ({addrs[i][s] : s \in Slots}
   \cup (IF addrs[i][NDIRECT] = 0 THEN {} ELSE Range(ind[addrs[i][NDIRECT]]))) \ {0}
Holders(i) ==
  Cardinality({s \in Slots : addrs[i][s] # 0})
  + (IF addrs[i][NDIRECT] = 0 THEN 0
     ELSE Cardinality({j \in DOMAIN ind[addrs[i][NDIRECT]] : ind[addrs[i][NDIRECT]][j] # 0}))

(* The bitmap that bm_alloc and bm_free keep and the blocks that          *)
(* map_blockno hands out and truncate gives back agree: a set bit is held *)
(* by exactly one place of one inode, across copy faults that leave a     *)
(* block mapped past the size, truncates through another File, and the    *)
(* indirect block and its entries.                                        *)
BlocksAccounted ==
  /\ bitmap = UNION {Held(i) : i \in Inodes}
  /\ MapThenSumSet(Holders, Inodes) = Cardinality(bitmap)

(* What fread and fwrite do through shared File offsets implements the    *)
(* byte-sequence file of AbstractFile: every batch is one abstract write  *)
(* of the bytes it reports, every read returns the bytes at the offset.   *)
AF == INSTANCE AbstractFile
        WITH content <- [i \in Inodes |-> [k \in 1 .. size[i] |-> ByteAt(i, k - 1)]],
             aoff <- off, MaxSize <- MAX_FILE_SIZE, Counts <- ReadCounts
FileSpec == AF!Spec

(* The same refinement with every byte seen as Zero: what fwrite returns, *)
(* the offsets, the file sizes and how much each read returns implement   *)
(* AbstractFile even when copy_in fails part-way through a chunk (the     *)
(* bytes it leaves behind are what FileSpec sees).  Interleaved batches of *)
(* two writes, a short write counted as i + actual, and an O_TRUNC through *)
(* another File all keep each offset within the size the spec allows.    *)
AFS == INSTANCE AbstractFile
         WITH Threads <- {Zero},
              content <- [i \in Inodes |-> [k \in 1 .. size[i] |-> Zero]],
              got <- [k \in DOMAIN got |-> Zero],
              aoff <- off, MaxSize <- MAX_FILE_SIZE, Counts <- ReadCounts
FileShapeSpec == AFS!Spec
=============================================================================
