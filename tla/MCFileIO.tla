------------------------------- MODULE MCFileIO -------------------------------
EXTENDS FileIO, TLC
CONSTANTS t1, t2, t3, f1, f2, i1, z
\* Both Files are open on the one inode, as after two open() calls.
MCIno == [f \in {f1, f2} |-> i1]
\* Threads are interchangeable: every call is open to each of them, but
\* they are also the bytes they write, so the symmetry relabels both.
ThreadSym == Permutations(Threads)
(* States that differ only in what no step reads again are one state: the  *)
(* bytes and indirect entries of free blocks (bm_alloc zeroes a block     *)
(* before its first use) and the last write's return value.               *)
FreeMasked ==
  <<addrs, size, bitmap, [b \in bitmap |-> data[b]], [b \in bitmap |-> ind[b]],
    off, pc, wfile, wn, wi, got, panicked>>
(* As FreeMasked, with the bytes themselves left out: no guard reads a     *)
(* byte, so the states that differ only in them have the same futures, and *)
(* TypeOK, BlocksAccounted and FileShapeSpec do not read them either.      *)
ShapeMasked ==
  <<addrs, size, bitmap, [b \in bitmap |-> ind[b]],
    off, pc, wfile, wn, wi, Len(got), panicked>>
(* Spec.md: a write that would exceed MAX_FILE_SIZE fails before writing.  *)
(* fwrite writes batch by batch, so a sys_write that returns Err has      *)
(* written nothing only when its first batch failed.                       *)
WriteFailsWhole ==
  [][\A t \in Threads : pc[t] = "write" /\ pc'[t] = "idle" /\ wret' = -1 => wi[t] = 0]_vars
=============================================================================
