------------------------------- MODULE MCInode -------------------------------
EXTENDS Inode, TLC
CONSTANTS t1, t2, t3
\* Threads are interchangeable: every call is open to each of them.
ThreadSym == Permutations({t1, t2, t3})
\* No get takes a slot again while put is freeing its inode, between put's
\* drop of meta and its retaking of it (fs/inode.rs:208-221); the race
\* in that window is what MCInode_stale.cfg explores.
PutWindowUntouched ==
  \A t \in Threads : pc[t] \in {"put_drop", "put_end"} => refs[fd[t]] = 1
\* States that differ only in what no step reads are one state: a slot's
\* inum matters while it is referenced or valid (get's hit test, lock's
\* read), its cached dinode only while valid (Loaded, put's test).
Canon ==
  <<disk, dir, dirLk,
    [i \in Slots |-> IF refs[i] = 0 /\ vinum[i] = 0 THEN 0 ELSE minum[i]],
    refs, vinum,
    [i \in Slots |-> IF vinum[i] = 0 THEN [itype |-> "empty", nlink |-> 0]
                                      ELSE cdi[i]],
    lk, pc, fd, tmp, arg, panicked>>
=============================================================================
