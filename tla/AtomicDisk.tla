----------------------------- MODULE AtomicDisk -----------------------------
(***************************************************************************)
(* What the write-ahead log promises the file system (spec section 4.8):  *)
(* operations change an in-memory image of the blocks; a commit makes the  *)
(* whole image durable at once; a crash brings the memory back to the last *)
(* durable image.  No intermediate mixture of two images is ever durable.  *)
(***************************************************************************)
CONSTANTS Blocks, Vals

VARIABLES mem,   \* block -> contents seen by file-system operations
          disk   \* block -> contents that survive a crash

Init == /\ mem = [b \in Blocks |-> 0]
        /\ disk = [b \in Blocks |-> 0]

\* An operation changes one block in memory.
Update(b, v) == /\ mem' = [mem EXCEPT ![b] = v]
                /\ UNCHANGED disk

\* A commit makes the current memory image durable, all blocks at once.
Commit == /\ disk' = mem
          /\ UNCHANGED mem

\* A crash loses memory; the durable image is what the system restarts with.
Crash == /\ mem' = disk
         /\ UNCHANGED disk

Next == \/ \E b \in Blocks, v \in Vals : Update(b, v)
        \/ Commit
        \/ Crash

Spec == Init /\ [][Next]_<<mem, disk>>
=============================================================================
