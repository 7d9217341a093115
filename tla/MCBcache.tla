------------------------------ MODULE MCBcache ------------------------------
EXTENDS Bcache, TLC
CONSTANTS p1, p2
\* Every process may use every block.
SharedAccess == [p \in Procs |-> Blocks]
\* p1 uses blocks 1 and 2, p2 blocks 3 and 4.
PrivateAccess == [p \in Procs |-> IF p = p1 THEN {1, 2} ELSE {3, 4}]
\* Under the unlocked pin/unpin race refcnt can leak upward without end:
\* explore only states whose counts stay at or below the wrap value.
RefcntBound == \A i \in Bufs : refcnt[i] <= RefWrap
=============================================================================
