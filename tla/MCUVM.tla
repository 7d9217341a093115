-------------------------------- MODULE MCUVM --------------------------------
EXTENDS UVM, TLC
\* sbrk increments: growth by half and one and a half pages, shrinking by
\* half, one and one and a half pages.
SbrkIncs == {1, 3, -1, -2, -3}
\* The kernel heap: enough for two small address spaces, not for two large ones.
HeapPages == 1 .. 16
\* After sbrk has taken a process's sz below zero (finding 10) the kernel's
\* state no longer means anything; wrapped states are explored only while
\* the wrapped sz lies in the top page and no unwrapped process is live:
\* enough to reach the panics that follow the wrap in fork, exec, sbrk and
\* cleanup.
WrapBound ==
  wrapped # {} =>
    /\ \A p \in wrapped : sz[p] >= MAXVA - PGSIZE
    /\ \A q \in Procs \ wrapped : ~live[q]
=============================================================================
