-------------------------------- MODULE KHeap --------------------------------
(***************************************************************************)
(* What the kernel heap promises its callers (GlobalAlloc for KernelHeap): *)
(* every block it hands out is a run of free memory, aligned to its size   *)
(* and at least as large as the request, never overlapping the allocator's *)
(* own metadata, the unusable tail or another live block; dealloc gives a *)
(* live block back.  An allocation may fail (null) at any time.            *)
(* Memory is counted in leaves (LEAF_SIZE bytes) from the heap base.       *)
(***************************************************************************)
EXTENDS Naturals

CONSTANTS Leaves, Requests

VARIABLES
  reserved,   \* leaves the allocator keeps for itself (metadata, tail)
  blocks      \* the live blocks: [leaves, req], req the size asked for

\* The leaves a .. a+n-1.
Run(a, n) == {l \in Leaves : a <= l /\ l < a + n}

InUse == reserved \cup UNION {b.leaves : b \in blocks}

Alloc(r) ==
  \E a \in Leaves, n \in {2^k : k \in 0..10} :
    /\ n >= r /\ a % n = 0 /\ a + n - 1 \in Leaves
    /\ Run(a, n) \cap InUse = {}
    /\ blocks' = blocks \cup {[leaves |-> Run(a, n), req |-> r]}
    /\ UNCHANGED reserved

Dealloc(b) ==
  /\ b \in blocks
  /\ blocks' = blocks \ {b}
  /\ UNCHANGED reserved

Next == \/ \E r \in Requests : Alloc(r)
        \/ \E b \in blocks : Dealloc(b)

Init == reserved \subseteq Leaves /\ blocks = {}

Spec == Init /\ [][Next]_<<reserved, blocks>>
=============================================================================
