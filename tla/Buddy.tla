-------------------------------- MODULE Buddy --------------------------------
(***************************************************************************)
(* The kernel heap of mm/kalloc.rs: BuddySystem behind KernelHeap's        *)
(* SpinLock, with the intrusive free lists of mm/list.rs.  The lock makes *)
(* every alloc and dealloc one step.  Addresses are counted in leaves      *)
(* (LEAF_SIZE bytes) from base; level k blocks are 2^k leaves.  init lays  *)
(* out its metadata at [0, meta) and marks the tail [actual_end, 2^max)    *)
(* that lies past the end of memory; both are chosen by Init from small    *)
(* sets.  The callers' blocks are the ghost `held'.                         *)
(***************************************************************************)
EXTENDS Naturals, FiniteSets, SequencesExt

CONSTANTS
  NSIZES,      \* BuddySystem.nsizes that init computes for HeapSizes
  HeapSizes,   \* actual_end - base, in leaves
  MetaSizes,   \* cur - base after the metadata, in leaves
  Requests,    \* layout.size() of the requests, in leaves
  MaxHeld,     \* bound: blocks held by callers at once
  Null

MaxSize == NSIZES - 1                   \* max_size
Levels == 0 .. MaxSize
Total == 2^MaxSize                      \* blk_size(max_size)
Leaves == 0 .. Total - 1
BlkSize(k) == 2^k                       \* blk_size
NBlk(k) == 2^(MaxSize - k)              \* n_blk
Blk(k) == 0 .. NBlk(k) - 1
BlkIndex(k, a) == a \div BlkSize(k)     \* blk_index
BlkIndexNext(k, a) ==                   \* blk_index_next
  IF a % BlkSize(k) > 0 THEN a \div BlkSize(k) + 1 ELSE a \div BlkSize(k)
BlkAddr(k, bi) == bi * BlkSize(k)       \* blk_addr
\* List::push: the node goes in right after the list head.
push(l, a) == Cons(a, l)
\* List::remove: the node unlinks itself from the list that holds it.
remove(l, a) == Remove(l, a)
Buddy(bi) == IF bi % 2 = 0 THEN bi + 1 ELSE bi - 1

RECURSIVE Log2(_)
Log2(n) == IF n > 1 THEN 1 + Log2(n \div 2) ELSE 0

\* init's nsizes: log2(size) + 1, one more if size exceeds the largest block.
NSizes(h) == IF h > 2^Log2(h) THEN Log2(h) + 2 ELSE Log2(h) + 1

ASSUME /\ \A h \in HeapSizes : NSizes(h) = NSIZES /\ h < Total
       /\ \A m \in MetaSizes : 0 < m /\ m < Total \div 2
       /\ Requests \subseteq 1 .. Total /\ Null \notin Leaves

VARIABLES
  actual_end, \* BuddySystem.actual_end
  meta,       \* the metadata's extent, returned by mark_meta
  alloc,      \* level -> block index -> BuddyInfo alloc bit
  split,      \* level -> block index -> BuddyInfo split bit (unused at 0)
  free,       \* level -> BuddyInfo.free, head first
  held,       \* ghost: the callers' live blocks [addr, k, req]
  ret,        \* ghost: what the last alloc returned
  panicked

vars == <<actual_end, meta, alloc, split, free, held, ret, panicked>>

\* mark(left, right) on one level: the blocks meeting [left, right).
Marked(k, l, r) == {bi \in Blk(k) : BlkIndex(k, l) <= bi /\ bi < BlkIndexNext(k, r)}
\* alloc and split after mark_meta and mark_unavail (split is not set at 0).
InitBits(m, h, withLeaf) ==
  [k \in Levels |-> [bi \in Blk(k) |->
      (k > 0 \/ withLeaf) /\ bi \in Marked(k, 0, m) \cup Marked(k, h, Total)]]

\* init_free_pair: the free one of a half-marked pair, as a list to push.
InitFreePair(a, k, bi) ==
  IF a[k][bi] # a[k][Buddy(bi)]
    THEN <<IF a[k][bi] THEN BlkAddr(k, Buddy(bi)) ELSE BlkAddr(k, bi)>>
    ELSE <<>>

\* init_free: at every level below the top, the pair at the left edge of
\* the free memory, then (guarded by left < right) the one at the right.
InitFree(m, h) ==
  LET a == InitBits(m, h, TRUE) IN
  [k \in Levels |->
     IF k = MaxSize THEN <<>>
     ELSE (IF m < h THEN InitFreePair(a, k, BlkIndex(k, h)) ELSE <<>>)
          \o InitFreePair(a, k, BlkIndexNext(k, m))]

Init ==
  \E h \in HeapSizes, m \in MetaSizes :
    LET f == InitFree(m, h)
        total == MapThenSumSet(LAMBDA k : Len(f[k]) * BlkSize(k), Levels)
    IN /\ actual_end = h /\ meta = m
       /\ alloc = InitBits(m, h, TRUE)
       /\ split = InitBits(m, h, FALSE)
       /\ free = f
       /\ held = {} /\ ret = Null
       \* init's final check of free against meta and unavail.
       /\ panicked = IF total # Total - m - (Total - h)
                       THEN {"buddy system: meta, free, unavail"} ELSE {}

Live == panicked = {}

\* A smalli one level too small for requests that are not a power of two.
SmallIShort(r) == IF r <= 1 THEN 0 ELSE Log2(r - 1)
\* alloc's smalli: the smallest level whose block holds the request.
SmallI(r) == IF r <= 1 THEN 0 ELSE Log2(r - 1) + 1

\* A split loop that pushes the kept low half instead of the high one.
RECURSIVE SplitDownSelf(_, _, _, _)
SplitDownSelf(st, k, small, a) ==
  IF k > small
    THEN SplitDownSelf([st EXCEPT !.split[k][BlkIndex(k, a)] = TRUE,
                                  !.alloc[k-1][BlkIndex(k-1, a)] = TRUE,
                                  !.free[k-1] = push(@, a)],
                       k - 1, small, a)
    ELSE st
\* alloc's split loop: from level k down to smalli, mark block a split,
\* keep its low half (alloc bit set) and push the high half on the free
\* list one level down.
RECURSIVE SplitDown(_, _, _, _)
SplitDown(st, k, small, a) ==
  IF k > small
    THEN SplitDown([st EXCEPT !.split[k][BlkIndex(k, a)] = TRUE,
                              !.alloc[k-1][BlkIndex(k-1, a)] = TRUE,
                              !.free[k-1] = push(@, a + BlkSize(k-1))],
                   k - 1, small, a)
    ELSE st

\* BuddySystem::alloc (via KernelHeap::alloc, under the heap lock): find the
\* first non-empty free list at or above smalli, pop its head, mark it
\* allocated and split it down to smalli.  With every list empty it returns
\* null, which the try_new_* callers turn into an error.
balloc(r) ==
  /\ Live /\ Cardinality(held) < MaxHeld
  /\ LET small == SmallI(r)
         fit == {k \in small .. MaxSize : free[k] # <<>>}
     IN IF fit = {}
          THEN /\ ret' = Null
               /\ UNCHANGED <<alloc, split, free, held>>
          ELSE LET k == CHOOSE j \in fit : \A i \in fit : j <= i
                   a == Head(free[k])
                   st == SplitDown([alloc |-> [alloc EXCEPT ![k][BlkIndex(k, a)] = TRUE],
                                    split |-> split,
                                    free |-> [free EXCEPT ![k] = Tail(@)]],
                                   k, small, a)
               IN /\ alloc' = st.alloc /\ split' = st.split /\ free' = st.free
                  /\ held' = held \cup {[addr |-> a, k |-> small, req |-> r]}
                  /\ ret' = a
  /\ UNCHANGED <<actual_end, meta, panicked>>

\* dealloc's size lookup: the first level i whose parent block (at i+1)
\* holding a is split; nsizes if there is none.
SizeOf(sp, a) ==
  LET s == {i \in 0 .. MaxSize - 1 : sp[i+1][BlkIndex(i+1, a)]}
  IN IF s = {} THEN NSIZES ELSE CHOOSE i \in s : \A j \in s : i <= j

\* A merge loop that leaves the merged parent's split bit set.
RECURSIVE MergeKeepSplit(_, _, _)
MergeKeepSplit(st, k, a) ==
  IF k < MaxSize
    THEN LET bi == BlkIndex(k, a)
             b == Buddy(bi)
             st1 == [st EXCEPT !.alloc[k][bi] = FALSE]
         IN IF st1.alloc[k][b]
              THEN [st1 EXCEPT !.free[k] = push(@, a)]
              ELSE LET ba == BlkAddr(k, b)
                       na == IF b % 2 = 0 THEN ba ELSE a
                   IN MergeKeepSplit([st1 EXCEPT !.free[k] = remove(@, ba)], k + 1, na)
    ELSE [st EXCEPT !.free[k] = push(@, a)]
\* A dealloc that never coalesces: it frees the block at its own level.
MergeNoCoalesce(st, k, a) ==
  [st EXCEPT !.alloc[k][BlkIndex(k, a)] = FALSE, !.free[k] = push(@, a)]
\* A merge loop that goes on from the freed block's address even when the
\* buddy is the lower half.
RECURSIVE MergeLowAddr(_, _, _)
MergeLowAddr(st, k, a) ==
  IF k < MaxSize
    THEN LET bi == BlkIndex(k, a)
             b == Buddy(bi)
             st1 == [st EXCEPT !.alloc[k][bi] = FALSE]
         IN IF st1.alloc[k][b]
              THEN [st1 EXCEPT !.free[k] = push(@, a)]
              ELSE MergeLowAddr([st1 EXCEPT !.free[k] = remove(@, BlkAddr(k, b)),
                                            !.split[k+1][BlkIndex(k+1, a)] = FALSE],
                                k + 1, a)
    ELSE [st EXCEPT !.free[k] = push(@, a)]
\* dealloc's merge loop: clear block a's alloc bit at level k; while its
\* buddy is free, unlink the buddy from its free list, clear the parent's
\* split bit and go up; finally push the merged block.
RECURSIVE Merge(_, _, _)
Merge(st, k, a) ==
  IF k < MaxSize
    THEN LET bi == BlkIndex(k, a)
             b == Buddy(bi)
             st1 == [st EXCEPT !.alloc[k][bi] = FALSE]
         IN IF st1.alloc[k][b]
              THEN [st1 EXCEPT !.free[k] = push(@, a)]
              ELSE LET ba == BlkAddr(k, b)
                       na == IF b % 2 = 0 THEN ba ELSE a
                   IN Merge([st1 EXCEPT !.free[k] = remove(@, ba),
                                        !.split[k+1][BlkIndex(k+1, na)] = FALSE],
                            k + 1, na)
    ELSE [st EXCEPT !.free[k] = push(@, a)]

\* BuddySystem::dealloc (under the heap lock) of a block a caller holds,
\* with the layout it was allocated with.
bdealloc(b) ==
  /\ Live
  /\ LET a == b.addr
         k == SizeOf(split, a)
     IN CASE a >= actual_end ->
               /\ panicked' = {"dealloc ptr out of range"}
               /\ UNCHANGED <<alloc, split, free, held>>
          [] k = NSIZES ->
               /\ panicked' = {"dealloc cannot recycle ptr"}
               /\ UNCHANGED <<alloc, split, free, held>>
          [] b.req > BlkSize(k) ->
               /\ panicked' = {"layout > blk size"}
               /\ UNCHANGED <<alloc, split, free, held>>
          [] OTHER ->
               /\ LET st == Merge([alloc |-> alloc, split |-> split, free |-> free], k, a)
                  IN alloc' = st.alloc /\ split' = st.split /\ free' = st.free
               /\ held' = held \ {b}
               /\ UNCHANGED panicked
  /\ UNCHANGED <<actual_end, meta, ret>>

Next == \/ \E r \in Requests : balloc(r)
        \/ \E b \in held : bdealloc(b)

Spec == Init /\ [][Next]_vars

-----------------------------------------------------------------------------
\* The leaves a .. a+n-1.
Run(a, n) == {l \in Leaves : a <= l /\ l < a + n}
\* What init reserved: the metadata and the tail past actual_end.
Reserved == Run(0, meta) \cup Run(actual_end, Total - actual_end)

TypeOK ==
  /\ actual_end \in HeapSizes /\ meta \in MetaSizes
  /\ \A k \in Levels : /\ alloc[k] \in [Blk(k) -> BOOLEAN]
                       /\ split[k] \in [Blk(k) -> BOOLEAN]
                       /\ free[k] \in Seq({BlkAddr(k, bi) : bi \in Blk(k)})
  /\ held \subseteq [addr : Leaves, k : Levels, req : Requests]
  /\ ret \in Leaves \cup {Null}
  /\ panicked \subseteq {"buddy system: meta, free, unavail", "dealloc ptr out of range",
                         "dealloc cannot recycle ptr", "layout > blk size"}

\* Every leaf of the heap is in exactly one of: a block on a free list (at
\* one position of one list), a block a caller holds, or init's reserved
\* metadata and tail.  This is what init_free, the split loop of alloc and
\* the merge loop of dealloc must keep between them; a block pushed twice,
\* a buddy left on its list after a merge or a half never pushed breaks it.
FreeListsExact ==
  Live =>
    \A l \in Leaves :
      LET onList == {<<k, i>> \in Levels \X (1 .. Total) :
                       i <= Len(free[k]) /\ l \in Run(free[k][i], BlkSize(k))}
          inHeld == {h \in held : l \in Run(h.addr, BlkSize(h.k))}
      IN Cardinality(onList) + Cardinality(inHeld)
           + (IF l \in Reserved THEN 1 ELSE 0) = 1

\* dealloc recovers a block's size from the split bits alone (the layout
\* is only checked against it): for every block a caller holds, the lookup
\* finds exactly the level alloc gave it.  A split bit left set by a merge,
\* or never set by a split, makes dealloc free the wrong amount.
DeallocFindsSize == \A h \in held : SizeOf(split, h.addr) = h.k

\* Once every block is given back the heap has coalesced completely: the
\* free lists hold the same blocks as right after init, so no sequence of
\* allocations fragments the heap for good.
Coalesced ==
  Live /\ held = {} =>
    \A k \in Levels : ToSet(free[k]) = ToSet(InitFree(meta, actual_end)[k])

\* The buddy system implements the heap's promise (KHeap): every alloc hands
\* out an aligned block large enough for the request and disjoint from the
\* reserved memory and the live blocks; every dealloc frees a live block.
Heap == INSTANCE KHeap WITH
          reserved <- Reserved,
          blocks <- {[leaves |-> Run(h.addr, BlkSize(h.k)), req |-> h.req] : h \in held}
HeapSpec == Heap!Spec
====
