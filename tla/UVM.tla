-------------------------------- MODULE UVM ---------------------------------
(***************************************************************************)
(* User address spaces: the page-table operations of src/mm/pagetable.rs  *)
(* (walk_alloc, map_pages, uvm_alloc, uvm_dealloc, uvm_unmap, uvm_copy,    *)
(* alloc_proc_pagetable, dealloc_proc_pagetable and Drop) as they are used *)
(* by alloc_proc, fork, sbrk, exec and a process's cleanup.                *)
(*                                                                         *)
(* The Sv39 tree is scaled down: ENTRIES entries per table instead of 512, *)
(* three levels, PGSIZE bytes per page, and usize wraps at the top of the  *)
(* virtual address space (the code's usize is wider, but a size that      *)
(* wraps behaves the same way: pg_round_up of a wrapped size overflows to  *)
(* 0 or covers pages that were never mapped).  TRAMPOLINE is the last page *)
(* and TRAPFRAME the one below it, so both share one level-0 table.        *)
(*                                                                         *)
(* A page table belongs to its process (or to the forking/exec'ing thread *)
(* building it), so each call is one atomic step; the physical pages come *)
(* from the shared kernel heap, where an allocation can fail at any point  *)
(* because other harts allocate too.  A call's allocations are therefore  *)
(* given a budget: the first `bud` succeed while pages are free, the next *)
(* fails.  Page contents are left out; of the permission bits only U is   *)
(* kept: user pages have it, the trampoline and trapframe do not, and     *)
(* exec clears it on the stack's guard page.  copy_out and copy_in, which *)
(* system calls use on this table, are operators over it.                 *)
(***************************************************************************)
EXTENDS Integers, FiniteSets, FiniteSetsExt

CONSTANTS
  Procs,          \* process slots; the first one (InitSlot) runs initcode
  InitSlot,
  Frames,         \* physical pages of the kernel heap
  PGSIZE,         \* bytes per page
  UserTop,        \* bound: user sizes sbrk and exec grow to (physical memory)
  Incs,           \* the increments user programs pass to sbrk
  ExecSizes,      \* the memsz of the one PT_LOAD segment exec'd images have
  ShrinkPastZero, \* whether programs may pass sbrk a decrement beyond their size
  CopyCounts,     \* byte counts of the copy_out / copy_in calls checked
  None, Tramp     \* an absent entry; the trampoline's (kernel text) frame

ENTRIES == 2
NPAGES == ENTRIES * ENTRIES * ENTRIES
MAXVA == NPAGES * PGSIZE
VPNs == 0 .. NPAGES - 1
TRAMPOLINE == NPAGES - 1
TRAPFRAME == NPAGES - 2
\* The level-1 and level-0 tables on the walk to page v; <<>> is the root.
L1(v) == << v \div (ENTRIES * ENTRIES) >>
L0(v) == << v \div (ENTRIES * ENTRIES), (v \div ENTRIES) % ENTRIES >>
Nodes == {<<>>} \cup {L1(v) : v \in VPNs} \cup {L0(v) : v \in VPNs}
\* A budget that no call exhausts.
Ample == Cardinality(Frames)

ASSUME /\ InitSlot \in Procs /\ PGSIZE \in Nat \ {0}
       /\ UserTop + 2 * PGSIZE <= TRAPFRAME * PGSIZE
       /\ Incs \subseteq -MAXVA .. MAXVA /\ ExecSizes \subseteq 1 .. UserTop
       /\ ShrinkPastZero \in BOOLEAN /\ None \notin Frames /\ Tramp \notin Frames

VARIABLES
  live,     \* slot -> whether it holds a process (ALLOCATED or later)
  sz,       \* ProcData.sz
  tf,       \* ProcData.tf: the trapframe page
  leaf,     \* slot -> page -> the frame its leaf PTE maps, or None
  tbl,      \* slot -> table node -> the frame holding that table, or None
  free,     \* the free pages of the kernel heap
  nouser,   \* slot -> user pages whose leaf PTE has U cleared (uvm_clear)
  panicked,
  wrapped   \* history: slots whose sz sbrk has taken below zero

vars == <<live, sz, tf, leaf, tbl, free, nouser, panicked, wrapped>>

-----------------------------------------------------------------------------
(* One call works on a record w: the page table being changed (leaf, tbl), *)
(* the free pages, the allocation budget, the allocations made (n), and  *)
(* st, which is "ok", "fail" (an Err or None on the way back) or the       *)
(* message of a panic.                                                     *)

NoLeaves == [v \in VPNs |-> None]
NoTables == [n \in Nodes |-> None]
Work(lf, tb, fr, b) ==
  [leaf |-> lf, tbl |-> tb, free |-> fr, bud |-> b, n |-> 0, st |-> "ok"]
Panic(w, msg) == [w EXCEPT !.st = msg]
Fail(w) == [w EXCEPT !.st = IF @ = "ok" THEN "fail" ELSE @]
Ok(w) == w.st = "ok"

\* RawSinglePage::try_new / Box::try_new_zeroed: the kernel heap hands out a
\* free page, or fails.
CanAlloc(w) == w.bud > 0 /\ w.free # {}
Fresh(w) == Min(w.free)
Take(w) == [w EXCEPT !.free = @ \ {Fresh(w)}, !.bud = @ - 1, !.n = @ + 1]
\* RawSinglePage::from_raw_and_drop
Give(w, f) == [w EXCEPT !.free = @ \cup {f}]

\* pg_round_up, in wrapping usize arithmetic.
PgRoundUp(a) == (((a + PGSIZE - 1) \div PGSIZE) * PGSIZE) % MAXVA

\* walk_alloc: a missing level-1, then level-0, table is allocated; a
\* failed allocation returns None and keeps the tables made so far.
EnsureTable(w, n) ==
  IF w.tbl[n] # None THEN w
  ELSE IF CanAlloc(w) THEN [Take(w) EXCEPT !.tbl[n] = Fresh(w)]
  ELSE Fail(w)
walk_alloc(w, v) == LET w1 == EnsureTable(w, L1(v))
                    IN IF Ok(w1) THEN EnsureTable(w1, L0(v)) ELSE w1
\* walk / walk_mut find the leaf PTE only if both tables are there.
Walks(w, v) == w.tbl[L1(v)] # None /\ w.tbl[L0(v)] # None

\* map_pages of one page (every caller maps PGSIZE bytes).
map_pages(w, v, f) ==
  LET w1 == walk_alloc(w, v)
  IN IF ~Ok(w1) THEN w1
     ELSE IF w1.leaf[v] # None THEN Panic(w1, "remap")
     ELSE [w1 EXCEPT !.leaf[v] = f]

\* uvm_unmap(va, count, freeing), va = v * PGSIZE.
RECURSIVE uvm_unmap(_, _, _, _)
uvm_unmap(w, v, count, freeing) ==
  IF count = 0 \/ ~Ok(w) THEN w
  ELSE IF ~Walks(w, v) THEN Panic(w, "unable to find va available")
  ELSE IF w.leaf[v] = None THEN Panic(w, "this pte is not valid")
  ELSE LET w1 == [w EXCEPT !.leaf[v] = None]
       IN uvm_unmap(IF freeing THEN Give(w1, w.leaf[v]) ELSE w1,
                    v + 1, count - 1, freeing)

\* A uvm_dealloc that rounds the new size down.
uvm_deallocDown(w, old, new) ==
  IF new >= old THEN w
  ELSE LET oa == PgRoundUp(old)
           na == (new \div PGSIZE) * PGSIZE
       IN IF na < oa THEN uvm_unmap(w, na \div PGSIZE, (oa - na) \div PGSIZE, TRUE)
          ELSE w
\* uvm_dealloc(old_size, new_size).
uvm_dealloc(w, old, new) ==
  IF new >= old THEN w
  ELSE LET oa == PgRoundUp(old)
           na == PgRoundUp(new)
       IN IF na < oa THEN uvm_unmap(w, na \div PGSIZE, (oa - na) \div PGSIZE, TRUE)
          ELSE w

\* uvm_alloc's loop from cur (old_size rounded up is base): a page that
\* cannot be allocated, or mapped, makes it give back what it mapped.
RECURSIVE AllocFrom(_, _, _, _)
AllocFrom(w, cur, new, base) ==
  IF cur >= new THEN w
  ELSE IF ~CanAlloc(w) THEN Fail(uvm_dealloc(w, cur, base))
  ELSE LET f == Fresh(w)
           w1 == map_pages(Take(w), cur \div PGSIZE, f)
       IN IF Ok(w1) THEN AllocFrom(w1, cur + PGSIZE, new, base)
          ELSE IF w1.st = "fail"
            THEN Fail(uvm_dealloc(Give([w1 EXCEPT !.st = "ok"], f), cur, base))
          ELSE w1
\* A uvm_alloc that starts at old_size without rounding it up.
uvm_allocNoRound(w, old, new) ==
  IF new <= old THEN w ELSE AllocFrom(w, old, new, old)
uvm_alloc(w, old, new) ==
  IF new <= old THEN w ELSE AllocFrom(w, PgRoundUp(old), new, PgRoundUp(old))

\* uvm_copy's loop over the parent's pages (pl, pt) into the child w.
RECURSIVE CopyFrom(_, _, _, _, _)
CopyFrom(pl, pt, w, i, size) ==
  IF i >= size \/ ~Ok(w) THEN w
  ELSE LET v == i \div PGSIZE IN
       IF ~(pt[L1(v)] # None /\ pt[L0(v)] # None) THEN Panic(w, "pte not exist")
       ELSE IF pl[v] = None THEN Panic(w, "cloning not valid pte")
       ELSE IF ~CanAlloc(w) THEN Fail(uvm_unmap(w, 0, v, TRUE))
       ELSE LET f == Fresh(w)
                w1 == map_pages(Take(w), v, f)
            IN IF Ok(w1) THEN CopyFrom(pl, pt, w1, i + PGSIZE, size)
               ELSE IF w1.st = "fail"
                 THEN Fail(uvm_unmap(Give([w1 EXCEPT !.st = "ok"], f), 0, v, TRUE))
               ELSE w1
uvm_copy(pl, pt, w, size) == CopyFrom(pl, pt, w, 0, size)

\* A Drop that clears the root but frees none of the tables.
DropKeepTables(w) ==
  IF \E v \in VPNs : w.leaf[v] # None THEN Panic(w, "freeing a pte leaf")
  ELSE [w EXCEPT !.tbl = NoTables]
\* Drop for PageTable: every valid non-leaf entry's table is freed, from the
\* root down; a valid leaf left in a level-0 table panics.
Drop(w) ==
  IF \E v \in VPNs : w.leaf[v] # None THEN Panic(w, "freeing a pte leaf")
  ELSE [w EXCEPT !.tbl = NoTables,
                 !.free = @ \cup {w.tbl[n] : n \in {m \in Nodes : w.tbl[m] # None}}]

\* alloc_proc_pagetable(trapframe): a zeroed root, then the trampoline and
\* the trapframe pages; a failure returns None and the Box is dropped.
alloc_proc_pagetable(w, t) ==
  IF ~CanAlloc(w) THEN Fail(w)
  ELSE LET w1 == map_pages([Take(w) EXCEPT !.tbl[<<>>] = Fresh(w)], TRAMPOLINE, Tramp)
           w2 == IF Ok(w1) THEN map_pages(w1, TRAPFRAME, t) ELSE w1
       IN IF w2.st = "fail" THEN Fail(Drop([w2 EXCEPT !.st = "ok"])) ELSE w2

\* A dealloc_proc_pagetable that frees the trampoline and trapframe too.
dealloc_proc_pagetableFreeAll(w, size) ==
  LET w1 == uvm_unmap(uvm_unmap(w, TRAMPOLINE, 1, TRUE), TRAPFRAME, 1, TRUE)
  IN IF size > 0 THEN uvm_unmap(w1, 0, PgRoundUp(size) \div PGSIZE, TRUE) ELSE w1
\* dealloc_proc_pagetable(proc_size), then the table is dropped.
dealloc_proc_pagetable(w, size) ==
  LET w1 == uvm_unmap(uvm_unmap(w, TRAMPOLINE, 1, FALSE), TRAPFRAME, 1, FALSE)
  IN IF size > 0 THEN uvm_unmap(w1, 0, PgRoundUp(size) \div PGSIZE, TRUE) ELSE w1
FreeTable(w, size) == LET w1 == dealloc_proc_pagetable(w, size)
                      IN IF Ok(w1) THEN Drop(w1) ELSE w1

\* uvm_clear(va): walk_mut to the page (exec has just mapped it) and
\* clear_user on its PTE; `s` is the set of pages with U cleared.
uvm_clear(s, v) == s \cup {v}

-----------------------------------------------------------------------------
\* A call's result w installed as process p's page table.
Install(p, w) ==
  /\ leaf' = [leaf EXCEPT ![p] = w.leaf]
  /\ tbl' = [tbl EXCEPT ![p] = w.tbl]
  /\ free' = w.free
  /\ panicked' = IF w.st \in {"ok", "fail"} THEN panicked ELSE panicked \cup {w.st}

\* Boot: user_init's alloc_proc (a trapframe page and alloc_proc_pagetable)
\* and uvm_init, which maps one zeroed page of initcode at 0 (sz = PGSIZE).
Boot ==
  LET w0 == Work(NoLeaves, NoTables, Frames \ {Min(Frames)}, Cardinality(Frames))
      w1 == alloc_proc_pagetable(w0, Min(Frames))
  IN map_pages(Take(w1), 0, Fresh(w1))

Init ==
  /\ live = [p \in Procs |-> p = InitSlot]
  /\ sz = [p \in Procs |-> IF p = InitSlot THEN PGSIZE ELSE 0]
  /\ tf = [p \in Procs |-> IF p = InitSlot THEN Min(Frames) ELSE None]
  /\ leaf = [p \in Procs |-> IF p = InitSlot THEN Boot.leaf ELSE NoLeaves]
  /\ tbl = [p \in Procs |-> IF p = InitSlot THEN Boot.tbl ELSE NoTables]
  /\ free = Boot.free
  /\ nouser = [p \in Procs |-> {}]
  /\ panicked = {}
  /\ wrapped = {}

Live == panicked = {}

\* Proc::fork: alloc_proc takes the first unused slot c, a trapframe page
\* and a fresh page table (on failure the trapframe page is given back);
\* then uvm_copy of the parent's sz bytes, each page mapped with the
\* parent's permission bits (read_perm), so the guard stays cleared.  When the copy fails, cleanup
\* frees the trapframe and the child's table (its sz is still 0).
ForkTable(b) ==
  LET w0 == Work(NoLeaves, NoTables, free, b)
  IN IF CanAlloc(w0) THEN alloc_proc_pagetable(Take(w0), Fresh(w0)) ELSE Fail(w0)
ForkCopy(p, b) == uvm_copy(leaf[p], tbl[p], ForkTable(b), sz[p])
fork(p) ==
  /\ Live /\ live[p] /\ \E q \in Procs : ~live[q] /\ free # {}
  /\ \E b \in 1 .. ForkCopy(p, Ample).n :
     LET c == Min({q \in Procs : ~live[q]})
         t == Min(free)
         w1 == ForkTable(b)
         w2 == ForkCopy(p, b)
     IN \/ /\ w1.st = "fail"
           /\ free' = Give(w1, t).free
           /\ UNCHANGED <<live, sz, tf, leaf, tbl, nouser, panicked, wrapped>>
        \/ /\ w1.st # "fail" /\ w2.st = "fail"
           /\ Install(c, FreeTable([Give(w2, t) EXCEPT !.st = "ok"], 0))
           /\ UNCHANGED <<live, sz, tf, nouser, wrapped>>
        \/ /\ w1.st # "fail" /\ w2.st # "fail"
           /\ Install(c, w2)
           /\ live' = [live EXCEPT ![c] = TRUE]
           /\ sz' = [sz EXCEPT ![c] = sz[p]]
           /\ tf' = [tf EXCEPT ![c] = t]
           /\ nouser' = [nouser EXCEPT ![c] = nouser[p]]
           /\ wrapped' = IF p \in wrapped THEN wrapped \cup {c} ELSE wrapped

\* Proc::sbrk(increment): grow with uvm_alloc (sz changes only on Ok), or
\* shrink with uvm_dealloc to old_size - |increment|, computed in usize.
Grow(p, new, b) == uvm_alloc(Work(leaf[p], tbl[p], free, b), sz[p], new)
sbrk(p, inc) ==
  /\ Live /\ live[p] /\ inc # 0
  /\ inc > 0 => sz[p] + inc <= UserTop
  /\ inc < 0 => ShrinkPastZero \/ sz[p] + inc >= 0
  /\ LET new == (sz[p] + inc) % MAXVA IN
     \/ /\ inc > 0
        /\ \E b \in 0 .. Grow(p, new, Ample).n :
             LET w == Grow(p, new, b)
             IN /\ Install(p, w)
                /\ sz' = [sz EXCEPT ![p] = IF w.st = "fail" THEN sz[p] ELSE new]
     \/ /\ inc < 0
        /\ Install(p, uvm_dealloc(Work(leaf[p], tbl[p], free, 0), sz[p], new))
        /\ sz' = [sz EXCEPT ![p] = new]
  \* Pages sbrk maps get U; an unmapped page loses its cleared bit.
  /\ nouser' = [nouser EXCEPT ![p] = {v \in @ : leaf'[p][v] # None}]
  /\ wrapped' = IF sz[p] + inc < 0 THEN wrapped \cup {p} ELSE wrapped
  /\ UNCHANGED <<live, tf>>

\* elf::load for an image with one PT_LOAD segment of n bytes at 0: a new
\* page table, uvm_alloc(0, n), load_seg (which may fail), then two pages
\* (guard and stack) from pg_round_up(size), uvm_clear of the guard page,
\* and the copy_out of the arguments (which may not fit: "args").  Each
\* failure frees the new table with the size reached so far; success
\* installs it and frees the old one with the old sz.
ExecTable(p, b) == alloc_proc_pagetable(Work(NoLeaves, NoTables, free, b), tf[p])
ExecImage(p, n, b) ==
  LET w1 == ExecTable(p, b) IN IF Ok(w1) THEN uvm_alloc(w1, 0, n) ELSE w1
ExecStack(p, n, b) ==
  LET w2 == ExecImage(p, n, b)
  IN IF Ok(w2) THEN uvm_alloc(w2, PgRoundUp(n), PgRoundUp(n) + 2 * PGSIZE) ELSE w2
exec(p, n) ==
  /\ Live /\ live[p]
  /\ \E b \in 0 .. ExecStack(p, n, Ample).n, fails \in {"none", "load", "args"} :
     \E w1 \in {ExecTable(p, b)}, w2 \in {ExecImage(p, n, b)}, w3 \in {ExecStack(p, n, b)} :
     LET ps == PgRoundUp(n)
         Err(w, size) == FreeTable([w EXCEPT !.st = "ok"], size)
         done == Ok(w3) /\ fails = "none" /\ Walks(w3, ps \div PGSIZE)
     IN \E r \in {CASE ~Ok(w1)                          -> w1
                    [] w2.st = "fail"                   -> Err(w2, 0)
                    [] w2.st # "ok"                     -> w2
                    [] fails = "load"                   -> Err(w2, n)
                    [] w3.st = "fail"                   -> Err(w3, ps)
                    [] w3.st # "ok"                     -> w3
                    [] ~Walks(w3, ps \div PGSIZE)       -> Panic(w3, "cannot find available pte")
                    [] fails = "args"                   -> Err(w3, ps + 2 * PGSIZE)
                    [] OTHER                            -> w3} :
        IF done
          THEN \E old \in {FreeTable(Work(leaf[p], tbl[p], r.free, 0), sz[p])} :
               /\ Install(p, [r EXCEPT !.free = old.free, !.st = old.st])
               /\ sz' = [sz EXCEPT ![p] = ps + 2 * PGSIZE]
               /\ nouser' = [nouser EXCEPT ![p] = uvm_clear({}, ps \div PGSIZE)]
               /\ wrapped' = IF old.st = "ok" THEN wrapped \ {p} ELSE wrapped
          ELSE /\ free' = r.free
               /\ panicked' = IF r.st \in {"ok", "fail"} THEN panicked
                              ELSE panicked \cup {r.st}
               /\ UNCHANGED <<leaf, tbl, sz, nouser, wrapped>>
  /\ UNCHANGED <<live, tf>>

\* Proc cleanup, when the parent reaps an exited process (init never
\* exits): the trapframe page is freed, then dealloc_proc_pagetable(sz)
\* and the drop of the table.
cleanup(p) ==
  /\ Live /\ live[p] /\ p # InitSlot
  /\ LET w == FreeTable(Work(leaf[p], tbl[p], free \cup {tf[p]}, 0), sz[p])
     IN /\ Install(p, w)
        /\ wrapped' = IF w.st = "ok" THEN wrapped \ {p} ELSE wrapped
  /\ live' = [live EXCEPT ![p] = FALSE]
  /\ sz' = [sz EXCEPT ![p] = 0]
  /\ tf' = [tf EXCEPT ![p] = None]
  /\ nouser' = [nouser EXCEPT ![p] = {}]

\* The panic handler: print, set PANICKED and spin; nothing else runs.
Halted == ~Live /\ UNCHANGED vars

Next ==
  \/ \E p \in Procs : fork(p) \/ cleanup(p)
  \/ \E p \in Procs, i \in Incs : sbrk(p, i)
  \/ \E p \in Procs, n \in ExecSizes : exec(p, n)
  \/ Halted

Spec == Init /\ [][Next]_vars

-----------------------------------------------------------------------------
(* The copies between kernel and user memory that system calls make on    *)
(* process p's table.  They change page contents only, which the model    *)
(* leaves out, so they are operators whose result is whether the call     *)
(* returns Ok and the pages whose bytes it wrote or read.                  *)

\* The pages below the trapframe: the ones uvm_init, uvm_alloc and uvm_copy
\* map with U set.
UserPages == 0 .. TRAPFRAME - 1
\* A walk that ignores the U bit.
UserPteNoU(p, v) ==
  /\ v \in VPNs
  /\ tbl[p][L1(v)] # None /\ tbl[p][L0(v)] # None /\ leaf[p][v] # None

\* walk_addr_mut / walk_addr: Ok only if the walk finds both tables and
\* the leaf PTE is valid with U set ("va not mapped", "pte not valid",
\* "pte not mapped for user" otherwise).
UserPte(p, v) ==
  /\ v \in UserPages /\ v \notin nouser[p]
  /\ tbl[p][L1(v)] # None /\ tbl[p][L0(v)] # None /\ leaf[p][v] # None

\* The loop of copy_out and of copy_in from page address va, with count
\* bytes left at address a: walk the page, copy up to its end, and return
\* Ok if what is left fits strictly inside it (off_from_end > count);
\* otherwise go on to the next page, even with no byte left.
RECURSIVE CopyPages(_, _, _, _, _)
CopyPages(p, va, a, count, touched) ==
  IF ~UserPte(p, va \div PGSIZE) THEN [ok |-> FALSE, pages |-> touched]
  ELSE LET ofe == PGSIZE - (a - va)
           t2 == IF count > 0 THEN touched \cup {va \div PGSIZE} ELSE touched
       IN IF ofe > count THEN [ok |-> TRUE, pages |-> t2]
          ELSE CopyPages(p, va + PGSIZE, a + ofe, count - ofe, t2)

\* copy_out(src, dst, count): nothing to do for count 0; a dst above MAXVA
\* fails VirtAddr::try_from; otherwise the loop from pg_round_down(dst).
copy_out(p, dst, count) ==
  IF count = 0 THEN [ok |-> TRUE, pages |-> {}]
  ELSE IF dst > MAXVA THEN [ok |-> FALSE, pages |-> {}]
  ELSE CopyPages(p, (dst \div PGSIZE) * PGSIZE, dst, count, {})
\* copy_in(src, dst, count): for count 0 only the walk of src's page; its
\* callers keep src below MAXVA (the unwrap of VirtAddr::try_from).
copy_in(p, src, count) ==
  IF count = 0 THEN [ok |-> UserPte(p, src \div PGSIZE), pages |-> {}]
  ELSE CopyPages(p, (src \div PGSIZE) * PGSIZE, src, count, {})

-----------------------------------------------------------------------------
\* The frames process p holds: its tables, its user pages and its trapframe.
TableFrames(p) == {tbl[p][n] : n \in {m \in Nodes : tbl[p][m] # None}}
PageFrames(p) == {leaf[p][v] : v \in {u \in UserPages : leaf[p][u] \in Frames}}
Held(p) == TableFrames(p) \cup PageFrames(p) \cup (IF live[p] THEN {tf[p]} ELSE {})
NHeld(p) == Cardinality({m \in Nodes : tbl[p][m] # None})
            + Cardinality({u \in UserPages : leaf[p][u] \in Frames})
            + (IF live[p] THEN 1 ELSE 0)

TypeOK ==
  /\ live \in [Procs -> BOOLEAN]
  /\ sz \in [Procs -> 0 .. MAXVA - 1]
  /\ tf \in [Procs -> Frames \cup {None}]
  /\ leaf \in [Procs -> [VPNs -> Frames \cup {None, Tramp}]]
  /\ tbl \in [Procs -> [Nodes -> Frames \cup {None}]]
  /\ free \subseteq Frames
  /\ wrapped \subseteq Procs

\* No page of the kernel heap is lost or owned twice: the free pages and
\* the pages every process holds (tables, user pages, trapframe) add up to
\* the heap, through fork, exec and cleanup and through every allocation
\* failure on their way (uvm_alloc's and uvm_copy's clean-up, the Drop of
\* a half-built table), for as long as the kernel runs and no process's
\* sz is one sbrk took below zero (after that, uvm_dealloc can unmap and
\* free the trapframe page the process still uses: finding 10).
FramesAccounted == Live /\ wrapped = {} =>
  /\ free \cup UNION {Held(p) : p \in Procs} = Frames
  /\ Cardinality(free) + MapThenSumSet(NHeld, Procs) = Cardinality(Frames)

\* The spec's per-process address space: user memory is mapped exactly
\* from address 0 up to sz, and the trampoline and this process's
\* trapframe are mapped at the top; through fork, exec, sbrk by whole and
\* half pages, failing allocations and cleanup.  The one exception is a
\* process whose sz sbrk took below zero: sys_sbrk passes the user's
\* decrement on unchecked, sbrk stores old_size - |increment| wrapped, and
\* uvm_dealloc of a larger size unmaps nothing (README finding 10).
SzMatchesMap ==
  Live => \A p \in Procs : live[p] /\ p \notin wrapped =>
    /\ \A v \in UserPages : leaf[p][v] # None <=> v < PgRoundUp(sz[p]) \div PGSIZE
    /\ leaf[p][TRAMPOLINE] = Tramp /\ leaf[p][TRAPFRAME] = tf[p]

\* The user memory of process p as the spec describes it: the pages below
\* sz, less the stack guard page that exec made inaccessible.
UserMem(p) == {v \in UserPages : v < PgRoundUp(sz[p]) \div PGSIZE} \ nouser[p]
\* The pages that bytes a .. a+n-1 lie on.
Touched(a, n) == {v \in VPNs : n > 0 /\ a \div PGSIZE <= v /\ v <= (a + n - 1) \div PGSIZE}

\* A system call's copy_out or copy_in that returns Ok has written or read
\* only the calling process's user memory, and all of the pages its bytes
\* lie on: never the guard page, the trapframe or the trampoline, and
\* never a page sbrk has given back, whatever fork, exec and sbrk did
\* before.  Checked for every address up to MAXVA and every count in
\* CopyCounts, for every process whose sz has not wrapped below zero (for
\* one that has, sz no longer says where its memory is; SzMatchesMap).
UserCopySound ==
  Live => \A p \in Procs : live[p] /\ p \notin wrapped =>
    \A a \in 0 .. MAXVA, n \in CopyCounts :
      \A r \in {copy_out(p, a, n), copy_in(p, a, n)} :
        r.ok => r.pages = Touched(a, n) /\ r.pages \subseteq UserMem(p)

\* The reference for the two copies: a copy of n bytes at a succeeds
\* exactly when every page its bytes lie on is user memory (spec 4.3:
\* page-by-page copies validated through the page table, over user memory
\* from 0 to the process size, less the guard page).
UserCopyExact ==
  \A p \in Procs : live[p] =>
    \A a \in 0 .. MAXVA - 1, n \in CopyCounts \ {0} :
      \A r \in {copy_out(p, a, n), copy_in(p, a, n)} :
        r.ok <=> Touched(a, n) \subseteq UserMem(p)

\* No kernel panic in the page-table code: remap, freeing a leaf, an unmap
\* or copy of a page that is not mapped.  (MCUVM_sbrk.cfg: violated once
\* sbrk's size wraps, README finding 10.)
NoPanic == panicked = {}

\* The page-table code panics (remap, freeing a leaf, an unmap or copy of a
\* page that is not mapped, a missing PTE) only once some process's sz has
\* gone below zero through sbrk: no sequence of fork, exec, in-range sbrk
\* and cleanup, with any of their page allocations failing, reaches one.
PanicOnlyAfterWrap == panicked # {} => wrapped # {}
=============================================================================
