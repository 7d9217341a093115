------------------------------- MODULE Bcache -------------------------------
(***************************************************************************)
(* The buffer cache of src/fs/bio.rs.  A spinlock (ctrl) protects the LRU  *)
(* list and every buffer's dev/blockno/refcnt; each buffer's data is under *)
(* its own sleeplock.  bread = bget (lookup or recycle under ctrl) then    *)
(* the sleeplock and, if the buffer is not valid, a disk read.  Dropping a *)
(* Buf releases the sleeplock and then, under ctrl, brelse decrements      *)
(* refcnt and moves a free buffer to the head of the list.                 *)
(*                                                                         *)
(* pin and unpin (used by the log) change refcnt through a raw pointer     *)
(* WITHOUT the ctrl lock: a load and a store, between which other harts    *)
(* may change refcnt under the lock.  That data race is modelled by its    *)
(* possible outcomes: the load and the store are separate steps.           *)
(*                                                                         *)
(* Callers follow the file system's discipline: a buffer they modified is  *)
(* either written (bwrite) or handed to the log (pin) before release, and  *)
(* the log unpins a block only after installing it (bwrite).               *)
(***************************************************************************)
EXTENDS Naturals, Sequences, FiniteSets

CONSTANTS
  Procs,      \* processes using the cache
  Blocks,     \* block numbers (one device)
  Vals,       \* contents written into buffers (0 is the initial contents)
  NBUF,       \* consts::fs::NBUF
  Access,     \* process -> the blocks it reads and writes
  MaxPins,    \* bound: at most MaxPins blocks are logged (pinned) at once
  RefWrap,    \* the value usize underflow wraps to (stands for usize::MAX)
  NoOne, None

Bufs == 1 .. NBUF
Contents == Vals \cup {0}
ASSUME /\ NBUF \in Nat \ {0} /\ 0 \notin Vals
       /\ Access \in [Procs -> SUBSET Blocks]
       /\ None \notin Blocks /\ NoOne \notin Procs

VARIABLES
  lru,        \* BufLru: buffer indices from head (most recent) to tail
  bufBlock,   \* BufCtrl.blockno (None for the initial dev 0 / block 0)
  refcnt,     \* BufCtrl.refcnt
  valid,      \* BufInner.valid
  slock,      \* holder of each buffer's data sleeplock
  data,       \* each buffer's data
  disk,       \* block -> contents on disk
  pc,         \* process -> control location
  hb,         \* process -> Buf.index of the buffer it holds
  blk,        \* process -> Buf.blockno it asked for
  tmp,        \* process -> value loaded by an unfinished pin / unpin
  dirty,      \* process -> modified its buffer since the last bwrite / pin
  pinned,     \* blocks the log has pinned and not yet unpinned
  latest,     \* block -> the last contents written into it by anyone
  panicked

vars == <<lru, bufBlock, refcnt, valid, slock, data, disk, pc, hb, blk, tmp,
          dirty, pinned, latest, panicked>>

\* Bcache::new and binit: the list links inner[0] .. inner[NBUF-1].
Init ==
  /\ lru = [k \in 1 .. NBUF |-> k]
  /\ bufBlock = [i \in Bufs |-> None]
  /\ refcnt = [i \in Bufs |-> 0]
  /\ valid = [i \in Bufs |-> FALSE]
  /\ slock = [i \in Bufs |-> NoOne]
  /\ data = [i \in Bufs |-> 0]
  /\ disk = [b \in Blocks |-> 0]
  /\ pc = [p \in Procs |-> "idle"]
  /\ hb = [p \in Procs |-> 1]
  /\ blk = [p \in Procs |-> None]
  /\ tmp = [p \in Procs |-> 0]
  /\ dirty = [p \in Procs |-> FALSE]
  /\ pinned = {}
  /\ latest = [b \in Blocks |-> 0]
  /\ panicked = {}

Live == panicked = {}

\* A recycle that also takes a buffer with a single reference.
RecyclePosHeld == {k \in 1 .. NBUF : refcnt[lru[k]] <= 1}
\* BufLru::recycle: the buffer with refcnt 0 nearest the tail.
RecyclePos == {k \in 1 .. NBUF : refcnt[lru[k]] = 0}
Victim == lru[CHOOSE k \in RecyclePos : \A j \in RecyclePos : j <= k]

\* BufLru::find_cached: the buffers tagged with the block.
Cached(b) == {i \in Bufs : bufBlock[i] = b}

\* A recycle that leaves the valid flag alone.
InvalidateNone(v, i) == v
\* `self.bufs[index].valid.store(false, ...)` on a recycled buffer.
Invalidate(v, i) == [v EXCEPT ![i] = FALSE]

\* Bcache::bget, under ctrl: a cached buffer gets refcnt + 1; otherwise the
\* least recently used free buffer is retagged, refcnt 1, and invalidated;
\* with none free, panic.
bget(p, b) ==
  /\ Live /\ pc[p] = "idle" /\ b \in Access[p]
  /\ blk' = [blk EXCEPT ![p] = b]
  /\ IF Cached(b) # {}
       THEN LET i == CHOOSE i \in Cached(b) : TRUE
            IN /\ refcnt' = [refcnt EXCEPT ![i] = @ + 1]
               /\ hb' = [hb EXCEPT ![p] = i]
               /\ pc' = [pc EXCEPT ![p] = "wait"]
               /\ UNCHANGED <<bufBlock, valid, panicked>>
     ELSE IF RecyclePos # {}
       THEN /\ bufBlock' = [bufBlock EXCEPT ![Victim] = b]
            /\ refcnt' = [refcnt EXCEPT ![Victim] = @ + 1]
            /\ valid' = Invalidate(valid, Victim)
            /\ hb' = [hb EXCEPT ![p] = Victim]
            /\ pc' = [pc EXCEPT ![p] = "wait"]
            /\ UNCHANGED panicked
     ELSE /\ panicked' = panicked \cup {"no usable buffer"}
          /\ UNCHANGED <<bufBlock, refcnt, valid, hb, pc>>
  /\ UNCHANGED <<lru, slock, data, disk, tmp, dirty, pinned, latest>>

\* The rest of bread: take the data sleeplock (waiting while another
\* process holds it) and read the block from disk if the buffer is invalid.
bread(p) ==
  /\ Live /\ pc[p] = "wait" /\ slock[hb[p]] = NoOne
  /\ slock' = [slock EXCEPT ![hb[p]] = p]
  /\ IF valid[hb[p]] THEN UNCHANGED <<data, valid>>
     ELSE /\ data' = [data EXCEPT ![hb[p]] = disk[blk[p]]]
          /\ valid' = [valid EXCEPT ![hb[p]] = TRUE]
  /\ pc' = [pc EXCEPT ![p] = "held"]
  /\ UNCHANGED <<lru, bufBlock, refcnt, disk, hb, blk, tmp, dirty, pinned,
                 latest, panicked>>

\* A file-system operation changes the buffer's data in place.
Modify(p, v) ==
  /\ Live /\ pc[p] = "held"
  /\ data' = [data EXCEPT ![hb[p]] = v]
  /\ latest' = [latest EXCEPT ![blk[p]] = v]
  /\ dirty' = [dirty EXCEPT ![p] = TRUE]
  /\ UNCHANGED <<lru, bufBlock, refcnt, valid, slock, disk, pc, hb, blk, tmp,
                 pinned, panicked>>

\* Buf::bwrite: DISK.rw(self, true) writes the data to the Buf's block.
bwrite(p) ==
  /\ Live /\ pc[p] = "held"
  /\ disk' = [disk EXCEPT ![blk[p]] = data[hb[p]]]
  /\ dirty' = [dirty EXCEPT ![p] = FALSE]
  /\ UNCHANGED <<lru, bufBlock, refcnt, valid, slock, data, pc, hb, blk, tmp,
                 pinned, latest, panicked>>

\* A LOG.write that pins a block already in the log a second time.
absorb_repin(p) ==
  /\ Live /\ pc[p] = "held" /\ dirty[p] /\ blk[p] \in pinned
  /\ refcnt' = [refcnt EXCEPT ![hb[p]] = @ + 1]
  /\ dirty' = [dirty EXCEPT ![p] = FALSE]
  /\ UNCHANGED <<lru, bufBlock, valid, slock, data, disk, pc, hb, blk, tmp,
                 pinned, latest, panicked>>
\* LOG.write for a block already in the header: the buffer is dropped
\* without a pin; the pinned copy in the cache carries the change.
absorb(p) ==
  /\ Live /\ pc[p] = "held" /\ dirty[p] /\ blk[p] \in pinned
  /\ dirty' = [dirty EXCEPT ![p] = FALSE]
  /\ UNCHANGED <<lru, bufBlock, refcnt, valid, slock, data, disk, pc, hb, blk,
                 tmp, pinned, latest, panicked>>

\* Buf::pin, called by LOG.write for a block not yet in the log (LOG.write
\* reserves the header slot under the log lock, so MaxPins counts pins in
\* progress as well):
\* `let rc = *self.rc_ptr;` ...
pin_load(p) ==
  /\ Live /\ pc[p] = "held" /\ blk[p] \notin pinned
  /\ Cardinality(pinned \cup {blk[q] : q \in {q \in Procs : pc[q] = "pin"}})
       < MaxPins
  /\ tmp' = [tmp EXCEPT ![p] = refcnt[hb[p]]]
  /\ pc' = [pc EXCEPT ![p] = "pin"]
  /\ UNCHANGED <<lru, bufBlock, refcnt, valid, slock, data, disk, hb, blk,
                 dirty, pinned, latest, panicked>>

\* ... `*self.rc_ptr = rc + 1;`  The block is now the log's to install.
pin_store(p) ==
  /\ Live /\ pc[p] = "pin"
  /\ refcnt' = [refcnt EXCEPT ![hb[p]] = tmp[p] + 1]
  /\ pinned' = pinned \cup {blk[p]}
  /\ dirty' = [dirty EXCEPT ![p] = FALSE]
  /\ pc' = [pc EXCEPT ![p] = "held"]
  /\ UNCHANGED <<lru, bufBlock, valid, slock, data, disk, hb, blk, tmp,
                 latest, panicked>>

\* Buf::unpin, called by install_trans after writing a logged block home:
\* `let rc = *self.rc_ptr;` ...
unpin_load(p) ==
  /\ Live /\ pc[p] = "held" /\ blk[p] \in pinned
  /\ ~dirty[p] /\ disk[blk[p]] = data[hb[p]]
  /\ tmp' = [tmp EXCEPT ![p] = refcnt[hb[p]]]
  /\ pc' = [pc EXCEPT ![p] = "unpin"]
  /\ UNCHANGED <<lru, bufBlock, refcnt, valid, slock, data, disk, hb, blk,
                 dirty, pinned, latest, panicked>>

\* ... `if rc <= 1 { panic!("buf unpin not match") } *self.rc_ptr = rc - 1;`
unpin_store(p) ==
  /\ Live /\ pc[p] = "unpin"
  /\ IF tmp[p] <= 1
       THEN /\ panicked' = panicked \cup {"buf unpin not match"}
            /\ UNCHANGED <<refcnt, pinned, pc>>
       ELSE /\ refcnt' = [refcnt EXCEPT ![hb[p]] = tmp[p] - 1]
            /\ pinned' = pinned \ {blk[p]}
            /\ pc' = [pc EXCEPT ![p] = "held"]
            /\ UNCHANGED panicked
  /\ UNCHANGED <<lru, bufBlock, valid, slock, data, disk, hb, blk, tmp, dirty,
                 latest>>

\* Buf::drop, first half: `drop(self.data.take())` releases the sleeplock.
Release(p) ==
  /\ Live /\ pc[p] = "held" /\ ~dirty[p]
  /\ slock' = [slock EXCEPT ![hb[p]] = NoOne]
  /\ pc' = [pc EXCEPT ![p] = "rel"]
  /\ UNCHANGED <<lru, bufBlock, refcnt, valid, data, disk, hb, blk, tmp, dirty,
                 pinned, latest, panicked>>

\* A move_if_no_ref that puts the buffer at the head without unlinking it.
MoveToHeadNoUnlink(s, i) == <<i>> \o s
\* Unlink buffer i and make it the head of the list.
MoveToHead(s, i) == <<i>> \o SelectSeq(s, LAMBDA x : x # i)

\* Buf::drop, second half: brelse -> move_if_no_ref under ctrl.  refcnt is
\* a usize: decrementing 0 panics in a debug build and wraps in a release
\* build.
brelse(p) ==
  /\ Live /\ pc[p] = "rel"
  /\ LET i == hb[p] IN
     IF refcnt[i] = 0
       THEN \/ /\ panicked' = panicked \cup {"attempt to subtract with overflow"}
               /\ UNCHANGED <<refcnt, lru, pc>>
            \/ /\ refcnt' = [refcnt EXCEPT ![i] = RefWrap]
               /\ pc' = [pc EXCEPT ![p] = "idle"]
               /\ UNCHANGED <<lru, panicked>>
       ELSE /\ refcnt' = [refcnt EXCEPT ![i] = @ - 1]
            /\ lru' = IF refcnt[i] = 1 /\ lru[1] # i THEN MoveToHead(lru, i)
                                                   ELSE lru
            /\ pc' = [pc EXCEPT ![p] = "idle"]
            /\ UNCHANGED panicked
  /\ UNCHANGED <<bufBlock, valid, slock, data, disk, hb, blk, tmp, dirty,
                 pinned, latest>>

Step(p) ==
  \/ bread(p) \/ bwrite(p) \/ absorb(p) \/ pin_load(p) \/ pin_store(p)
  \/ unpin_load(p) \/ unpin_store(p) \/ Release(p) \/ brelse(p)

Next ==
  \/ \E p \in Procs, b \in Blocks : bget(p, b)
  \/ \E p \in Procs, v \in Vals : Modify(p, v)
  \/ \E p \in Procs : Step(p)

Spec == Init /\ [][Next]_vars

-----------------------------------------------------------------------------
InUse(i) == {p \in Procs : pc[p] # "idle" /\ hb[p] = i}

TypeOK ==
  /\ lru \in Seq(Bufs) /\ Len(lru) = NBUF
  /\ {lru[k] : k \in 1 .. NBUF} = Bufs
  /\ bufBlock \in [Bufs -> Blocks \cup {None}]
  /\ slock \in [Bufs -> Procs \cup {NoOne}]
  /\ pc \in [Procs -> {"idle", "wait", "held", "pin", "unpin", "rel"}]
  /\ pinned \subseteq Blocks

\* refcnt counts exactly the references: the processes between bget and
\* the end of brelse, plus one for a block the log has pinned.
PinsOn(i) == IF bufBlock[i] \in pinned THEN 1 ELSE 0
RefcntAccurate == \A i \in Bufs : refcnt[i] = Cardinality(InUse(i)) + PinsOn(i)

\* Every read sees the latest write: a process holding a block's buffer
\* sees the last contents anyone wrote into that block, whether they
\* reached the disk by bwrite or stayed in a pinned buffer.
ReadSeesLatest == \A p \in Procs :
  pc[p] = "held" => data[hb[p]] = latest[blk[p]]

\* A buffer that some process still references, or that holds a pinned
\* block, is never retagged for another block by recycle.
NoRecycleWhileInUse ==
  [][\A i \in Bufs : (InUse(i) # {} \/ bufBlock[i] \in pinned)
                      => bufBlock'[i] = bufBlock[i]]_vars
=============================================================================
