----------------------------- MODULE VirtioDisk -----------------------------
(***************************************************************************)
(* The virtio block driver of src/driver/virtio_disk.rs: processes call    *)
(* rw, which under the DISK spinlock takes three descriptors, chains them, *)
(* puts the head on the avail ring and sleeps until the interrupt handler  *)
(* sees the head on the used ring; the device consumes the avail ring      *)
(* asynchronously.  A process that finds fewer than three free descriptors *)
(* sleeps on &free[0] and retries.                                         *)
(*                                                                         *)
(* Each step of a process runs with the DISK lock held from its lock() to  *)
(* its sleep or drop, so it is one atomic action.  The avail and used      *)
(* rings are queues: at most NUM/3 requests are in flight, so the rings    *)
(* never fill, and their u16 indices wrap at a multiple of NUM.  Block     *)
(* numbers and buffer contents are left out; a buffer is named by the      *)
(* process that owns it, which is also its sleep channel.                  *)
(***************************************************************************)
EXTENDS Naturals, Sequences, FiniteSets

CONSTANTS Procs,   \* processes doing disk I/O
          NUM,     \* number of virtio descriptors (8 in the code)
          None     \* no NEXT flag / no buf_channel

Desc == 0 .. NUM - 1
ASSUME NUM \in Nat \ {0} /\ None \notin Desc \cup Procs

VARIABLES
  free,        \* Disk.free
  descNext,    \* desc[i].next when desc[i].flags has VRING_DESC_F_NEXT, else None
  infoDisk,    \* Disk.info[i].disk
  infoChan,    \* Disk.info[i].buf_channel
  avail,       \* heads on the avail ring not yet taken by the device
  used,        \* heads on the used ring not yet seen by intr
  idx,         \* process -> its local idx array (descriptors it holds)
  pc,          \* process -> control location
  panicked     \* panic messages raised by the driver

vars == <<free, descNext, infoDisk, infoChan, avail, used, idx, pc, panicked>>

Panic(msg) == panicked' = panicked \cup {msg}

\* Disk::init: all descriptors free; the rest as Disk::new.
Init ==
  /\ free = [i \in Desc |-> TRUE]
  /\ descNext = [i \in Desc |-> None]
  /\ infoDisk = [i \in Desc |-> FALSE]
  /\ infoChan = [i \in Desc |-> None]
  /\ avail = << >> /\ used = << >>
  /\ idx = [p \in Procs |-> << >>]
  /\ pc = [p \in Procs |-> "idle"]
  /\ panicked = {}

\* alloc_desc, repeated: the lowest free descriptors, at most k of them.
RECURSIVE LowestFree(_, _)
LowestFree(fr, k) ==
  IF k = 0 \/ \A i \in Desc : ~fr[i] THEN << >>
  ELSE LET i == CHOOSE j \in Desc : fr[j] /\ \A l \in Desc : fr[l] => j <= l
       IN <<i>> \o LowestFree([fr EXCEPT ![i] = FALSE], k - 1)

\* An allocation of four descriptors where the code takes three.
alloc3_desc_wide(fr) == LowestFree(fr, 4)
\* alloc3_desc on success: three alloc_desc calls, the lowest three free.
alloc3_desc(fr) == LowestFree(fr, 3)

\* A clean-up loop running one index too far (0..=i).
AllocCleanupIncl(i, ix) == 0 .. i
\* The clean-up loop of a failed alloc3_desc, `for j in 0..i { free_desc(j) }`:
\* the loop counters, not the descriptors taken (ix[1..i]).
AllocCleanup(i, ix) == 0 .. i - 1

\* free_desc(i) on a set of indices: clear the descriptors and mark them
\* free; a free or out-of-range index panics.  The wakeup of &free[0] is
\* done by the caller.
FreeAll(fr, S) == [i \in Desc |-> IF i \in S THEN TRUE ELSE fr[i]]
ClearAll(dn, S) == [i \in Desc |-> IF i \in S THEN None ELSE dn[i]]
BadFree(fr, S) == \E i \in S : i \notin Desc \/ fr[i]

\* The walk of free_chain from i: each descriptor's NEXT link is read
\* before it is freed; a descriptor met twice is freed twice.
RECURSIVE ChainFrom(_, _)
ChainFrom(i, seen) ==
  IF i \in seen \/ descNext[i] = None THEN <<i>>
  ELSE <<i>> \o ChainFrom(descNext[i], seen \cup {i})

\* PROC_MANAGER.wakeup(chan) for the descriptor channel &free[0] and for a
\* buffer's channel.  (The ...None forms wake nobody.)
WakeFreeNone(pcs) == pcs
WakeFree(pcs) == [q \in Procs |-> IF pcs[q] = "a_sleep" THEN "a_lock" ELSE pcs[q]]
WakeBufsNone(pcs, chans) == pcs
WakeBufs(pcs, chans) == [q \in Procs |-> IF pcs[q] = "io_sleep" /\ q \in chans
                                          THEN "io_lock" ELSE pcs[q]]

Start(p) ==
  /\ panicked = {} /\ pc[p] = "idle"
  /\ pc' = [pc EXCEPT ![p] = "a_lock"]
  /\ UNCHANGED <<free, descNext, infoDisk, infoChan, avail, used, idx, panicked>>

\* rw: with the lock held, alloc3_desc succeeds; the three descriptors are
\* chained head -> idx[1] -> idx[2], info[head] records the buffer, the
\* head goes on the avail ring, the device is notified, and the caller
\* sleeps on its buffer while info[head].disk is set.
alloc3_ok(p) ==
  /\ panicked = {} /\ pc[p] = "a_lock"
  /\ Cardinality({i \in Desc : free[i]}) >= 3
  /\ LET ix == alloc3_desc(free)
     IN /\ free' = [i \in Desc |-> IF \E k \in DOMAIN ix : ix[k] = i THEN FALSE
                                                                 ELSE free[i]]
        /\ descNext' = [descNext EXCEPT ![ix[1]] = ix[2], ![ix[2]] = ix[3],
                                        ![ix[3]] = None]
        /\ infoDisk' = [infoDisk EXCEPT ![ix[1]] = TRUE]
        /\ infoChan' = [infoChan EXCEPT ![ix[1]] = p]
        /\ avail' = Append(avail, ix[1])
        /\ idx' = [idx EXCEPT ![p] = ix]
  /\ pc' = [pc EXCEPT ![p] = "io_sleep"]
  /\ UNCHANGED <<used, panicked>>

\* rw: alloc3_desc fails after taking i < 3 descriptors.  Its clean-up
\* loop calls free_desc(j) for j in 0..i, the loop counter rather than
\* idx[j].  Then the caller sleeps on &free[0] (and free_desc has woken
\* any other such sleeper).
alloc3_fail(p) ==
  /\ panicked = {} /\ pc[p] = "a_lock"
  /\ LET i == Cardinality({d \in Desc : free[d]})
         ix == LowestFree(free, i)
         taken == [d \in Desc |-> IF d \in {ix[k] : k \in 1 .. i} THEN FALSE
                                                              ELSE free[d]]
         freed == AllocCleanup(i, ix)
     IN /\ i < 3
        /\ IF BadFree(taken, freed)
             THEN Panic("desc index not correct") /\ UNCHANGED <<free, descNext, pc>>
             ELSE /\ free' = FreeAll(taken, freed)
                  /\ descNext' = ClearAll(descNext, freed)
                  /\ pc' = [IF i > 0 THEN WakeFree(pc) ELSE pc
                              EXCEPT ![p] = "a_sleep"]
                  /\ UNCHANGED panicked
  /\ UNCHANGED <<infoDisk, infoChan, avail, used, idx>>

\* rw, after the wait on the buffer: with the lock re-taken, sleep again
\* while info[idx[0]].disk; otherwise take buf_channel (debug_assert it is
\* this buffer), free_chain(idx[0]) and return.
io_done(p) ==
  /\ panicked = {} /\ pc[p] = "io_lock"
  /\ LET h == idx[p][1]
         chain == ChainFrom(h, {})
         S == {chain[k] : k \in 1 .. Len(chain)}
     IN IF infoDisk[h]
          THEN /\ pc' = [pc EXCEPT ![p] = "io_sleep"]
               /\ UNCHANGED <<free, descNext, infoChan, idx, panicked>>
        ELSE IF infoChan[h] # p
          THEN /\ Panic("buf_channel is not this buffer")
               /\ UNCHANGED <<free, descNext, infoChan, idx, pc>>
        ELSE IF BadFree(free, S) \/ Cardinality(S) < Len(chain)
          THEN /\ Panic("desc index not correct")
               /\ UNCHANGED <<free, descNext, infoChan, idx, pc>>
        ELSE /\ free' = FreeAll(free, S)
             /\ descNext' = ClearAll(descNext, S)
             /\ infoChan' = [infoChan EXCEPT ![h] = None]
             /\ idx' = [idx EXCEPT ![p] = << >>]
             /\ pc' = [WakeFree(pc) EXCEPT ![p] = "idle"]
             /\ UNCHANGED panicked
  /\ UNCHANGED <<infoDisk, avail, used>>

\* The device takes the next head off the avail ring, performs the request
\* and puts the head on the used ring.
Device ==
  /\ panicked = {} /\ avail # << >>
  /\ avail' = Tail(avail)
  /\ used' = Append(used, Head(avail))
  /\ UNCHANGED <<free, descNext, infoDisk, infoChan, idx, pc, panicked>>

\* Disk::intr, under the DISK lock: for every new used-ring entry, clear
\* info[id].disk and wake the buffer recorded in info[id].buf_channel
\* (which must be present).
intr ==
  /\ panicked = {} /\ used # << >>
  /\ LET ids == {used[k] : k \in 1 .. Len(used)}
     IN IF \E id \in ids : infoChan[id] = None
          THEN Panic("buf channel not found") /\ UNCHANGED <<infoDisk, pc, used>>
          ELSE /\ infoDisk' = [i \in Desc |-> IF i \in ids THEN FALSE ELSE infoDisk[i]]
               /\ pc' = WakeBufs(pc, {infoChan[id] : id \in ids})
               /\ used' = << >>
               /\ UNCHANGED panicked
  /\ UNCHANGED <<free, descNext, infoChan, avail, idx>>

\* A process woken on &free[0] re-takes the lock and retries alloc3_desc.
ProcStep(p) == alloc3_ok(p) \/ alloc3_fail(p) \/ io_done(p)

Next ==
  \/ \E p \in Procs : Start(p) \/ ProcStep(p)
  \/ Device
  \/ intr

\* Runnable processes are scheduled, the device completes what it is given
\* and its interrupt is taken.
Fairness == /\ \A p \in Procs : WF_vars(ProcStep(p))
            /\ WF_vars(Device) /\ WF_vars(intr)

Spec == Init /\ [][Next]_vars
FairSpec == Spec /\ Fairness

-----------------------------------------------------------------------------
TypeOK ==
  /\ free \in [Desc -> BOOLEAN]
  /\ descNext \in [Desc -> Desc \cup {None}]
  /\ infoDisk \in [Desc -> BOOLEAN]
  /\ infoChan \in [Desc -> Procs \cup {None}]
  /\ pc \in [Procs -> {"idle", "a_lock", "a_sleep", "io_sleep", "io_lock"}]
  /\ \A p \in Procs : idx[p] \in Seq(Desc) /\ Len(idx[p]) \in {0, 3}

InFlight == {p \in Procs : pc[p] \in {"io_sleep", "io_lock"}}
Held(p) == {idx[p][k] : k \in 1 .. Len(idx[p])}

\* Descriptor ownership: a descriptor of a request still in flight is never
\* marked free, and no descriptor belongs to two in-flight requests, so the
\* device never follows a chain another request has rewritten.
DescOwnership ==
  /\ \A p \in InFlight : \A d \in Held(p) : ~free[d]
  /\ \A p, q \in InFlight : p # q => Held(p) \cap Held(q) = {}

\* Every request handed to the device completes: a process asleep on its
\* buffer eventually returns from rw.
RequestCompletes == \A p \in Procs : pc[p] = "io_sleep" ~> pc[p] = "idle"

\* No lost wakeup on &free[0]: a process asleep for descriptors while three
\* are free is eventually woken.
FreeWakes == \A p \in Procs :
  (pc[p] = "a_sleep" /\ Cardinality({i \in Desc : free[i]}) >= 3)
     ~> pc[p] # "a_sleep"
=============================================================================
