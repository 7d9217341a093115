-------------------------------- MODULE Log --------------------------------
(***************************************************************************)
(* The write-ahead log of src/fs/log.rs, together with the file-system     *)
(* operations that use it and the crashes it is meant to survive.          *)
(*                                                                         *)
(* Processes bracket their block writes with begin_op / end_op.  The      *)
(* process whose end_op brings `outstanding` to zero runs the group        *)
(* commit (write_log, write_head, install_trans, empty_head) outside the   *)
(* log lock, one synchronous disk write per step.  A crash may strike      *)
(* between any two steps, including during recovery at the next boot.     *)
(*                                                                         *)
(* Data is abstracted to block numbers (Blocks) and block contents (Vals, *)
(* plus 0 for the initial contents).  The buffer cache is abstracted to    *)
(* `cache`, the in-memory contents of every home block: a logged block is  *)
(* pinned until installed and every other cached block equals its home    *)
(* copy, so eviction is not observable here (see Bcache.tla).  Each       *)
(* single-block disk write is assumed atomic.                              *)
(***************************************************************************)
EXTENDS Naturals, Sequences, FiniteSets, Functions

CONSTANTS
  Procs,        \* processes issuing file-system operations
  Blocks,       \* home block numbers that operations write
  Vals,         \* contents an operation may write into a block
  LOGSIZE,      \* consts::fs::LOGSIZE: header block + LOGSIZE-1 log slots
  MAXOPBLOCKS,  \* consts::fs::MAXOPBLOCKS: distinct blocks one op may write
  MaxCrashes    \* bound on the number of crashes in a behaviour

ASSUME /\ Procs # {} /\ Blocks # {} /\ 0 \notin Vals
       /\ LOGSIZE \in Nat /\ MAXOPBLOCKS \in Nat \ {0}
       /\ 1 + MAXOPBLOCKS <= LOGSIZE
       /\ MaxCrashes \in Nat

VARIABLES
  cache,        \* block -> contents in the buffer cache
  home,         \* block -> contents of its home location on disk
  logDisk,      \* log slot 1..LOGSIZE-1 -> contents on disk
  diskHdr,      \* on-disk LogHeader: the sequence blocknos[0..len)
  lh,           \* Log.lh, the in-memory header
  outstanding,  \* Log.outstanding
  committing,   \* Log.committing
  pc,           \* process -> "idle" | "begin" | "sleep" | "op" | "commit"
  opBlocks,     \* process -> blocks written in its current operation
  cstep,        \* step of the running commit or recovery
  ci,           \* loop index i+1 of write_log / install_trans
  up,           \* FALSE from a crash until recovery completes
  panicked,     \* panic messages raised by the log
  crashes       \* crashes so far

vars == <<cache, home, logDisk, diskHdr, lh, outstanding, committing, pc,
          opBlocks, cstep, ci, up, panicked, crashes>>

Slots == 1 .. LOGSIZE - 1
Contents == Vals \cup {0}
InHeader(hdr) == {hdr[i] : i \in DOMAIN hdr}

\* A wakeup that wakes nobody.
WakeLogNone(pcs) == pcs
\* The wakeup(log channel) done by end_op and at the end of commit: every
\* process asleep in begin_op becomes runnable and re-checks its condition.
WakeLog(pcs) == [q \in Procs |-> IF pcs[q] = "sleep" THEN "begin" ELSE pcs[q]]

Panic(msg) == /\ panicked' = panicked \cup {msg}
              /\ UNCHANGED <<cache, home, logDisk, diskHdr, lh, outstanding,
                             committing, pc, opBlocks, cstep, ci, up, crashes>>

Init ==
  /\ cache = [b \in Blocks |-> 0]
  /\ home = [b \in Blocks |-> 0]
  /\ logDisk = [s \in Slots |-> 0]
  /\ diskHdr = << >>
  /\ lh = << >>
  /\ outstanding = 0
  /\ committing = FALSE
  /\ pc = [p \in Procs |-> "idle"]
  /\ opBlocks = [p \in Procs |-> {}]
  /\ cstep = "none"
  /\ ci = 0
  /\ up = TRUE
  /\ panicked = {}
  /\ crashes = 0

(***************************************************************************)
(* A system call starts a file-system operation (LOG.begin_op()).          *)
(***************************************************************************)
StartOp(p) ==
  /\ up /\ panicked = {}
  /\ pc[p] = "idle"
  /\ pc' = [pc EXCEPT ![p] = "begin"]
  /\ UNCHANGED <<cache, home, logDisk, diskHdr, lh, outstanding, committing,
                 opBlocks, cstep, ci, up, panicked, crashes>>

\* An admission test that counts the outstanding operations but not the
\* one being admitted.
MustWaitOffByOne ==
  committing \/ 1 + Len(lh) + outstanding * MAXOPBLOCKS > LOGSIZE
\* begin_op's wait condition: a commit runs, or the log could not hold
\* MAXOPBLOCKS more blocks for every outstanding operation and this one.
MustWait ==
  committing \/ 1 + Len(lh) + (outstanding + 1) * MAXOPBLOCKS > LOGSIZE

\* A begin_op that increments outstanding before deciding to sleep.
begin_op_eager(p) ==
  /\ up /\ panicked = {}
  /\ pc[p] = "begin"
  /\ outstanding' = outstanding + 1
  /\ pc' = [pc EXCEPT ![p] = IF MustWait THEN "sleep" ELSE "op"]
  /\ opBlocks' = [opBlocks EXCEPT ![p] = {}]
  /\ UNCHANGED <<cache, home, logDisk, diskHdr, lh, committing, cstep, ci,
                 up, panicked, crashes>>

\* begin_op: sleep on the log while MustWait; otherwise reserve a place by
\* incrementing outstanding.
begin_op(p) ==
  /\ up /\ panicked = {}
  /\ pc[p] = "begin"
  /\ IF MustWait
       THEN /\ pc' = [pc EXCEPT ![p] = "sleep"]
            /\ UNCHANGED <<outstanding, opBlocks>>
       ELSE /\ outstanding' = outstanding + 1
            /\ pc' = [pc EXCEPT ![p] = "op"]
            /\ opBlocks' = [opBlocks EXCEPT ![p] = {}]
  /\ UNCHANGED <<cache, home, logDisk, diskHdr, lh, committing, cstep, ci,
                 up, panicked, crashes>>

\* An operation modifies block b in its cached buffer and calls LOG.write:
\* panic if the log is nearly full; absorb a block already in the header;
\* otherwise pin the buffer and append its block number to the header.
\* The caller never writes more than MAXOPBLOCKS distinct blocks.
write(p, b, v) ==
  /\ up /\ panicked = {}
  /\ pc[p] = "op"
  /\ Cardinality(opBlocks[p] \cup {b}) <= MAXOPBLOCKS
  /\ IF Len(lh) + 1 >= LOGSIZE
       THEN Panic("log: not enough space for ongoing transactions")
     ELSE IF b \notin InHeader(lh) /\ Len(lh) + 2 >= LOGSIZE
       THEN Panic("log: not enough space for this transaction")
     ELSE /\ cache' = [cache EXCEPT ![b] = v]
          /\ opBlocks' = [opBlocks EXCEPT ![p] = @ \cup {b}]
          /\ lh' = IF b \in InHeader(lh) THEN lh ELSE Append(lh, b)
          /\ UNCHANGED <<home, logDisk, diskHdr, outstanding, committing, pc,
                         cstep, ci, up, panicked, crashes>>

\* end_op: the last outstanding operation sets committing and goes on to
\* commit after dropping the lock; any other wakes the processes waiting in
\* begin_op, since its reservation is released.
end_op(p) ==
  /\ up /\ panicked = {}
  /\ pc[p] = "op"
  /\ IF committing
       THEN Panic("log: end fs op while the log is committing")
     ELSE /\ outstanding' = outstanding - 1
          /\ IF outstanding - 1 = 0
               THEN /\ committing' = TRUE
                    /\ pc' = [pc EXCEPT ![p] = "commit"]
                    /\ cstep' = "commit"
               ELSE /\ pc' = [WakeLog(pc) EXCEPT ![p] = "idle"]
                    /\ UNCHANGED <<committing, cstep>>
          /\ UNCHANGED <<cache, home, logDisk, diskHdr, lh, opBlocks, ci, up,
                         panicked, crashes>>

(***************************************************************************)
(* commit(), run by the process whose end_op set committing.               *)
(***************************************************************************)
Committer(p) == up /\ panicked = {} /\ pc[p] = "commit"

\* A commit that writes the header without first copying the blocks to
\* the log.
commit_skip_log(p) ==
  /\ Committer(p) /\ cstep = "commit"
  /\ IF Len(lh) > 0 THEN cstep' = "write_head" /\ ci' = 0
                    ELSE cstep' = "done" /\ UNCHANGED ci
  /\ UNCHANGED <<cache, home, logDisk, diskHdr, lh, outstanding, committing,
                 pc, opBlocks, up, panicked, crashes>>

\* commit: nothing to do for an empty header.
commit(p) ==
  /\ Committer(p) /\ cstep = "commit"
  /\ IF Len(lh) > 0 THEN cstep' = "write_log" /\ ci' = 1
                    ELSE cstep' = "done" /\ UNCHANGED ci
  /\ UNCHANGED <<cache, home, logDisk, diskHdr, lh, outstanding, committing,
                 pc, opBlocks, up, panicked, crashes>>

\* write_log: copy the cached block lh[i] into log slot i and write it.
write_log(p) ==
  /\ Committer(p) /\ cstep = "write_log"
  /\ logDisk' = [logDisk EXCEPT ![ci] = cache[lh[ci]]]
  /\ IF ci = Len(lh) THEN cstep' = "write_head" /\ ci' = 0
                     ELSE ci' = ci + 1 /\ UNCHANGED cstep
  /\ UNCHANGED <<cache, home, diskHdr, lh, outstanding, committing, pc,
                 opBlocks, up, panicked, crashes>>

\* write_head: write the in-memory header to disk -- the commit point.
write_head(p) ==
  /\ Committer(p) /\ cstep = "write_head"
  /\ diskHdr' = lh
  /\ cstep' = "install" /\ ci' = 1
  /\ UNCHANGED <<cache, home, logDisk, lh, outstanding, committing, pc,
                 opBlocks, up, panicked, crashes>>

\* install_trans(false): copy log slot i over the cached home block, write
\* it home and unpin it.
install_trans(p) ==
  /\ Committer(p) /\ cstep = "install"
  /\ home' = [home EXCEPT ![lh[ci]] = logDisk[ci]]
  /\ cache' = [cache EXCEPT ![lh[ci]] = logDisk[ci]]
  /\ IF ci = Len(lh) THEN cstep' = "empty_head" /\ ci' = 0
                     ELSE ci' = ci + 1 /\ UNCHANGED cstep
  /\ UNCHANGED <<logDisk, diskHdr, lh, outstanding, committing, pc, opBlocks,
                 up, panicked, crashes>>

\* empty_head: zero the header count in memory and on disk.
empty_head(p) ==
  /\ Committer(p) /\ cstep = "empty_head"
  /\ lh' = << >>
  /\ diskHdr' = << >>
  /\ cstep' = "done"
  /\ UNCHANGED <<cache, home, logDisk, outstanding, committing, pc, opBlocks,
                 ci, up, panicked, crashes>>

\* Back in end_op: retake the lock, clear committing, wake the log sleepers.
commit_done(p) ==
  /\ Committer(p) /\ cstep = "done"
  /\ committing' = FALSE
  /\ pc' = [WakeLog(pc) EXCEPT ![p] = "idle"]
  /\ cstep' = "none"
  /\ UNCHANGED <<cache, home, logDisk, diskHdr, lh, outstanding, opBlocks, ci,
                 up, panicked, crashes>>

(***************************************************************************)
(* Crash and recovery (Log::init -> recover at the next boot).             *)
(***************************************************************************)
\* Power is lost: memory (buffer cache, log state, processes) is gone and
\* only the disk survives.  May happen during recovery too.
Crash ==
  /\ crashes < MaxCrashes /\ panicked = {}
  /\ crashes' = crashes + 1
  /\ up' = FALSE
  /\ cache' = home
  /\ lh' = << >>
  /\ outstanding' = 0
  /\ committing' = FALSE
  /\ pc' = [p \in Procs |-> "idle"]
  /\ opBlocks' = [p \in Procs |-> {}]
  /\ cstep' = "read_head"
  /\ ci' = 0
  /\ UNCHANGED <<home, logDisk, diskHdr, panicked>>

\* recover -> read_head: load the on-disk header; nothing to do if empty.
read_head ==
  /\ ~up /\ cstep = "read_head"
  /\ lh' = diskHdr
  /\ IF Len(diskHdr) > 0
       THEN cstep' = "recover_install" /\ ci' = 1 /\ UNCHANGED <<up, cache>>
       ELSE cstep' = "none" /\ up' = TRUE /\ cache' = home /\ UNCHANGED ci
  /\ UNCHANGED <<home, logDisk, diskHdr, outstanding, committing, pc,
                 opBlocks, panicked, crashes>>

\* install_trans(true): replay log slot i to its home block (no unpin).
recover_install ==
  /\ ~up /\ cstep = "recover_install"
  /\ home' = [home EXCEPT ![lh[ci]] = logDisk[ci]]
  /\ IF ci = Len(lh) THEN cstep' = "recover_empty" /\ ci' = 0
                     ELSE ci' = ci + 1 /\ UNCHANGED cstep
  /\ UNCHANGED <<cache, logDisk, diskHdr, lh, outstanding, committing, pc,
                 opBlocks, up, panicked, crashes>>

\* empty_head at the end of recovery; the file system then comes up with a
\* cold buffer cache.
recover_empty ==
  /\ ~up /\ cstep = "recover_empty"
  /\ lh' = << >>
  /\ diskHdr' = << >>
  /\ up' = TRUE
  /\ cache' = home
  /\ cstep' = "none"
  /\ UNCHANGED <<home, logDisk, outstanding, committing, pc, opBlocks, ci,
                 panicked, crashes>>

OpStep(p) ==
  \/ begin_op(p)
  \/ end_op(p)
  \/ commit(p) \/ write_log(p) \/ write_head(p) \/ install_trans(p)
  \/ empty_head(p) \/ commit_done(p)

ProcStep(p) == OpStep(p) \/ \E b \in Blocks, v \in Vals : write(p, b, v)

Recovery == read_head \/ recover_install \/ recover_empty

Next ==
  \/ \E p \in Procs : StartOp(p) \/ ProcStep(p)
  \/ Recovery
  \/ Crash

\* The scheduler runs every runnable process (round-robin table scan plus
\* timer preemption) and disk writes complete, so each process step and
\* recovery are weakly fair.  A file-system call makes finitely many log
\* writes before end_op, so fairness is on the steps other than write.
\* Starting an operation and crashing are not fair.
Fairness ==
  /\ \A p \in Procs : WF_vars(OpStep(p))
  /\ WF_vars(Recovery)

Spec == Init /\ [][Next]_vars
FairSpec == Spec /\ Fairness

-----------------------------------------------------------------------------
TypeOK ==
  /\ cache \in [Blocks -> Contents]
  /\ home \in [Blocks -> Contents]
  /\ logDisk \in [Slots -> Contents]
  /\ diskHdr \in Seq(Blocks) /\ lh \in Seq(Blocks)
  /\ outstanding \in 0 .. Cardinality(Procs)
  /\ committing \in BOOLEAN
  /\ pc \in [Procs -> {"idle", "begin", "sleep", "op", "commit"}]
  /\ opBlocks \in [Procs -> SUBSET Blocks]
  /\ ci \in 0 .. LOGSIZE
  /\ up \in BOOLEAN
  /\ crashes \in 0 .. MaxCrashes

\* What the disk holds if the machine stops now and recovery runs: the home
\* blocks, overlaid with the logged blocks once a header is on disk.
DurableView ==
  [b \in Blocks |->
     IF b \in InHeader(diskHdr)
       THEN logDisk[CHOOSE i \in DOMAIN diskHdr : diskHdr[i] = b]
       ELSE home[b]]

\* The state the running system presents to file-system operations; while
\* the machine is down it is whatever recovery will produce.
Visible == IF up THEN cache ELSE DurableView

\* Group commit is atomic and durable: the log implements AtomicDisk with the
\* durable image as its disk and the visible contents as its memory.
Atomic == INSTANCE AtomicDisk WITH mem <- Visible, disk <- DurableView
AtomicCommit == Atomic!Spec

\* begin_op's reservation holds throughout: the header plus what every
\* admitted, unfinished operation may still add (MAXOPBLOCKS less the
\* distinct blocks it has written) fits in the header block and the
\* LOGSIZE-1 log slots, across absorption, end_op, commit and crashes.
Budget == [p \in Procs |-> MAXOPBLOCKS - Cardinality(opBlocks[p])]
LogReservation ==
  1 + Len(lh) + SumFunctionOnSet(Budget, {p \in Procs : pc[p] = "op"}) <= LOGSIZE

\* LOG.write never panics: begin_op's admission (1 + len + (outstanding+1)
\* * MAXOPBLOCKS <= LOGSIZE) leaves room for every block an admitted
\* operation writes under write's own, stricter, capacity checks.
NoLogPanic == panicked = {}

\* No lost wakeup: a process asleep in begin_op is eventually woken by an
\* end_op or by the end of a commit (or the machine crashes).
SleeperWoken == \A p \in Procs : pc[p] = "sleep" ~> pc[p] # "sleep"
=============================================================================
