-------------------------------- MODULE Pipe --------------------------------
(***************************************************************************)
(* The pipe of src/fs/file/pipe.rs, composed with the per-process file     *)
(* tables that reference its two Files: a spinlocked ring of PIPESIZE      *)
(* bytes indexed by two wrapping counters, read and written by processes   *)
(* that sleep on the counters' addresses and can be killed.  The read and  *)
(* write Files are Arc<File>s held by fd slots (sys_pipe, sys_dup, fork's  *)
(* clone of open_files); dropping the last reference to an end's File     *)
(* (sys_close, close_files at exit) calls Pipe::close.                     *)
(*                                                                         *)
(* The counters are Wrapping<u32>; here they wrap at 2^WIDTH.  Each byte   *)
(* written is its position in the stream (1, 2, ...), so that reading a    *)
(* wrong slot is visible.  `out` is the history of bytes taken out of the *)
(* ring, in order.  One pipe object is modelled: sys_pipe creates it once  *)
(* the previous one has been dropped.                                      *)
(***************************************************************************)
EXTENDS Naturals, Sequences, FiniteSetsExt

CONSTANTS
  Procs,       \* process slots
  Creator,     \* the process alive at the start; the others are forked
  NFILE,       \* consts::fs::NFILE, fd slots per process
  PIPESIZE,    \* consts::fs::PIPESIZE
  WIDTH,       \* bit width of the read/write counters (32 in the code)
  Counts,      \* byte counts passed to read and write
  Writing,     \* processes whose user program calls write on the pipe
  Killable,    \* processes another process may kill
  UserFaults,  \* whether copy_in / copy_out to user memory may fail
  DebugBuild,  \* whether debug_assert! is compiled in
  MaxBytes,    \* bound: no write is started once MaxBytes have been written
  NoOne,       \* the pipe lock is free
  NoFile       \* an empty fd slot (None)

ASSUME /\ Creator \in Procs /\ NFILE \in Nat \ {0}
       /\ PIPESIZE \in Nat \ {0} /\ WIDTH \in Nat \ {0}
       /\ PIPESIZE <= 2^WIDTH
       /\ Counts \subseteq Nat \ {0}
       /\ UserFaults \in BOOLEAN /\ DebugBuild \in BOOLEAN
       /\ NoOne \notin Procs /\ Killable \cup Writing \subseteq Procs

Fds == 0 .. NFILE - 1
\* The pipe's two Files: FileInner::Pipe with writable false / true.
Ends == {"r", "w"}

VARIABLES
  readOpen, writeOpen,   \* PipeInner.read_open / write_open
  readCnt, writeCnt,     \* PipeInner.read_cnt / write_cnt
  data,                  \* PipeInner.data
  lock,                  \* holder of the pipe spinlock
  pc,                    \* process -> control location
  want,                  \* process -> count argument of its read / write
  moved,                 \* writer -> write_count so far
  killed,                \* Proc.killed
  ofile,                 \* process -> fd -> end of the pipe, or NoFile
  nw,                    \* bytes written into the ring so far
  out,                   \* bytes taken out of the ring, in order
  killedAsleep,          \* readers killed while asleep in this read call
  dropUnbalanced,        \* a Pipe was dropped with read_open # write_open
  stranded               \* history: readers asleep with bytes to read when
                         \* a killed writer returned without waking them

vars == <<readOpen, writeOpen, readCnt, writeCnt, data, lock, pc, want,
          moved, killed, ofile, nw, out, killedAsleep, dropUnbalanced,
          stranded>>

Mod == 2^WIDTH
\* Wrapping<u32> arithmetic.
WAdd(a, b) == (a + b) % Mod
WSub(a, b) == (a + Mod - b) % Mod
\* The slot of a counter value: `cnt.0 % PIPESIZE_U32`.
Slot(cnt) == cnt % PIPESIZE
MinOf(a, b) == IF a < b THEN a ELSE b

\* A fullness test that lets the writer run one byte past the capacity.
FullOffByOne == writeCnt = WAdd(readCnt, PIPESIZE + 1)
\* `pipe.write_cnt == pipe.read_cnt + Wrapping(PIPESIZE_U32)`
Full == writeCnt = WAdd(readCnt, PIPESIZE)

\* A wakeup that wakes nobody.
WakeNone(pcs) == pcs
\* PROC_MANAGER.wakeup(&read_cnt): readers asleep in read become runnable
\* and will re-take the lock; likewise for &write_cnt and writers.
WakeReaders(pcs) == [q \in Procs |-> IF pcs[q] = "r_sleep" THEN "r_lock" ELSE pcs[q]]
WakeWriters(pcs) == [q \in Procs |-> IF pcs[q] = "w_sleep" THEN "w_lock" ELSE pcs[q]]

\* A process slot that fork has filled and exit has not yet emptied.
Alive == {p \in Procs : pc[p] \notin {"unborn", "gone"}}
\* Some fd of some process (of fd table `of`) references the File of end e.
Held(e, of) == \E q \in Procs, fd \in Fds : of[q][fd] = e
Holds(p, e) == \E fd \in Fds : ofile[p][fd] = e
\* ProcData::alloc_fd: the first None slot; alloc_fd2: the first two.
FreeFds(p) == {fd \in Fds : ofile[p][fd] = NoFile}
alloc_fd(p) == Min(FreeFds(p))
alloc_fd2(p) == <<Min(FreeFds(p)), Min(FreeFds(p) \ {Min(FreeFds(p))})>>

\* A sleeping reader has something to return (bytes, or end of file); a
\* sleeping writer has room or nobody left to read.
Readable == readCnt # writeCnt \/ ~writeOpen
Writable == ~Full \/ ~readOpen

\* A stranded reader stops being one once it leaves its sleep.
KeepStranded == stranded' = {r \in stranded : pc'[r] = "r_sleep"}

\* Pipe's Drop, when the last Arc<Pipe> goes: debug_assert!(read_open ==
\* write_open) holds of the flags it is dropped with.
DropAsserts(rOpen, wOpen) == rOpen = wOpen

(***************************************************************************)
(* The fd table becomes `of2`, and pc becomes `pcs` apart from wakeups.    *)
(* Each Arc<File> whose last fd reference is gone is dropped: File::drop  *)
(* calls Pipe::close(writable), which under the pipe lock clears that      *)
(* end's flag and wakes the other side.  When both Files are gone the      *)
(* Arc<Pipe> is dropped with the flags so left.                            *)
(***************************************************************************)
DropFiles(of2, pcs) ==
  \E rLast \in {Held("r", ofile) /\ ~Held("r", of2)} :
  \E wLast \in {Held("w", ofile) /\ ~Held("w", of2)} :
    /\ (rLast \/ wLast) => lock = NoOne
    /\ ofile' = of2
    /\ readOpen' = (readOpen /\ ~rLast)
    /\ writeOpen' = (writeOpen /\ ~wLast)
    /\ \E woken \in {IF rLast THEN WakeWriters(pcs) ELSE pcs} :
         pc' = IF wLast THEN WakeReaders(woken) ELSE woken
    /\ dropUnbalanced' =
         \/ dropUnbalanced
         \/ /\ rLast \/ wLast
            /\ ~Held("r", of2) /\ ~Held("w", of2)
            /\ ~DropAsserts(readOpen', writeOpen')

Init ==
  /\ readOpen = FALSE /\ writeOpen = FALSE
  /\ readCnt = 0 /\ writeCnt = 0
  /\ data = [i \in 0 .. PIPESIZE - 1 |-> 0]
  /\ lock = NoOne
  /\ pc = [p \in Procs |-> IF p = Creator THEN "idle" ELSE "unborn"]
  /\ want = [p \in Procs |-> 0]
  /\ moved = [p \in Procs |-> 0]
  /\ killed = [p \in Procs |-> FALSE]
  /\ ofile = [p \in Procs |-> [fd \in Fds |-> NoFile]]
  /\ nw = 0
  /\ out = << >>
  /\ killedAsleep = {}
  /\ dropUnbalanced = FALSE
  /\ stranded = {}

(***************************************************************************)
(* System calls of a process at the system-call boundary.  A killed        *)
(* process does not start one (check_abondon); argument errors (arg_fd on  *)
(* an empty slot, read on the write File) return Err and change nothing.  *)
(***************************************************************************)
\* Pipe::create: a zeroed Pipe (counters 0, empty ring) with both ends
\* opened under its lock.
create ==
  /\ readOpen' = TRUE /\ writeOpen' = TRUE
  /\ readCnt' = 0 /\ writeCnt' = 0
  /\ data' = [i \in 0 .. PIPESIZE - 1 |-> 0]

\* sys_pipe: alloc_fd2, Pipe::create, two copy_outs, then the two slots are
\* filled.  A failing allocation of the Pipe or of the read File, or a
\* failing copy_out, drops what was built with both flags equal and changes
\* nothing.  When the write File's allocation fails, the read File is
\* dropped first (Pipe::close(false)) and then the Pipe, with read_open
\* false and write_open true; only a debug build checks that.
\* The one modelled pipe is only created once the previous one is gone.
sys_pipe(p) ==
  /\ p \in Alive /\ pc[p] = "idle" /\ ~killed[p]
  /\ Cardinality(FreeFds(p)) >= 2
  /\ \E writeFileFails \in IF DebugBuild THEN BOOLEAN ELSE {FALSE} :
       IF writeFileFails
         THEN /\ dropUnbalanced' = ~DropAsserts(FALSE, TRUE)
              /\ UNCHANGED <<readOpen, writeOpen, readCnt, writeCnt, data,
                             ofile, nw, out, killedAsleep>>
         ELSE /\ ~Held("r", ofile) /\ ~Held("w", ofile)
              /\ create
              /\ ofile' = [ofile EXCEPT ![p][alloc_fd2(p)[1]] = "r",
                                         ![p][alloc_fd2(p)[2]] = "w"]
              /\ nw' = 0 /\ out' = << >> /\ killedAsleep' = {}
              /\ UNCHANGED dropUnbalanced
  /\ UNCHANGED <<lock, pc, want, moved, killed>>
  /\ KeepStranded

\* sys_dup: arg_fd, alloc_fd, and an Arc::clone of the File into the new slot.
sys_dup(p, fd) ==
  /\ p \in Alive /\ pc[p] = "idle" /\ ~killed[p]
  /\ ofile[p][fd] # NoFile /\ FreeFds(p) # {}
  /\ ofile' = [ofile EXCEPT ![p][alloc_fd(p)] = ofile[p][fd]]
  /\ UNCHANGED <<readOpen, writeOpen, readCnt, writeCnt, data, lock, pc, want,
                 moved, killed, nw, out, killedAsleep, dropUnbalanced>>
  /\ KeepStranded

\* sys_close: arg_fd, take the slot, drop the File reference.
sys_close(p, fd) ==
  /\ p \in Alive /\ pc[p] = "idle" /\ ~killed[p]
  /\ ofile[p][fd] # NoFile
  /\ DropFiles([ofile EXCEPT ![p][fd] = NoFile], pc)
  /\ UNCHANGED <<readCnt, writeCnt, data, lock, want, moved, killed, nw, out,
                 killedAsleep>>
  /\ KeepStranded

\* fork: the child's open_files is a clone of the parent's (each Arc cloned).
fork(p, c) ==
  /\ p \in Alive /\ pc[p] = "idle" /\ ~killed[p] /\ pc[c] = "unborn"
  /\ ofile' = [ofile EXCEPT ![c] = ofile[p]]
  /\ pc' = [pc EXCEPT ![c] = "idle"]
  /\ UNCHANGED <<readOpen, writeOpen, readCnt, writeCnt, data, lock, want,
                 moved, killed, nw, out, killedAsleep, dropUnbalanced>>
  /\ KeepStranded

\* An exit that leaves the dead process's fd slots (and so its File
\* references) in place.
ExitingKeepsFiles(p) ==
  /\ p \in Alive /\ pc[p] = "idle"
  /\ pc' = [pc EXCEPT ![p] = "gone"]
  /\ UNCHANGED <<readOpen, writeOpen, readCnt, writeCnt, data, lock, want,
                 moved, killed, ofile, nw, out, killedAsleep, dropUnbalanced>>
  /\ KeepStranded

\* exiting: close_files drops every fd's File; the process is then a zombie
\* whose slot this model never reuses.  Voluntary (sys_exit) or, for a
\* killed process, forced by check_abondon at the system-call boundary.
exiting(p) ==
  /\ p \in Alive /\ pc[p] = "idle"
  /\ DropFiles([ofile EXCEPT ![p] = [fd \in Fds |-> NoFile]],
               [pc EXCEPT ![p] = "gone"])
  /\ UNCHANGED <<readCnt, writeCnt, data, lock, want, moved, killed, nw, out,
                 killedAsleep>>
  /\ KeepStranded

\* sys_read / sys_write on the pipe's File call Pipe::read / Pipe::write.
StartRead(p, fd, n) ==
  /\ p \in Alive /\ pc[p] = "idle" /\ ~killed[p] /\ ofile[p][fd] = "r"
  /\ pc' = [pc EXCEPT ![p] = "r_lock"]
  /\ want' = [want EXCEPT ![p] = n]
  /\ UNCHANGED <<readOpen, writeOpen, readCnt, writeCnt, data, lock, moved,
                 killed, ofile, nw, out, killedAsleep, dropUnbalanced>>
  /\ KeepStranded

StartWrite(p, fd, n) ==
  /\ p \in Writing /\ p \in Alive /\ pc[p] = "idle" /\ ~killed[p] /\ ofile[p][fd] = "w"
  /\ nw < MaxBytes
  /\ pc' = [pc EXCEPT ![p] = "w_lock"]
  /\ want' = [want EXCEPT ![p] = n]
  /\ moved' = [moved EXCEPT ![p] = 0]
  /\ UNCHANGED <<readOpen, writeOpen, readCnt, writeCnt, data, lock, killed,
                 ofile, nw, out, killedAsleep, dropUnbalanced>>
  /\ KeepStranded

\* self.0.lock(), at entry and again after each sleep.
Acquire(p) ==
  /\ pc[p] \in {"r_lock", "w_lock"} /\ lock = NoOne
  /\ lock' = p
  /\ pc' = [pc EXCEPT ![p] = IF @ = "r_lock" THEN "r_loop" ELSE "w_loop"]
  /\ UNCHANGED <<readOpen, writeOpen, readCnt, writeCnt, data, want, moved,
                 killed, ofile, nw, out, killedAsleep,
                 dropUnbalanced>>
  /\ KeepStranded

\* Pipe::read, from the wait loop to the return.  While the pipe is empty
\* and the write end open: return an error if killed, else sleep on
\* &read_cnt (releasing the lock).  Otherwise take min(count, available)
\* bytes, advancing read_cnt before each copy_out; a failing copy_out ends
\* the loop with that byte already consumed.  Then wake the writers.
read_loop(p) ==
  /\ pc[p] = "r_loop" /\ lock = p
  /\ IF readCnt = writeCnt /\ writeOpen
       THEN /\ lock' = NoOne
            /\ IF killed[p]
                 THEN /\ pc' = [pc EXCEPT ![p] = "idle"]
                      /\ killedAsleep' = killedAsleep \ {p}
                 ELSE /\ pc' = [pc EXCEPT ![p] = "r_sleep"]
                      /\ UNCHANGED killedAsleep
            /\ UNCHANGED <<readCnt, out>>
       ELSE LET n == MinOf(want[p], WSub(writeCnt, readCnt))
            IN \E taken \in IF UserFaults /\ n > 0 THEN 1 .. n ELSE {n} :
                 /\ readCnt' = WAdd(readCnt, taken)
                 /\ out' = out \o [i \in 1 .. taken |->
                                     data[Slot(WAdd(readCnt, i - 1))]]
                 /\ lock' = NoOne
                 /\ pc' = [WakeWriters(pc) EXCEPT ![p] = "idle"]
                 /\ killedAsleep' = killedAsleep \ {p}
  /\ UNCHANGED <<readOpen, writeOpen, writeCnt, data, want, moved, killed,
                 ofile, nw, dropUnbalanced>>
  /\ KeepStranded

\* One iteration of Pipe::write's loop.  Done: wake the readers and return.
\* Read end closed or caller killed: return an error at once.  Ring full:
\* wake the readers and sleep on &write_cnt.  Otherwise copy_in one byte
\* into slot write_cnt % PIPESIZE; a failing copy_in ends the write.
write_loop(p) ==
  /\ pc[p] = "w_loop" /\ lock = p
  /\ \/ /\ moved[p] = want[p]
        /\ lock' = NoOne
        /\ pc' = [WakeReaders(pc) EXCEPT ![p] = "idle"]
        /\ UNCHANGED <<writeCnt, data, moved, nw>>
        /\ KeepStranded
     \/ /\ moved[p] < want[p]
        /\ ~readOpen \/ killed[p]
        /\ lock' = NoOne
        /\ pc' = [pc EXCEPT ![p] = "idle"]
        /\ UNCHANGED <<writeCnt, data, moved, nw>>
        /\ stranded' = stranded \cup {r \in Procs : pc[r] = "r_sleep" /\ Readable}
     \/ /\ moved[p] < want[p] /\ readOpen /\ ~killed[p]
        /\ Full
        /\ lock' = NoOne
        /\ pc' = [WakeReaders(pc) EXCEPT ![p] = "w_sleep"]
        /\ UNCHANGED <<writeCnt, data, moved, nw>>
        /\ KeepStranded
     \/ /\ moved[p] < want[p] /\ readOpen /\ ~killed[p]
        /\ ~Full
        /\ KeepStranded
        /\ \/ /\ data' = [data EXCEPT ![Slot(writeCnt)] = nw + 1]
              /\ writeCnt' = WAdd(writeCnt, 1)
              /\ moved' = [moved EXCEPT ![p] = @ + 1]
              /\ nw' = nw + 1
              /\ UNCHANGED <<lock, pc>>
           \/ /\ UserFaults
              /\ lock' = NoOne
              /\ pc' = [WakeReaders(pc) EXCEPT ![p] = "idle"]
              /\ UNCHANGED <<writeCnt, data, moved, nw>>
  /\ UNCHANGED <<readOpen, writeOpen, readCnt, want, killed, ofile, out,
                 killedAsleep, dropUnbalanced>>

\* ProcManager::kill(pid), from another process: set killed; a SLEEPING
\* target is made RUNNABLE.
Kill(p) ==
  /\ p \in Killable /\ p \in Alive /\ ~killed[p]
  /\ killed' = [killed EXCEPT ![p] = TRUE]
  /\ pc' = [pc EXCEPT ![p] = CASE @ = "r_sleep" -> "r_lock"
                               [] @ = "w_sleep" -> "w_lock"
                               [] OTHER -> @]
  /\ killedAsleep' = IF pc[p] = "r_sleep" THEN killedAsleep \cup {p}
                                          ELSE killedAsleep
  /\ UNCHANGED <<readOpen, writeOpen, readCnt, writeCnt, data, lock, want,
                 moved, ofile, nw, out, dropUnbalanced>>
  /\ KeepStranded

KilledExit(p) == killed[p] /\ exiting(p)

ProcStep(p) == Acquire(p) \/ read_loop(p) \/ write_loop(p)

Next ==
  \/ \E p \in Procs, fd \in Fds, n \in Counts :
       StartRead(p, fd, n) \/ StartWrite(p, fd, n)
  \/ \E p \in Procs : ProcStep(p) \/ Kill(p) \/ sys_pipe(p) \/ exiting(p)
  \/ \E p \in Procs, fd \in Fds : sys_dup(p, fd) \/ sys_close(p, fd)
  \/ \E p, c \in Procs : fork(p, c)

\* Runnable processes are eventually scheduled and a spinlock holder
\* eventually releases it, so a process inside read or write keeps going;
\* a killed process eventually exits (check_abondon on its next trap).
\* System calls, exits and kills are the environment's choice.
Fairness == \A p \in Procs : WF_vars(ProcStep(p)) /\ WF_vars(KilledExit(p))

Spec == Init /\ [][Next]_vars
FairSpec == Spec /\ Fairness

-----------------------------------------------------------------------------
TypeOK ==
  /\ readOpen \in BOOLEAN /\ writeOpen \in BOOLEAN
  /\ readCnt \in 0 .. Mod - 1 /\ writeCnt \in 0 .. Mod - 1
  /\ lock \in Procs \cup {NoOne}
  /\ pc \in [Procs -> {"unborn", "idle", "r_lock", "r_loop", "r_sleep",
                       "w_lock", "w_loop", "w_sleep", "gone"}]
  /\ killed \in [Procs -> BOOLEAN]
  /\ ofile \in [Procs -> [Fds -> Ends \cup {NoFile}]]
  /\ killedAsleep \subseteq Procs
  /\ stranded \subseteq Procs

\* Bytes leave the pipe in the order they entered it: the k-th byte taken
\* out of the ring is the k-th byte written, across wrap-around of the
\* read_cnt / write_cnt counters.
ReadInOrder == \A i \in 1 .. Len(out) : out[i] = i

\* No lost wakeup on either channel: a reader asleep while the pipe holds
\* data or its write end is closed is eventually woken, and a writer asleep
\* while there is room or the read end is closed is eventually woken.
NoLostWakeup ==
  /\ \A r \in Procs : (pc[r] = "r_sleep" /\ Readable) ~> pc[r] # "r_sleep"
  /\ \A w \in Procs : (pc[w] = "w_sleep" /\ Writable) ~> pc[w] # "w_sleep"

\* The same, except for the readers a killed writer leaves asleep: a
\* reader asleep with something to return is eventually woken unless a
\* writer takes the killed return of Pipe::write, which skips the wakeup
\* of readers (finding 3, at pipe.rs:198); a writer asleep with room is
\* always eventually woken.
WakeupUnlessWriterKilled ==
  /\ \A r \in Procs :
       (pc[r] = "r_sleep" /\ Readable) ~> (pc[r] # "r_sleep" \/ r \in stranded)
  /\ \A w \in Procs : (pc[w] = "w_sleep" /\ Writable) ~> pc[w] # "w_sleep"

\* Spec 8: a pipe reader killed while asleep returns with an error before
\* consuming any further byte.
KilledReaderTakesNothing ==
  [][\A r \in killedAsleep : lock = r => readCnt' = readCnt]_vars

\* Closing the write end wakes every reader: once no live process holds
\* the write File in any fd slot (each having closed it, or exited through
\* close_files), a process asleep in Pipe::read is eventually woken.  This
\* needs fork to clone, dup to share and close/exit to drop the Arc<File>
\* references so that the last drop, and only it, runs Pipe::close.  (A
\* reader waiting for the spinlock may starve: the lock is not fair.)
ReaderSeesEnd ==
  \A p \in Procs :
    (pc[p] = "r_sleep" /\ \A q \in Alive : ~Holds(q, "w")) ~> pc[p] # "r_sleep"

\* Pipe's Drop: the pipe is only dropped with both ends closed (the
\* debug_assert read_open == write_open).
PipeDropBalanced == ~dropUnbalanced
=============================================================================
