-------------------------------- MODULE Proc --------------------------------
(***************************************************************************)
(* The process table of src/process: ProcManager (alloc_proc, exiting,     *)
(* waiting, kill, wakeup), Proc (fork, sleep, yielding, check_abondon) and *)
(* the per-hart scheduler loop of CpuManager.  Slot 0 is init (user_init  *)
(* allocates it first, with pid 0).                                        *)
(*                                                                         *)
(* Each action is one critical section of the code: exiting runs entirely  *)
(* under the parents lock; waiting's scan and killed check run under the   *)
(* parents lock, which stays held until sleep has taken the PCB lock (the  *)
(* step sleep), and clock_sleep does the same under the TICKS lock;        *)
(* wakeup/kill take each PCB lock in turn.  clock_intr, on hart 0 only,    *)
(* ticks the wrapping counter and wakes the TICKS sleepers.  fork is split where it releases the        *)
(* child's PCB lock: after alloc_proc, and after copying the user memory.  *)
(* alloc_runnable's ALLOCATED marking and the scheduler's RUNNING are one  *)
(* step: in between no other code acts on an ALLOCATED process's state.    *)
(* User memory, files and exit status are data and are left out; uvm_copy  *)
(* and copy_out may fail.                                                  *)
(***************************************************************************)
EXTENDS Naturals, FiniteSets

CONSTANTS
  NPROC,        \* consts::NPROC (slots 0 .. NPROC-1, slot 0 is init)
  Harts,        \* the harts running the scheduler loop
  MaxPid,       \* bound: alloc_pid hands out pids 0 .. MaxPid-1
  KillPids,     \* the pids user programs pass to kill
  UserFaults,   \* whether uvm_copy / copy_out may fail
  DebugBuild,   \* whether debug_assert! is compiled in
  TimerHart,    \* the hart with cpu_id 0, the only one running clock_intr
  TickMod,      \* TICKS wraps modulo TickMod (Wrapping<usize>, width scaled down)
  Counts,       \* the tick counts user programs pass to sleep
  TicksChan,    \* the channel &TICKS
  None

Slots == 0 .. NPROC - 1
InitProc == 0
ProcState == {"UNUSED", "SLEEPING", "RUNNABLE", "RUNNING", "ALLOCATED", "ZOMBIE"}
ASSUME /\ NPROC \in Nat \ {0} /\ MaxPid \in Nat \ {0}
       /\ KillPids \subseteq 0 .. MaxPid /\ UserFaults \in BOOLEAN
       /\ DebugBuild \in BOOLEAN /\ None \notin Slots
       /\ TimerHart \in Harts /\ TickMod \in Nat \ {0, 1}
       /\ Counts \subseteq 0 .. TickMod - 1 /\ TicksChan \notin Slots

VARIABLES
  state,      \* ProcExcl.state
  pid,        \* ProcExcl.pid
  chan,       \* ProcExcl.channel: the slot slept on (waiting sleeps on itself)
  killed,     \* Proc.killed
  parent,     \* ProcManager.parents
  nextPid,    \* ProcManager.pid
  cpu,        \* hart -> slot of Cpu.proc, or None
  pc,         \* slot -> where its kernel thread is: user, fork, link, wait
  child,      \* slot -> the child a fork in progress allocated
  plock,      \* holder of the ProcManager.parents lock across a step, or None
  tlock,      \* holder of the TICKS lock across a step, or None
  ticks,      \* TICKS
  old,        \* slot -> clock_sleep's old_ticks
  cnt,        \* slot -> clock_sleep's count
  slept,      \* slot -> ticks that really passed in clock_sleep (capped at TickMod)
  panicked

vars == <<state, pid, chan, killed, parent, nextPid, cpu, pc, child,
          plock, tlock, ticks, old, cnt, slept, panicked>>
\* The variables of the clock and its sleepers.
clk == <<plock, tlock, ticks, old, cnt, slept>>

\* ProcManager::new, then user_init: alloc_proc takes slot 0 and pid 0 and
\* makes it RUNNABLE.
Init ==
  /\ state = [i \in Slots |-> IF i = InitProc THEN "RUNNABLE" ELSE "UNUSED"]
  /\ pid = [i \in Slots |-> 0]
  /\ chan = [i \in Slots |-> None]
  /\ killed = [i \in Slots |-> FALSE]
  /\ parent = [i \in Slots |-> None]
  /\ nextPid = 1
  /\ cpu = [h \in Harts |-> None]
  /\ pc = [i \in Slots |-> "user"]
  /\ child = [i \in Slots |-> None]
  /\ plock = None /\ tlock = None /\ ticks = 0
  /\ old = [i \in Slots |-> 0] /\ cnt = [i \in Slots |-> 0]
  /\ slept = [i \in Slots |-> 0]
  /\ panicked = {}

Live == panicked = {}
\* The table scans (alloc_proc, alloc_runnable, waiting, kill) go from
\* slot 0 upwards and take the first match.
First(S) == CHOOSE i \in S : \A j \in S : i <= j
\* Process i is the one running on hart h.
On(h, i) == cpu[h] = i /\ state[i] = "RUNNING"
\* A switch to the scheduler that leaves the hart's current process set.
StayOn(h) == cpu' = cpu
\* Leave hart h: sched switches back to the scheduler, which clears c.proc.
Leave(h) == cpu' = [cpu EXCEPT ![h] = None]

\* A wakeup that wakes nobody.
wakeupNone(st, c) == st
\* ProcManager::wakeup(channel): every process SLEEPING on it is RUNNABLE.
wakeup(st, c) == [j \in Slots |-> IF st[j] = "SLEEPING" /\ chan[j] = c
                                    THEN "RUNNABLE" ELSE st[j]]

\* CpuManager::scheduler: alloc_runnable takes the first RUNNABLE slot and
\* the hart runs it.
scheduler(h) ==
  /\ Live /\ cpu[h] = None
  /\ \E i \in Slots : state[i] = "RUNNABLE"
  /\ LET i == First({j \in Slots : state[j] = "RUNNABLE"})
     IN /\ state' = [state EXCEPT ![i] = "RUNNING"]
        /\ cpu' = [cpu EXCEPT ![h] = i]
  /\ UNCHANGED <<pid, chan, killed, parent, nextPid, pc, child, clk, panicked>>

\* The timer interrupt in user_trap: check_abondon found killed false, so
\* yielding makes the process RUNNABLE and switches to the scheduler.
yielding(h, i) ==
  /\ Live /\ On(h, i) /\ pc[i] = "user" /\ ~killed[i]
  /\ state' = [state EXCEPT ![i] = "RUNNABLE"]
  /\ Leave(h)
  /\ UNCHANGED <<pid, chan, killed, parent, nextPid, pc, child, clk, panicked>>

\* An exiting that leaves the children's parent links alone.
ReparentNone(par, i) == par
\* exiting's loop: every child of i becomes a child of init.
Reparent(par, i) == [j \in Slots |-> IF par[j] = i THEN InitProc ELSE par[j]]

\* ProcManager::exiting, from sys_exit or from check_abondon on a killed
\* process.  Init may not exit (and its program, user/init, never calls
\* exit: it forks the shell and waits).  Under the parents lock: reparent the
\* children to init (waking init if there were any), wake the parent, and
\* become a ZOMBIE.
exiting(h, i) ==
  /\ Live /\ On(h, i) /\ pc[i] = "user" /\ (i # InitProc \/ killed[i])
  /\ plock = None
  /\ IF i = InitProc
       THEN /\ panicked' = {"init process exiting"}
            /\ UNCHANGED <<state, parent, cpu>>
       ELSE LET haveChild == \E j \in Slots : parent[j] = i
                s1 == IF haveChild THEN wakeup(state, InitProc) ELSE state
                s2 == wakeup(s1, parent[i])
            IN /\ parent' = Reparent(parent, i)
               /\ state' = [s2 EXCEPT ![i] = "ZOMBIE"]
               /\ Leave(h)
               /\ UNCHANGED panicked
  /\ UNCHANGED <<pid, chan, killed, nextPid, pc, child, clk>>

\* sys_fork -> Proc::fork -> alloc_proc: alloc_pid always takes a pid; the
\* first UNUSED slot becomes ALLOCATED with it, or fork fails.
fork_alloc(h, i) ==
  /\ Live /\ On(h, i) /\ pc[i] = "user" /\ ~killed[i]
  /\ nextPid < MaxPid
  /\ nextPid' = nextPid + 1
  /\ IF \E c \in Slots : state[c] = "UNUSED"
       THEN LET c == First({j \in Slots : state[j] = "UNUSED"})
            IN /\ state' = [state EXCEPT ![c] = "ALLOCATED"]
               /\ pid' = [pid EXCEPT ![c] = nextPid]
               /\ child' = [child EXCEPT ![i] = c]
               /\ pc' = [pc EXCEPT ![i] = "fork"]
       ELSE UNCHANGED <<state, pid, child, pc>>
  /\ UNCHANGED <<chan, killed, parent, cpu, clk, panicked>>

\* fork, under the child's PCB lock: uvm_copy.  On failure the child is
\* cleaned up to UNUSED after debug_assert!(killed == false).
fork_copy(h, i) ==
  /\ Live /\ On(h, i) /\ pc[i] = "fork"
  /\ LET c == child[i] IN
     \/ /\ pc' = [pc EXCEPT ![i] = "link"]
        /\ UNCHANGED <<state, pid, killed, child, panicked>>
     \/ /\ UserFaults
        /\ IF DebugBuild /\ killed[c]
             THEN /\ panicked' = {"fork: child killed"}
                  /\ UNCHANGED <<state, pid, killed, child, pc>>
             ELSE /\ killed' = [killed EXCEPT ![c] = FALSE]
                  /\ state' = [state EXCEPT ![c] = "UNUSED"]
                  /\ pid' = [pid EXCEPT ![c] = 0]
                  /\ child' = [child EXCEPT ![i] = None]
                  /\ pc' = [pc EXCEPT ![i] = "user"]
                  /\ UNCHANGED panicked
  /\ UNCHANGED <<chan, parent, nextPid, cpu, clk>>

\* The rest of fork: set_parent (under the parents lock), then the child is
\* RUNNABLE.
fork_link(h, i) ==
  /\ Live /\ On(h, i) /\ pc[i] = "link" /\ plock = None
  /\ parent' = [parent EXCEPT ![child[i]] = i]
  /\ state' = [state EXCEPT ![child[i]] = "RUNNABLE"]
  /\ child' = [child EXCEPT ![i] = None]
  /\ pc' = [pc EXCEPT ![i] = "user"]
  /\ UNCHANGED <<pid, chan, killed, nextPid, cpu, clk, panicked>>

\* ProcManager::waiting, entered by sys_wait (after check_abondon) or
\* resumed after its sleep (sleep clears the channel).  It takes the
\* parents lock: reap the first ZOMBIE child (copy_out of its status may
\* fail); else fail without children or when killed; else call sleep with
\* the parents lock still held (pc wait_lk).
waiting(h, i) ==
  /\ Live /\ On(h, i) /\ plock = None
  /\ \/ pc[i] = "user" /\ ~killed[i]
     \/ pc[i] = "wait"
  /\ LET kids == {j \in Slots : parent[j] = i}
         zombies == {j \in kids : state[j] = "ZOMBIE"}
         done == /\ pc' = [pc EXCEPT ![i] = "user"]
                 /\ chan' = [chan EXCEPT ![i] = None]
     IN IF zombies # {}
          THEN LET c == First(zombies) IN
               \/ /\ UserFaults /\ done
                  /\ UNCHANGED <<state, pid, killed, parent, plock>>
               \/ /\ done
                  /\ parent' = [parent EXCEPT ![c] = None]
                  /\ killed' = [killed EXCEPT ![c] = FALSE]
                  /\ state' = [state EXCEPT ![c] = "UNUSED"]
                  /\ pid' = [pid EXCEPT ![c] = 0]
                  /\ UNCHANGED plock
        ELSE IF kids = {} \/ killed[i]
          THEN done /\ UNCHANGED <<state, pid, killed, parent, plock>>
        ELSE /\ plock' = i
             /\ pc' = [pc EXCEPT ![i] = "wait_lk"]
             /\ UNCHANGED <<state, pid, killed, parent, chan>>
  /\ UNCHANGED <<nextPid, cpu, child, tlock, ticks, old, cnt, slept, panicked>>

\* Proc::sleep(channel, guard), from waiting (channel: the process itself,
\* guard: parents) or clock_sleep (channel &TICKS, guard: TICKS): take the
\* PCB lock, drop the guard, sleep and switch to the scheduler.  The killed
\* flag is not looked at again.
sleep(h, i) ==
  /\ Live /\ On(h, i) /\ pc[i] \in {"wait_lk", "clock_lk"}
  /\ LET inWait == pc[i] = "wait_lk" IN
     /\ chan' = [chan EXCEPT ![i] = IF inWait THEN i ELSE TicksChan]
     /\ pc' = [pc EXCEPT ![i] = IF inWait THEN "wait" ELSE "clock"]
     /\ plock' = IF inWait THEN None ELSE plock
     /\ tlock' = IF inWait THEN tlock ELSE None
  /\ state' = [state EXCEPT ![i] = "SLEEPING"]
  /\ Leave(h)
  /\ UNCHANGED <<pid, killed, parent, nextPid, child, ticks, old, cnt, slept,
                 panicked>>

\* kill: `if guard.state == ProcState::SLEEPING { ... = RUNNABLE }`.
KillWake(st, j) == [st EXCEPT ![j] = IF @ = "SLEEPING" THEN "RUNNABLE" ELSE @]

\* sys_kill -> ProcManager::kill(k): the first slot with pid k gets the
\* killed flag and, if SLEEPING, becomes RUNNABLE; no such slot is an error.
\* kill takes no parents or TICKS lock.  (Init's program never calls kill.)
kill(h, i, k) ==
  /\ Live /\ On(h, i) /\ pc[i] = "user" /\ ~killed[i] /\ i # InitProc
  /\ IF \E j \in Slots : pid[j] = k
       THEN LET j == First({s \in Slots : pid[s] = k})
            IN /\ killed' = [killed EXCEPT ![j] = TRUE]
               /\ state' = KillWake(state, j)
       ELSE UNCHANGED <<killed, state>>
  /\ UNCHANGED <<pid, chan, parent, nextPid, cpu, pc, child, clk, panicked>>

\* The ticks that passed since old_ticks, in Wrapping<usize> arithmetic.
Elapsed(t, o) == (t + TickMod - o) % TickMod

\* sys_sleep(count) (count >= 0; after check_abondon) -> clock_sleep: under
\* the TICKS lock, old_ticks := ticks; count 0 returns at once, otherwise
\* the loop calls sleep with TICKS held (the killed flag was just checked
\* clear at trap entry).
sleep_call(h, i, n) ==
  /\ Live /\ On(h, i) /\ pc[i] = "user" /\ ~killed[i] /\ tlock = None
  /\ IF n = 0
       THEN UNCHANGED <<pc, tlock, old, cnt, slept>>
       ELSE /\ pc' = [pc EXCEPT ![i] = "clock_lk"]
            /\ tlock' = i
            /\ old' = [old EXCEPT ![i] = ticks]
            /\ cnt' = [cnt EXCEPT ![i] = n]
            /\ slept' = [slept EXCEPT ![i] = 0]
  /\ UNCHANGED <<state, pid, chan, killed, parent, nextPid, cpu, child,
                 plock, ticks, panicked>>

\* The loop of clock_sleep that a wakeup would return early from.
clock_loopNoRecheck(h, i) ==
  /\ Live /\ On(h, i) /\ pc[i] = "clock" /\ tlock = None
  /\ pc' = [pc EXCEPT ![i] = "user"] /\ chan' = [chan EXCEPT ![i] = None]
  /\ UNCHANGED <<tlock, state, pid, killed, parent, nextPid, cpu, child,
                 plock, ticks, old, cnt, slept, panicked>>
\* clock_sleep's loop, resumed after sleep (which clears the channel): take
\* TICKS; once count ticks have passed return Ok; a killed process returns
\* Err; otherwise sleep again, TICKS held.
clock_loop(h, i) ==
  /\ Live /\ On(h, i) /\ pc[i] = "clock" /\ tlock = None
  /\ chan' = [chan EXCEPT ![i] = None]
  /\ IF Elapsed(ticks, old[i]) >= cnt[i] \/ killed[i]
       THEN /\ pc' = [pc EXCEPT ![i] = "user"]
            /\ old' = [old EXCEPT ![i] = 0] /\ cnt' = [cnt EXCEPT ![i] = 0]
            /\ slept' = [slept EXCEPT ![i] = 0]
            /\ UNCHANGED tlock
       ELSE /\ pc' = [pc EXCEPT ![i] = "clock_lk"] /\ tlock' = i
            /\ UNCHANGED <<old, cnt, slept>>
  /\ UNCHANGED <<state, pid, killed, parent, nextPid, cpu, child,
                 plock, ticks, panicked>>

\* A clock interrupt that does not wake the TICKS sleepers.
clock_intrNoWake(st) == st
\* The waking half of clock_intr.
clock_wake(st) == wakeup(st, TicksChan)

\* trap: clock_intr on cpu_id 0 only.  It runs when that hart has
\* interrupts on, so not while its process holds a spinlock across a step;
\* it takes TICKS, ticks += 1 (wrapping) and wakes the TICKS sleepers.
clock_intr ==
  /\ Live /\ tlock = None
  /\ cpu[TimerHart] # None => pc[cpu[TimerHart]] \notin {"wait_lk", "clock_lk"}
  /\ ticks' = (ticks + 1) % TickMod
  /\ state' = clock_wake(state)
  /\ slept' = [i \in Slots |-> IF pc[i] = "clock" /\ slept[i] < TickMod
                                THEN slept[i] + 1 ELSE slept[i]]
  /\ UNCHANGED <<pid, chan, killed, parent, nextPid, cpu, pc, child,
                 plock, tlock, old, cnt, panicked>>

ProcStep(h, i) ==
  \/ yielding(h, i) \/ exiting(h, i)
  \/ fork_alloc(h, i) \/ fork_copy(h, i) \/ fork_link(h, i)
  \/ waiting(h, i) \/ sleep(h, i) \/ \E k \in KillPids : kill(h, i, k)
  \/ \E n \in Counts : sleep_call(h, i, n)
  \/ clock_loop(h, i)

Next ==
  \/ \E h \in Harts : scheduler(h)
  \/ \E h \in Harts, i \in Slots : ProcStep(h, i)
  \/ clock_intr

Spec == Init /\ [][Next]_vars

\* A hart that holds a spinlock across a step goes on to sleep; the pending
\* timer interrupt of hart 0 is taken whenever interrupts come back on.
FairSpec == Spec /\ SF_vars(clock_intr)
            /\ \A h \in Harts, i \in Slots : WF_vars(sleep(h, i))

-----------------------------------------------------------------------------
\* Types, and: a process is RUNNING exactly when one hart runs it.
TypeOK ==
  /\ state \in [Slots -> ProcState]
  /\ parent \in [Slots -> Slots \cup {None}]
  /\ chan \in [Slots -> Slots \cup {None, TicksChan}]
  /\ cpu \in [Harts -> Slots \cup {None}]
  /\ pc \in [Slots -> {"user", "fork", "link", "wait", "wait_lk", "clock_lk", "clock"}]
  /\ ticks \in 0 .. TickMod - 1 /\ slept \in [Slots -> 0 .. TickMod]
  /\ \A i \in Slots : state[i] = "RUNNING" <=> \E h \in Harts : cpu[h] = i
  /\ \A h, g \in Harts : h # g /\ cpu[h] # None => cpu[h] # cpu[g]

\* The parents map is a tree rooted at init: every process past fork's
\* set_parent has a parent, and every parent is a process that is alive
\* (exiting hands its children to init before it becomes a ZOMBIE, and
\* only a ZOMBIE, which has no children, is reaped).
NoOrphans ==
  \A j \in Slots :
    /\ j # InitProc /\ state[j] \in {"RUNNABLE", "RUNNING", "SLEEPING", "ZOMBIE"}
         => parent[j] # None
    /\ parent[j] # None
         => state[parent[j]] \in {"RUNNABLE", "RUNNING", "SLEEPING"}

\* No lost wakeup between exiting and waiting: a parent is never asleep in
\* wait while one of its children is a ZOMBIE.
WaitNotLost ==
  \A c \in Slots : state[c] = "ZOMBIE" /\ parent[c] # None
    => ~(state[parent[c]] = "SLEEPING" /\ chan[parent[c]] = parent[c])

\* A killed process is never asleep: kill wakes a sleeper and waiting and
\* clock_sleep check the flag before they sleep, so the process reaches
\* check_abondon.
KilledNotAsleep == \A i \in Slots : killed[i] => state[i] # "SLEEPING"

\* sys_sleep(n) returns Ok only after n clock_intr ticks really happened
\* while it was in clock_sleep, wrapping of TICKS included: the loop's
\* `*guard - old_ticks < count` in Wrapping arithmetic is rechecked after
\* every wakeup, and a wakeup comes on every tick and on a kill.
ClockSleepExact ==
  [][\A i \in Slots : pc[i] = "clock" /\ pc'[i] = "user" /\ ~killed[i]
                      => slept[i] >= cnt[i]]_vars

\* A process asleep on &TICKS, killed or not, is woken: clock_intr keeps
\* firing on hart 0 and wakes every TICKS sleeper, and no holder of the
\* TICKS lock keeps it across a switch.
ClockSleeperWoken ==
  \A i \in Slots : state[i] = "SLEEPING" /\ chan[i] = TicksChan
                   ~> state[i] # "SLEEPING"

\* The kernel does not panic: init never exits, and fork's debug_assert!
\* that the child it is about to clean up was not killed holds.
NoPanic == panicked = {}
=============================================================================
