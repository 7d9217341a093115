\* Three slots on two harts, pids 0..4: fork, exit, wait, kill, sleep and
\* timer yields in every order, with failing uvm_copy / copy_out, in a
\* release build, under the fairness of FairSpec.  Init's pid (0) is not a
\* kill target: killing init is the documented "init process exiting"
\* panic.  TICKS wraps at 3, so sleeps of 0 and 2 ticks start at every
\* phase of the counter and the 2-tick ones cross its wrap.
CONSTANTS
  h1 = h1  h2 = h2  None = None  TicksChan = TicksChan
  NPROC = 3
  Harts = {h1, h2}
  TimerHart = h1
  MaxPid = 4
  KillPids = {1, 2}
  UserFaults = TRUE
  DebugBuild = FALSE
  TickMod = 3
  Counts = {0, 2}
SPECIFICATION FairSpec
INVARIANT TypeOK NoOrphans WaitNotLost
PROPERTY ClockSleepExact ClockSleeperWoken
