------------------------------- MODULE Console -------------------------------
(***************************************************************************)
(* The console line discipline (driver/console.rs) over the UART's        *)
(* interrupt-driven transmit ring (driver/uart.rs), as processes reach    *)
(* them through read and write on the console device (fs/file/mod.rs      *)
(* dispatches major 1 to console::read and console::write).               *)
(*                                                                         *)
(* The console keeps a line buffer and three Wrapping<usize> indices:     *)
(* ri (read), wi (committed) and ei (edit), all taken % CONSOLE_BUF.  The *)
(* UART keeps a ring ubuf with Wrapping indices uri and uwi taken         *)
(* % UART_BUF.  Wrapping arithmetic is modelled modulo WRAP, a multiple  *)
(* of both buffer sizes, which is what 2^64 is to the code.               *)
(*                                                                         *)
(* Each action is one critical section: console::read runs under the      *)
(* console spinlock from the lock to the next sleep or return, putc and   *)
(* transmit under the UART spinlock, console::intr under the console     *)
(* lock.  "tosleep" is a reader that found no data and checked killed but *)
(* has not yet gone to sleep: it still holds the console lock, and kill   *)
(* may run in that window.  The holding register is thr, busy while the  *)
(* device shifts its byte out.  Bytes a process writes are its own name.  *)
(***************************************************************************)
EXTENDS Integers, Sequences

CONSTANTS Procs,          \* processes using the console device
          Printable,      \* ordinary input bytes
          LF, CR, EOT, BS, DEL, BS_LINE, PRINT_PROCESS, NUL,
          Keys,           \* the bytes the keyboard may send
          CONSOLE_BUF, UART_BUF,
          WRAP,           \* modulus of the Wrapping<usize> indices
          MaxTyped,       \* bound on keyboard bytes received
          MaxCalls,       \* bound on read and write calls
          ReadCounts, WriteCounts,
          CopyFaults,     \* whether a user copy may fail part way
          None

ASSUME WRAP % CONSOLE_BUF = 0 /\ WRAP % UART_BUF = 0
       /\ WRAP > CONSOLE_BUF /\ WRAP > UART_BUF

VARIABLES buf, ri, wi, ei,        \* struct Console
          ubuf, uri, uwi,         \* struct Uart
          thr, busy,              \* the device's transmit holding register
          pc, tot, left, got, fault, killed,
          typed, calls, panicked

vars == <<buf, ri, wi, ei, ubuf, uri, uwi, thr, busy,
          pc, tot, left, got, fault, killed, typed, calls, panicked>>

Byte == Printable \cup {LF, CR, EOT, BS, DEL, BS_LINE, PRINT_PROCESS, NUL}
          \cup Procs

W(x) == x % WRAP

\* Where a user copy of a call of n bytes fails: never, or at byte i.
Faults(n) == IF CopyFaults THEN {-1} \cup 0 .. n - 1 ELSE {-1}

\* No reader holds the console lock between its killed check and sleep.
ConsoleFree == \A p \in Procs : pc[p] # "tosleep"

\* wakeup on &console.ri and on &uart.ri: every sleeper on it runs again.
WakeR(pcs) == [q \in Procs |-> IF pcs[q] = "rsleep" THEN "read" ELSE pcs[q]]
WakeW(pcs) == [q \in Procs |-> IF pcs[q] = "wsleep" THEN "write" ELSE pcs[q]]

\* A syscall returns; a killed process exits on its way back to user mode.
After(p) == IF killed[p] THEN "dead" ELSE "idle"

UFull == uwi = W(uri + UART_BUF)

(* Uart::transmit, with the ring (b, r, w), the device state (bz, t) and  *)
(* process states pcs as its caller left them: while the ring is not     *)
(* empty and the holding register is idle, send the byte at ri and wake  *)
(* the writers; the register is busy after one byte.                     *)
transmit(b, r, w, bz, t, pcs) ==
  IF w # r /\ ~bz
  THEN /\ uri' = W(r + 1) /\ thr' = b[r % UART_BUF] /\ busy' = TRUE
       /\ pc' = WakeW(pcs)
  ELSE /\ uri' = r /\ thr' = t /\ busy' = bz /\ pc' = pcs

(* The loop of console::read from a given ri: take bytes while left > 0  *)
(* and data is committed; EOT ends the read and stays in the buffer when *)
(* bytes were already copied; a failing copy_out ends it after the byte  *)
(* was taken; LF ends it after being copied.  st is "wait" when the      *)
(* buffer ran empty with bytes still wanted.                             *)
RECURSIVE ReadLoop(_, _, _, _, _)
ReadLoop(r, l, g, n, f) ==
  IF l = 0 THEN [ri |-> r, left |-> l, got |-> g, st |-> "done"]
  ELSE IF r = wi THEN [ri |-> r, left |-> l, got |-> g, st |-> "wait"]
  ELSE LET c == buf[r % CONSOLE_BUF] IN
    IF c = EOT
      THEN [ri |-> IF l < n THEN r ELSE W(r + 1), left |-> l, got |-> g,
            st |-> "done"]
    ELSE IF n - l = f
      THEN [ri |-> W(r + 1), left |-> l, got |-> g, st |-> "done"]
    ELSE IF c = LF
      THEN [ri |-> W(r + 1), left |-> l - 1, got |-> Append(g, c),
            st |-> "done"]
    ELSE ReadLoop(W(r + 1), l - 1, Append(g, c), n, f)

(* console::read with the console lock taken, for call (n, f) of p with  *)
(* l bytes left and g copied: run the loop; on an empty buffer return    *)
(* Err if p is killed, else go to sleep on &console.ri.                  *)
ReadOn(p, n, f, l, g) ==
  \E x \in {ReadLoop(ri, l, g, n, f)} :
    /\ ri' = x.ri
    /\ got' = [got EXCEPT ![p] = x.got]
    /\ IF x.st = "wait" /\ ~killed[p]
         THEN /\ pc' = [pc EXCEPT ![p] = "tosleep"]
              /\ tot' = [tot EXCEPT ![p] = n]
              /\ left' = [left EXCEPT ![p] = x.left]
              /\ fault' = [fault EXCEPT ![p] = f]
         ELSE /\ pc' = [pc EXCEPT ![p] = After(p)]
              /\ tot' = [tot EXCEPT ![p] = 0]
              /\ left' = [left EXCEPT ![p] = 0]
              /\ fault' = [fault EXCEPT ![p] = -1]

Init ==
  /\ buf = [i \in 0 .. CONSOLE_BUF - 1 |-> NUL]
  /\ ri = 0 /\ wi = 0 /\ ei = 0
  /\ ubuf = [i \in 0 .. UART_BUF - 1 |-> NUL]
  /\ uri = 0 /\ uwi = 0
  /\ thr = NUL /\ busy = FALSE
  /\ pc = [p \in Procs |-> "idle"]
  /\ tot = [p \in Procs |-> 0] /\ left = [p \in Procs |-> 0]
  /\ got = [p \in Procs |-> << >>] /\ fault = [p \in Procs |-> -1]
  /\ killed = [p \in Procs |-> FALSE]
  /\ typed = 0 /\ calls = 0 /\ panicked = FALSE

(* sys_read on the console: count > 0, then console::read from the top.  *)
sys_read(p, n, f) ==
  /\ ~panicked /\ pc[p] = "idle" /\ calls < MaxCalls /\ ConsoleFree
  /\ calls' = calls + 1
  /\ ReadOn(p, n, f, n, << >>)
  /\ UNCHANGED <<buf, wi, ei, ubuf, uri, uwi, thr, busy, killed, typed,
                 panicked>>

\* A woken reader takes the console lock again and goes on with its loop.
ReadResume(p) ==
  /\ ~panicked /\ pc[p] = "read" /\ ConsoleFree
  /\ ReadOn(p, tot[p], fault[p], left[p], got[p])
  /\ UNCHANGED <<buf, wi, ei, ubuf, uri, uwi, thr, busy, killed, typed,
                 calls, panicked>>

\* Proc::sleep: take p's lock, drop the console lock, become SLEEPING.
sleep(p) ==
  /\ pc[p] = "tosleep"
  /\ pc' = [pc EXCEPT ![p] = "rsleep"]
  /\ UNCHANGED <<buf, ri, wi, ei, ubuf, uri, uwi, thr, busy, tot, left,
                 got, fault, killed, typed, calls, panicked>>

(* kill(pid) of a process inside a console call: set killed and make it  *)
(* RUNNABLE if it is SLEEPING (on either channel).                       *)
kill(p) ==
  /\ ~panicked /\ ~killed[p] /\ pc[p] \notin {"idle", "dead"}
  /\ killed' = [killed EXCEPT ![p] = TRUE]
  /\ pc' = [pc EXCEPT ![p] = CASE @ = "rsleep" -> "read"
                               [] @ = "wsleep" -> "write"
                               [] OTHER -> @]
  /\ UNCHANGED <<buf, ri, wi, ei, ubuf, uri, uwi, thr, busy, tot, left,
                 got, fault, typed, calls, panicked>>

(* sys_write on the console: count > 0; console::write starts its loop.  *)
sys_write(p, n, f) ==
  /\ ~panicked /\ pc[p] = "idle" /\ calls < MaxCalls
  /\ calls' = calls + 1
  /\ pc' = [pc EXCEPT ![p] = "write"]
  /\ tot' = [tot EXCEPT ![p] = n] /\ left' = [left EXCEPT ![p] = n]
  /\ fault' = [fault EXCEPT ![p] = f]
  /\ UNCHANGED <<buf, ri, wi, ei, ubuf, uri, uwi, thr, busy, got, killed,
                 typed, panicked>>

(* UART.putc of p's byte (uart.rs): under the UART lock sleep on        *)
(* &uart.ri while the ring is full, else put the byte at uwi, advance    *)
(* uwi and transmit.  A woken writer re-runs the loop.                   *)
putc(p) ==
  IF UFull
  THEN /\ pc' = [pc EXCEPT ![p] = "wsleep"]
       /\ UNCHANGED <<ubuf, uri, uwi, thr, busy, tot, left, fault>>
  ELSE \E b \in {[ubuf EXCEPT ![uwi % UART_BUF] = p]} :
         /\ ubuf' = b /\ uwi' = W(uwi + 1)
         /\ left' = [left EXCEPT ![p] = @ - 1]
         /\ transmit(b, uri, W(uwi + 1), busy, thr, pc)
         /\ UNCHANGED <<tot, fault>>

(* One pass of console::write's loop: return after the last byte or at   *)
(* a failing copy_in (Ok(i)), else putc the byte.                        *)
write(p) ==
  /\ ~panicked /\ pc[p] = "write"
  /\ IF left[p] = 0 \/ fault[p] = tot[p] - left[p]
       THEN /\ pc' = [pc EXCEPT ![p] = After(p)]
            /\ tot' = [tot EXCEPT ![p] = 0] /\ left' = [left EXCEPT ![p] = 0]
            /\ fault' = [fault EXCEPT ![p] = -1]
            /\ UNCHANGED <<ubuf, uri, uwi, thr, busy>>
       ELSE putc(p)
  /\ UNCHANGED <<buf, ri, wi, ei, got, killed, typed, calls, panicked>>

\* The device finishes shifting out the byte in its holding register.
TxDone ==
  /\ busy
  /\ busy' = FALSE
  /\ UNCHANGED <<buf, ri, wi, ei, ubuf, uri, uwi, thr, pc, tot, left, got,
                 fault, killed, typed, calls, panicked>>

(* The console's handling of one received byte c (console::intr), as a   *)
(* record of the new buffer, ei and wi, whether readers are woken and    *)
(* the byte echoed through putc_sync (None: nothing echoed).             *)
Keep == [buf |-> buf, ei |-> ei, wi |-> wi, wake |-> FALSE, echo |-> None]

\* ^U: back ei up to wi or to just after the last newline before it.
RECURSIVE KillBack(_)
KillBack(e) ==
  IF e # wi /\ buf[W(e - 1) % CONSOLE_BUF] # LF THEN KillBack(W(e - 1)) ELSE e

\* Append d at ei; commit the line at a newline, EOT or a full buffer.
Store(d) ==
  LET e == W(ei + 1)
      commit == d \in {LF, EOT} \/ W(e - ri) = CONSOLE_BUF
  IN [buf |-> [buf EXCEPT ![ei % CONSOLE_BUF] = d], ei |-> e,
      wi |-> IF commit THEN e ELSE wi, wake |-> commit, echo |-> d]

console_intrNoRoom(c) ==
  CASE c = BS_LINE ->
         LET e == KillBack(ei)
         IN [Keep EXCEPT !.ei = e, !.echo = IF e # ei THEN BS ELSE None]
    [] c \in {BS, DEL} ->
         IF ei # wi THEN [Keep EXCEPT !.ei = W(ei - 1), !.echo = BS] ELSE Keep
    [] OTHER -> IF c # NUL THEN Store(IF c = CR THEN LF ELSE c) ELSE Keep

console_intr(c) ==
  CASE c = BS_LINE ->
         LET e == KillBack(ei)
         IN [Keep EXCEPT !.ei = e, !.echo = IF e # ei THEN BS ELSE None]
    [] c \in {BS, DEL} ->
         IF ei # wi THEN [Keep EXCEPT !.ei = W(ei - 1), !.echo = BS] ELSE Keep
    [] OTHER ->
         IF c # NUL /\ W(ei - ri) < CONSOLE_BUF
           THEN Store(IF c = CR THEN LF ELSE c) ELSE Keep

(* Uart::intr after the device received byte c: console::intr(c) under  *)
(* the console lock (echoing through putc_sync, which waits for the     *)
(* holding register and fills it), then transmit under the UART lock.   *)
(* ^P reaches todo!() and panics the kernel.                              *)
RxIntr(c) ==
  /\ ~panicked /\ typed < MaxTyped /\ ConsoleFree
  /\ typed' = typed + 1
  /\ IF c = PRINT_PROCESS
       THEN /\ panicked' = TRUE
            /\ UNCHANGED <<buf, ri, wi, ei, ubuf, uri, uwi, thr, busy, pc>>
       ELSE \E x \in {console_intr(c)} :
              /\ buf' = x.buf /\ ei' = x.ei /\ wi' = x.wi
              /\ transmit(ubuf, uri, uwi, busy \/ x.echo # None,
                          IF x.echo = None THEN thr ELSE x.echo,
                          IF x.wake THEN WakeR(pc) ELSE pc)
              /\ UNCHANGED <<ri, ubuf, uwi, panicked>>
  /\ UNCHANGED <<tot, left, got, fault, killed, calls>>

(* Uart::intr on the holding register emptying with bytes in the ring:  *)
(* the receive loop finds nothing, transmit sends the next byte.         *)
TxIntrNoTransmit ==
  /\ ~panicked /\ ~busy /\ uri # uwi
  /\ UNCHANGED vars

TxIntr ==
  /\ ~panicked /\ ~busy /\ uri # uwi
  /\ transmit(ubuf, uri, uwi, busy, thr, pc)
  /\ UNCHANGED <<buf, ri, wi, ei, ubuf, uwi, tot, left, got, fault, killed,
                 typed, calls, panicked>>

Next ==
  \/ \E p \in Procs, n \in ReadCounts :
       \E f \in Faults(n) : sys_read(p, n, f)
  \/ \E p \in Procs, n \in WriteCounts :
       \E f \in Faults(n) : sys_write(p, n, f)
  \/ \E p \in Procs : ReadResume(p) \/ sleep(p) \/ write(p) \/ kill(p)
  \/ TxDone \/ TxIntr
  \/ \E c \in Keys : RxIntr(c)

(* The scheduler runs every runnable process (a reader woken or between  *)
(* its check and its sleep, a writer), the device shifts out each byte, *)
(* and an emptied holding register raises the interrupt that refills it *)
(* (IER = 0x03 enables it).  Keyboard input and kill are not assumed.    *)
Fairness ==
  /\ \A p \in Procs : WF_vars(ReadResume(p)) /\ WF_vars(sleep(p))
                      /\ WF_vars(write(p))
  /\ WF_vars(TxDone) /\ WF_vars(TxIntr)

Spec == Init /\ [][Next]_vars /\ Fairness

-----------------------------------------------------------------------------
(* The bytes of a ring b of n slots from Wrapping index from up to to.   *)
Seg(b, from, to, n) == [k \in 1 .. W(to - from) |-> b[W(from + k - 1) % n]]

AC == INSTANCE AbstractConsole WITH
        committed <- Seg(buf, ri, wi, CONSOLE_BUF),
        editing <- Seg(buf, wi, ei, CONSOLE_BUF),
        pending <- Seg(ubuf, uri, uwi, UART_BUF)

(* The console and UART implement AbstractConsole: with the line buffer  *)
(* read from ri to wi as the committed input, from wi to ei as the line  *)
(* being edited and the UART ring from ri to wi as the pending output,   *)
(* every step of read, write, putc, transmit and intr is a step of the   *)
(* sequence specification.  Wrapping indices, the full-buffer tests of   *)
(* intr and putc, erase and kill-line walking ei back, EOT left for the  *)
(* next read, and the wakeups on &console.ri and &uart.ri are all in it. *)
ConsoleSpec == AC!Spec

(* Every console write returns: with the device draining each byte and  *)
(* its interrupt firing, a writer sleeping on a full UART ring is woken *)
(* and finishes, once the other processes stop writing.                  *)
WriteCompletes ==
  \A p \in Procs : pc[p] \in {"write", "wsleep"} ~> pc[p] \in {"idle", "dead"}
=============================================================================
