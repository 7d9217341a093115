--------------------------- MODULE AbstractConsole ---------------------------
(***************************************************************************)
(* What the console and the UART promise (spec.md 4.5), with sequences in *)
(* place of the rings: committed is the input readers may take, editing  *)
(* the line still being edited, pending the bytes written and not yet   *)
(* handed to the device.  Together committed and editing never exceed    *)
(* CONSOLE_BUF, pending never exceeds UART_BUF.  A line is committed at a *)
(* newline, EOT or a full buffer, and committing wakes the readers; erase *)
(* drops the last edited byte and kill-line the edited line; a read takes *)
(* bytes from the front of committed, stopping after a newline, at an    *)
(* EOT (consumed only when nothing was copied yet) or at a failing copy;  *)
(* the device is handed the oldest pending byte, which wakes the writers. *)
(* The process and device state is the same as the code's.               *)
(***************************************************************************)
EXTENDS Integers, Sequences

CONSTANTS Procs, LF, CR, EOT, BS, DEL, BS_LINE, PRINT_PROCESS, NUL,
          Keys, CONSOLE_BUF, UART_BUF, MaxTyped, MaxCalls,
          ReadCounts, WriteCounts, CopyFaults, None

VARIABLES committed, editing, pending, thr, busy,
          pc, tot, left, got, fault, killed, typed, calls, panicked

avars == <<committed, editing, pending, thr, busy,
           pc, tot, left, got, fault, killed, typed, calls, panicked>>

Faults(n) == IF CopyFaults THEN {-1} \cup 0 .. n - 1 ELSE {-1}
Free == \A p \in Procs : pc[p] # "tosleep"
WakeR(s) == [q \in Procs |-> IF s[q] = "rsleep" THEN "read" ELSE s[q]]
WakeW(s) == [q \in Procs |-> IF s[q] = "wsleep" THEN "write" ELSE s[q]]
Done(p) == IF killed[p] THEN "dead" ELSE "idle"

\* Hand the oldest pending byte s to an idle device; writers wake.
Send(s, bz, t, ps) ==
  IF s # << >> /\ ~bz
  THEN pending' = Tail(s) /\ thr' = Head(s) /\ busy' = TRUE /\ pc' = WakeW(ps)
  ELSE pending' = s /\ thr' = t /\ busy' = bz /\ pc' = ps

\* A read with l of n bytes left and g copied takes from the front of s.
RECURSIVE Take(_, _, _, _, _)
Take(s, l, g, n, f) ==
  IF l = 0 THEN [rest |-> s, left |-> l, got |-> g, st |-> "done"]
  ELSE IF s = << >> THEN [rest |-> s, left |-> l, got |-> g, st |-> "wait"]
  ELSE IF Head(s) = EOT
    THEN [rest |-> IF l < n THEN s ELSE Tail(s), left |-> l, got |-> g,
          st |-> "done"]
  ELSE IF n - l = f THEN [rest |-> Tail(s), left |-> l, got |-> g, st |-> "done"]
  ELSE IF Head(s) = LF
    THEN [rest |-> Tail(s), left |-> l - 1, got |-> Append(g, LF), st |-> "done"]
  ELSE Take(Tail(s), l - 1, Append(g, Head(s)), n, f)

Read(p, n, f, l, g) ==
  \E x \in {Take(committed, l, g, n, f)} :
    /\ committed' = x.rest
    /\ got' = [got EXCEPT ![p] = x.got]
    /\ IF x.st = "wait" /\ ~killed[p]
         THEN pc' = [pc EXCEPT ![p] = "tosleep"] /\ tot' = [tot EXCEPT ![p] = n]
              /\ left' = [left EXCEPT ![p] = x.left]
              /\ fault' = [fault EXCEPT ![p] = f]
         ELSE pc' = [pc EXCEPT ![p] = Done(p)] /\ tot' = [tot EXCEPT ![p] = 0]
              /\ left' = [left EXCEPT ![p] = 0]
              /\ fault' = [fault EXCEPT ![p] = -1]
    /\ UNCHANGED <<editing, pending, thr, busy, killed, typed, panicked>>

Init ==
  /\ committed = << >> /\ editing = << >> /\ pending = << >>
  /\ thr = NUL /\ busy = FALSE
  /\ pc = [p \in Procs |-> "idle"]
  /\ tot = [p \in Procs |-> 0] /\ left = [p \in Procs |-> 0]
  /\ got = [p \in Procs |-> << >>] /\ fault = [p \in Procs |-> -1]
  /\ killed = [p \in Procs |-> FALSE]
  /\ typed = 0 /\ calls = 0 /\ panicked = FALSE

StartRead(p, n, f) ==
  /\ ~panicked /\ pc[p] = "idle" /\ calls < MaxCalls /\ Free
  /\ calls' = calls + 1 /\ Read(p, n, f, n, << >>)

Resume(p) ==
  /\ ~panicked /\ pc[p] = "read" /\ Free
  /\ Read(p, tot[p], fault[p], left[p], got[p]) /\ UNCHANGED calls

\* Steps that touch neither the input nor the output sequences.
Quiet ==
  /\ UNCHANGED <<committed, editing, pending, thr, got, typed>>
  /\ \/ \E p \in Procs :
          /\ pc[p] = "tosleep" /\ pc' = [pc EXCEPT ![p] = "rsleep"]
          /\ UNCHANGED <<busy, tot, left, fault, killed, calls, panicked>>
     \/ \E p \in Procs :
          /\ ~panicked /\ ~killed[p] /\ pc[p] \notin {"idle", "dead"}
          /\ killed' = [killed EXCEPT ![p] = TRUE]
          /\ pc' = [pc EXCEPT ![p] = CASE @ = "rsleep" -> "read"
                                       [] @ = "wsleep" -> "write"
                                       [] OTHER -> @]
          /\ UNCHANGED <<busy, tot, left, fault, calls, panicked>>
     \/ \E p \in Procs, n \in WriteCounts : \E f \in Faults(n) :
          /\ ~panicked /\ pc[p] = "idle" /\ calls < MaxCalls
          /\ calls' = calls + 1 /\ pc' = [pc EXCEPT ![p] = "write"]
          /\ tot' = [tot EXCEPT ![p] = n] /\ left' = [left EXCEPT ![p] = n]
          /\ fault' = [fault EXCEPT ![p] = f]
          /\ UNCHANGED <<busy, killed, panicked>>
     \/ busy /\ busy' = FALSE
        /\ UNCHANGED <<pc, tot, left, fault, killed, calls, panicked>>

\* A writer returns, sleeps on a full output, or appends its next byte.
Write(p) ==
  /\ ~panicked /\ pc[p] = "write"
  /\ \/ /\ left[p] = 0 \/ fault[p] = tot[p] - left[p]
        /\ pc' = [pc EXCEPT ![p] = Done(p)]
        /\ tot' = [tot EXCEPT ![p] = 0] /\ left' = [left EXCEPT ![p] = 0]
        /\ fault' = [fault EXCEPT ![p] = -1]
        /\ UNCHANGED <<pending, thr, busy>>
     \/ /\ left[p] > 0 /\ fault[p] # tot[p] - left[p]
        /\ Len(pending) = UART_BUF
        /\ pc' = [pc EXCEPT ![p] = "wsleep"]
        /\ UNCHANGED <<pending, thr, busy, tot, left, fault>>
     \/ /\ left[p] > 0 /\ fault[p] # tot[p] - left[p]
        /\ Len(pending) < UART_BUF
        /\ left' = [left EXCEPT ![p] = @ - 1]
        /\ Send(Append(pending, p), busy, thr, pc)
        /\ UNCHANGED <<tot, fault>>
  /\ UNCHANGED <<committed, editing, got, killed, typed, calls, panicked>>

\* The effect of a received byte c on the line being edited.
Edit(c) ==
  CASE c = BS_LINE -> [ed |-> << >>, echo |-> IF editing # << >> THEN BS ELSE None]
    [] c \in {BS, DEL} ->
         IF editing # << >>
           THEN [ed |-> SubSeq(editing, 1, Len(editing) - 1), echo |-> BS]
           ELSE [ed |-> editing, echo |-> None]
    [] OTHER ->
         IF c # NUL /\ Len(committed) + Len(editing) < CONSOLE_BUF
           THEN [ed |-> Append(editing, IF c = CR THEN LF ELSE c),
                 echo |-> IF c = CR THEN LF ELSE c]
           ELSE [ed |-> editing, echo |-> None]

Receive(c) ==
  /\ ~panicked /\ typed < MaxTyped /\ Free
  /\ typed' = typed + 1
  /\ IF c = PRINT_PROCESS
       THEN panicked' = TRUE /\ UNCHANGED <<committed, editing, pending, thr, busy, pc>>
       ELSE \E x \in {Edit(c)} :
              LET full == Len(committed) + Len(x.ed) = CONSOLE_BUF
                  stored == Len(x.ed) > Len(editing)
                  commit == stored /\ (x.echo \in {LF, EOT} \/ full)
              IN /\ committed' = IF commit THEN committed \o x.ed ELSE committed
                 /\ editing' = IF commit THEN << >> ELSE x.ed
                 /\ Send(pending, busy \/ x.echo # None,
                         IF x.echo = None THEN thr ELSE x.echo,
                         IF commit THEN WakeR(pc) ELSE pc)
                 /\ UNCHANGED panicked
  /\ UNCHANGED <<tot, left, got, fault, killed, calls>>

Next ==
  \/ \E p \in Procs, n \in ReadCounts : \E f \in Faults(n) : StartRead(p, n, f)
  \/ \E p \in Procs : Resume(p) \/ Write(p)
  \/ Quiet
  \/ ~panicked /\ ~busy /\ pending # << >>
     /\ Send(pending, busy, thr, pc)
     /\ UNCHANGED <<committed, editing, tot, left, got, fault, killed, typed,
                    calls, panicked>>
  \/ \E c \in Keys : Receive(c)

Spec == Init /\ [][Next]_avars
=============================================================================
