------------------------------ MODULE MCConsole ------------------------------
EXTENDS Console, TLC

CONSTANTS p1, p2, a

(* States that differ only in what a finished read returned, in the     *)
(* byte last put in the holding register, or in buffer slots outside     *)
(* ri .. ei and the ring outside uri .. uwi, have the same futures: all  *)
(* of these are overwritten before they are read again.                  *)
Masked ==
  <<Seg(buf, ri, ei, CONSOLE_BUF), ri, wi, ei,
    Seg(ubuf, uri, uwi, UART_BUF), uri, uwi, busy, pc, tot, left,
    [p \in Procs |-> IF pc[p] \in {"read", "tosleep", "rsleep"} THEN got[p]
                     ELSE << >>],
    fault, killed, typed, calls, panicked>>
=============================================================================
