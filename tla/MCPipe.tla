------------------------------- MODULE MCPipe -------------------------------
EXTENDS Pipe, TLC
CONSTANTS p1, p2

\* The state with what no later step reads masked: the count argument and
\* progress of a process outside read / write (StartRead and StartWrite set
\* them afresh), and the killedAsleep ghost, which only
\* KilledReaderTakesNothing reads.
InCall(p) == pc[p] \notin {"unborn", "idle", "gone"}
Masked ==
  <<readOpen, writeOpen, readCnt, writeCnt, data, lock, pc,
    [p \in Procs |-> IF InCall(p) THEN want[p] ELSE 0],
    [p \in Procs |-> IF InCall(p) THEN moved[p] ELSE 0],
    killed, ofile, nw, out, dropUnbalanced, stranded>>
=============================================================================
