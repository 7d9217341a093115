------------------------------- MODULE MCLog -------------------------------
(* Model-checking instance of Log: small sets of processes, blocks and     *)
(* contents given in the cfg files.                                        *)
EXTENDS Log, TLC

CONSTANTS p1, p2, p3

\* Processes are interchangeable in the log protocol.
ProcSymmetry == Permutations(Procs)
=============================================================================
