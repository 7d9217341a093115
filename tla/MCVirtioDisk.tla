---------------------------- MODULE MCVirtioDisk ----------------------------
EXTENDS VirtioDisk, TLC
CONSTANTS p1, p2, p3
ProcSymmetry == Permutations(Procs)
=============================================================================
