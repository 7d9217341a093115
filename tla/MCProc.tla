------------------------------- MODULE MCProc -------------------------------
EXTENDS Proc, TLC
CONSTANTS h1, h2
=============================================================================
