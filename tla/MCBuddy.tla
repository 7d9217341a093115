------------------------------- MODULE MCBuddy -------------------------------
EXTENDS Buddy, TLC
=============================================================================
