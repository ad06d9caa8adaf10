------------------------------- MODULE MCPool -------------------------------
EXTENDS Pool
CONSTANTS w1, w2, p1, p2
=============================================================================
