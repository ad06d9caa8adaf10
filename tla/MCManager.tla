----------------------------- MODULE MCManager -----------------------------
EXTENDS Manager
CONSTANTS k1, k2, main, user, d1, d2
=============================================================================
