--------------------------- MODULE MCDeadLetters ---------------------------
EXTENDS DeadLetters
CONSTANTS r1, m1
=============================================================================
