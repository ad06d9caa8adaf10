--------------------------- MODULE MCAmqpPublish ---------------------------
EXTENDS AmqpPublish
CONSTANTS c1, c2
=============================================================================
